CONSTANTS
    NCPU = 2
    Timers = {t1, t2}
    Managed = {t1}
    None = none
    TVR_BITS = 1
    TVN_BITS = 1
    TVN = 3
    Delays = {0, 5}
    MaxLag = 2
    MaxLate = 7
    Hotplug = {1}
SPECIFICATION Spec
INVARIANTS
    TypeOK
    OnTime
    Quiesced
    NotStranded
