CONSTANTS
    CPU = {c1, c2}
    Cb = {x1, x2}
    BatchMod = 4
    MaxBatch = 1
    Hotplug = {"down"}
    Hp = hp
    None = none
SPECIFICATION Spec
SYMMETRY Symmetry
INVARIANTS
    TypeOK
    GracePeriod
    BatchRequested
    MaskIsAlive
    WaitingNotOrphaned
