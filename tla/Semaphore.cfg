CONSTANTS
    Task = {t1, t2, t3, t4}
    N = 2
SPECIFICATION FairSpec
INVARIANTS
    TypeOK
    Exclusion
    Accounting
    NoLostWakeup
PROPERTIES
    WaitersServed
