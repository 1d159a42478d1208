CONSTANTS
    CPU = {c1, c2}
    Tasklet = {t1}
    Vec <- OneVec
    VecOf <- AllLow
    Ctl = {a1}
    MaxRestart = 2
    Hotplug = {"down", "up"}
SPECIFICATION FairSpec
INVARIANTS
    TypeOK
    Serialized
    SchedOwned
    Quiesced
    NotForgotten
PROPERTIES
    ScheduledRuns
