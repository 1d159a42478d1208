CONSTANTS
    Task = {t1, t2, t3}
SPECIFICATION FairSpec
INVARIANTS
    TypeOK
    QueueAlive
    Exclusion
    Accounting
PROPERTIES
    ImplementsRwLock
    OnlyUndoStrands
    ServedUnlessStranded
