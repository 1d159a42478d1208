CONSTANTS
    CPU <- TwoCPUs
    Work = {w1}
    SelfFlush = {}
    Flusher = {f1}
    Delayed = {w1}
    Hotplugger = Hotplugger
    Nobody = Nobody
    Hotplug = TRUE
    SeqRange = 8
    MaxDepth = 1
SPECIFICATION Spec
INVARIANTS
    TypeOK
    PendingOwned
    FlushWaits
    NoLostWakeup
    NothingStranded
