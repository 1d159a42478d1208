CONSTANTS
    CPU <- OneCPU
    Work = {w1, w2}
    SelfFlush = {w1}
    Flusher = {f1}
    Delayed = {}
    Hotplugger = Hotplugger
    Nobody = Nobody
    Hotplug = FALSE
    SeqRange = 16
    MaxDepth = 2
SPECIFICATION FairSpec
INVARIANTS
    FlushWaits
PROPERTIES
    QueuedRuns
    FlushEnds
