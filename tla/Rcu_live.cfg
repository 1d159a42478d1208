CONSTANTS
    CPU = {c1, c2}
    Cb = {x1}
    BatchMod = 4
    MaxBatch = 1
    Hotplug = {"up"}
    Hp = hp
    None = none
SPECIFICATION FairSpec
PROPERTIES
    CallbacksInvoked
