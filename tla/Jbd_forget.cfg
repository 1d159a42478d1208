CONSTANTS
    Block = {b1, b2}
    Freeable = {b1, b2}
    Handle = {h1}
    Value = {v1, v2}
    MagicValue = magic
    ZeroedValue = zeroed
    Data = data
    Free = free
    None = none
    LogSize = 13
    MaxTransBuffers = 1
    Reserved = 0
    Credits = 1
    MaxTid = 5
    MaxBoot = 0
SPECIFICATION Spec
SYMMETRY Symmetry
VIEW Control
CONSTRAINT Running
INVARIANT ForgetAssert
