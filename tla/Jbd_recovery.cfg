CONSTANTS
    Block = {b1, b2}
    Freeable = {b1}
    Handle = {h1}
    Value = {v1, magic}
    MagicValue = magic
    ZeroedValue = zeroed
    Data = data
    Free = free
    None = none
    LogSize = 10
    MaxTransBuffers = 2
    Reserved = 6
    Credits = 2
    MaxTid = 3
    MaxBoot = 1
SPECIFICATION Spec
INVARIANT AlwaysRecoverable
