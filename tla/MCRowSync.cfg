CONSTANTS
    a = a
    b = b
    Devices = {a, b}
    Writers <- OneWriter
    Guarded = TRUE
    LateEcho = FALSE
    MaxWrites = 2
    MaxFaults = 2
SPECIFICATION FairSpec
INVARIANT RowInv
PROPERTIES
    NoOwnEcho
    OkIsKept
    Converges
CHECK_DEADLOCK FALSE
