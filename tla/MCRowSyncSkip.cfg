CONSTANTS
    a = a
    b = b
    Devices = {a, b}
    Writers <- OneEach
    Guarded = FALSE
    LateEcho = FALSE
    MaxWrites = 2
    MaxFaults = 0
SYMMETRY Symmetry
SPECIFICATION Spec
INVARIANT SkipMeansAgreement
CHECK_DEADLOCK FALSE
