CONSTANTS
    k1 = k1
    k2 = k2
    t1 = t1
    t2 = t2
    d1 = d1
    d2 = d2
    Keys = {k1, k2}
    Tasks = {t1, t2}
    Drainers = {d1, d2}
    Slip = 0
    MaxClock = 2
    MaxOps = 2
    MaxRetries = 1
SYMMETRY Symmetry
SPECIFICATION FileSpec
INVARIANTS
    AckedOnDisk
    AckedHeld
    NoneComesBack
PROPERTY
    CommitsKeepPromise
CHECK_DEADLOCK FALSE
