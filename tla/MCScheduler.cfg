CONSTANTS
    MaxOps = 2
    MaxFailures = 2
    MaxFlips = 2
    MaxTroubles = 2
    MaxRestarts = 1
SPECIFICATION BothSpec
INVARIANTS
    NoStranding
    NoParallelDrain
    NoFalseAlarm
PROPERTIES
    Drains
    DeathNoticed
CHECK_DEADLOCK FALSE
