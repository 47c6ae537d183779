CONSTANTS
    MaxSubs = 2
    MaxChanges = 2
    Capacity = 1
    MaxDeaths = 2
    MaxTroubles = 1
SPECIFICATION FairSpec
INVARIANTS
    StreamInv
    HandleIsTruth
    NothingElseMissed
PROPERTIES
    Stops
    Recovers
CHECK_DEADLOCK FALSE
