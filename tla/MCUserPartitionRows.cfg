CONSTANTS
    u1 = u1
    u2 = u2
    u3 = u3
    k1 = k1
    k2 = k2
    Nobody = Nobody
    Users = {u1, u2}
    Commands = {k1}
    MaxSwitches = 3
    MaxTroubles = 1
    MaxRestarts = 1
    MaxCommands = 2
SYMMETRY Symmetry
SPECIFICATION Spec
INVARIANT
    RowsInOwnersFile
CHECK_DEADLOCK FALSE
