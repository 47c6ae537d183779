CONSTANTS
    c1 = c1
    c2 = c2
    c3 = c3
    h1 = h1
    h2 = h2
    w1 = w1
    u1 = u1
    u2 = u2
    Nobody = Nobody
    Callers = {c1, c2, c3}
    Forced = {}
    Hosts = {h1}
    Workers = {}
    Users = {u1}
    MaxTokens = 1
    Troubles = {"silence", "cancel"}
SPECIFICATION FairSpec
INVARIANT OneLeader
PROPERTY EveryCallReturns
CHECK_DEADLOCK FALSE
