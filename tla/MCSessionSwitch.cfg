CONSTANTS
    c1 = c1
    c2 = c2
    c3 = c3
    h1 = h1
    h2 = h2
    w1 = w1
    u1 = u1
    u2 = u2
    Nobody = Nobody
    Callers = {c1}
    Forced = {}
    Hosts = {h1}
    Workers = {w1}
    Users = {u1, u2}
    MaxTokens = 2
    Troubles = {}
SPECIFICATION Spec
INVARIANT ValidMeansSameUser
CHECK_DEADLOCK FALSE
