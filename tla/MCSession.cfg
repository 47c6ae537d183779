CONSTANTS
    c1 = c1
    c2 = c2
    c3 = c3
    h1 = h1
    h2 = h2
    w1 = w1
    u1 = u1
    u2 = u2
    Nobody = Nobody
    Callers = {c1, c2}
    Forced = {c1}
    Hosts = {h1}
    Workers = {w1}
    Users = {u1, u2}
    MaxTokens = 2
    Troubles = {"sign-out", "refusal", "silence", "cancel"}
SYMMETRY Symmetry
SPECIFICATION Spec
INVARIANTS
    HookFollowsSession
    SlotIsLive
    OnlySignedOutCancels
CHECK_DEADLOCK FALSE
