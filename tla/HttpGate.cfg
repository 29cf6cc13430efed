\* Three requests for two global slots and one slot per user.
CONSTANTS
    Workers = {w1, w2, w3}
    Peers = {p1}
    Users = {u1, u2}
    MaxConcurrent = 2
    PerUser = 1
    FailLimit = 2
    RateLimit = 1
    Window = 2
    MaxKeys = 2
    None = None
    MaxClock = 2
SPECIFICATION Spec
SYMMETRY Symmetry
INVARIANTS
    SlotsAccounted
    FailuresBounded
    OutageLocksNobodyOut
