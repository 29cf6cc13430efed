\* Two overlapping calls on one backend session, which may change hands between three users;
\* each limit refuses by itself.
CONSTANTS
    Users = {u1, u2, u3}
    Backends = {b1}
    Tokens = {t1, t2}
    Workers = {w1, w2}
    Malformed = Malformed
    BadId = BadId
    None = None
    TTL = 1
    MaxEntries = 2
    PerUser = 1
    MaxClock = 2
SPECIFICATION Spec
SYMMETRY Symmetry
INVARIANTS
    WithinLimits
    ServedWasLive
    ServedInTime
    RefusedMeansGone
    OutageKeepsDelegation
PROPERTIES
    NobodyIsCrowdedOut
    ImplementsLifecycle
