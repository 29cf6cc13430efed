\* Three keys compete for two buckets of two tokens.
CONSTANTS
    Keys = {k1, k2, k3}
    Limit = 2
    Window = 2
    MaxKeys = 2
    Absent = Absent
    MaxClock = 3
SPECIFICATION Spec
SYMMETRY Symmetry
INVARIANTS
    NeverOverspends
    EvictionUnnoticed
