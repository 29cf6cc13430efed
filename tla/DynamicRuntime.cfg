\* Two contracts and a broken one replace each other against one client and one call in
\* progress, with a loader and without; d3 is rejected by AddTool.
CONSTANTS
    d1 = d1  d2 = d2  d3 = d3  b1 = b1  b2 = b2
    alpha = alpha  beta = beta  gamma = gamma  delta = delta  static = static
    first = first  second = second  broken = broken
    Contracts = {first, second, broken}
    Good = {first, second}
    Names = {alpha, beta, gamma, delta, static}
    Reserved = {static}
    Defs = {d1, d2, d3}
    Binds = {b1, b2}
    Offered <- MCOffered
    ETag <- MCETag
    NoETag = NoETag
    Unregistrable = {d3}
    Copies = {0, 1, 2}
    Calls = {x1}
    Clients = {k1}
    NoLoader = NoLoader
    None = None
SPECIFICATION FairSpec
INVARIANTS
    SettledMatches
    CallRunsWhatItValidated
PROPERTIES
    ListsAreWhole
    ClientsCatchUp
