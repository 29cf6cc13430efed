\* About 2,150 documents; the SDK refuses no tool but newOp's.  One call, since calls share
\* nothing but the registry, and seven contracts that replace each other.  Two users with a session each and one
\* that either may have, a bearer of either kind, and two requests.
CONSTANTS
    Members = {"registry", "calling", "report", "identity"}
    Documents <- MCDocuments
    Template <- MCTemplate
    Components <- MCComponents
    MaxRefDepth = 2
    ToolName <- MCToolName
    Sensitive = {"token"}
    Unregistrable = {"newOp"}
    Policy <- MCPolicy
    Selection = {"listAll", "getItem", "getITEM", "getSecret", "getGroups"}
    StaticNames = {"get_groups", "get_secret"}
    Contracts = {"reviewed", "exploded", "moved", "bounded", "renamed", "blocked", "gone"}
    Op <- MCOp
    ArgSets <- MCArgSets
    AdapterArgs <- MCAdapterArgs
    Doubles <- MCDoubles
    TooLarge = 34
    Calls = {x}
    Names = {"id"}
    Operations = {"getA", "getB"}
    Fields = {"body"}
    Properties <- MCProperties
    Values <- MCValues
    u1 = u1
    u2 = u2
    s1 = s1
    s2 = s2
    r1 = r1
    r2 = r2
    Users = {u1, u2}
    Sessions = {s1, s2, shared}
    LocalTokens = {l1}
    WebTokens = {w1}
    Requests = {r1, r2}
    Shared = shared
    MaxCalls = 1
    None = None
SPECIFICATION Spec
SYMMETRY Symmetry
INVARIANTS
    NothingIsLost
    OnlyReviewedIsPublished
    CallsSayWhatWasAsked
    CompatibleIsInterchangeable
    SpeaksForItsCaller
    CredentialsStayInside
\* Documents are read once, calls end, a report is made once, a server may refuse to start.
CHECK_DEADLOCK FALSE
