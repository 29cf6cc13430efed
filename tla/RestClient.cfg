\* Two operations with two goroutines each for two slots, three requests each; the backend
\* need not answer.
CONSTANTS
    Operations = {o1, o2}
    Legs = {l1, l2}
    MaxConcurrentRequests = 2
    MaxOperationRequests = 3
SPECIFICATION FairSpec
INVARIANTS
    SlotsExact
    SentInBounds
PROPERTIES
    OperationsEnd
