\* Only the life cycle statuses of events are exempted.
CONSTANTS
    Members = {"decoding"}
    Clusters <- MCNames
    Objects <- MCNames
    SampleTopics <- MCSampleTopics
    MaxFaults = 1
    Unverified <- MCUnverified
    Global <- MCGlobal
    Unchecked <- MCUncheckedEvents
    Counts = {0}
    MaxItems = 1
    MaxLimit = 1
    Nodes = {n1}
    Center = n1
    None = None
SPECIFICATION AnswersSpec
INVARIANTS
    StatusesAreKnown
CHECK_DEADLOCK FALSE
