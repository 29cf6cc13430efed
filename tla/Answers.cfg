\* Names as they are, encoded, ambiguous, blank and empty; zero, one and two partitions that
\* fail; lists that halve three times, and three nodes, a graph to cut twice.
CONSTANTS
    Members = {"decoding", "joining", "fitting"}
    Clusters <- MCNames
    Objects <- MCNames
    SampleTopics <- MCSampleTopics
    MaxFaults = 2
    Unverified <- MCUnverified
    Global <- MCGlobal
    Unchecked <- MCUnchecked
    Counts = {0, 1, 2}
    MaxItems = 5
    MaxLimit = 4
    Nodes = {n1, n2, n3}
    Center = n2
    None = None
SPECIFICATION AnswersFairSpec
INVARIANTS
    AnswersAreAboutTheTarget
    StatusesAreKnown
    StatusIsHonest
    LossIsTold
PROPERTIES
    BoundEnds
\* Every stage ends.
CHECK_DEADLOCK FALSE
