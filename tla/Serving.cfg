\* The first load ends within initialRefreshWait, or Start waits for it.  Two connections,
\* or two requests of the stdio session.
SPECIFICATION FairSpec
CONSTANTS
    Members = {"extension", "process", "answer"}
    Generations = {g1, g2}
    Callers = {r1, r2}
    Patient = TRUE
    Conns = {c1, c2}
    Enabled = TRUE
    MaxWrites = 2
    None = None
INVARIANTS
    CloseWaits
    NobodyIsCutOff
    AnswersFitTheirReader
PROPERTIES
    EveryEndComes
