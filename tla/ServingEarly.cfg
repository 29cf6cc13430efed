\* Start returns while the first load goes on.
SPECIFICATION Spec
CONSTANTS
    Members = {"extension"}
    Generations = {g1}
    Callers = {}
    Patient = FALSE
    Conns = {}
    Enabled = TRUE
    MaxWrites = 0
    None = None
INVARIANTS
    CloseWaits
