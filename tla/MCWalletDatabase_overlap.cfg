\* Every caller makes one call.
CHECK_DEADLOCK FALSE
SPECIFICATION Spec
CONSTANTS
    None = None
    Callers = {k1, k2, k3}
    Ids = {i1}
    Values = {v0, v1}
    Initial = v0
    Overlap = TRUE
    ReadsFail = FALSE
    WritesFail = FALSE
INVARIANTS
    SettingSaved
