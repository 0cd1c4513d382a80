\* Every caller makes one call.
CHECK_DEADLOCK FALSE
SPECIFICATION Spec
SYMMETRY CallerSymmetry
CONSTANTS
    None = None
    Callers = {k1, k2, k3}
    Ids = {i1}
    Values = {v0, v1}
    Initial = v0
    Overlap = TRUE
    ReadsFail = TRUE
    WritesFail = TRUE
INVARIANTS
    TypeOK
PROPERTIES
    OnlyOvertakenWritesLose
