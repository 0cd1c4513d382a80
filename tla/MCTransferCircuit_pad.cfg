\* A transfer is proved once.
CHECK_DEADLOCK FALSE
SPECIFICATION Spec
CONSTANTS
    None = None
    Slots = 2
    Levels = 3
    FieldPrime = 13
    Notes <- MCNotes
    Splits <- MCSplits
    Services = {"mock", "tree"}
INVARIANTS
    AdapterFitsCircuit
