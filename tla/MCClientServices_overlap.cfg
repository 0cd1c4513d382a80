CHECK_DEADLOCK FALSE
SPECIFICATION Spec
CONSTANTS
    Services = {"pin"}
    None = None
    Broken = Broken
    Absent = Absent
    PrivateBalances = {5}
    PublicBalance = 9
    MaxChanges = 1
    MaxRestarts = 1
    PinCallers = {a, b}
    Pins = {p1, p2}
    MaxCalls = 2
    Digests <- MCDigests
    Chain <- MCChain
    BatchSize = 3
    Ranges <- MCRanges
INVARIANT
    PinUpdated
