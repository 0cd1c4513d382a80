\* A scan returns once, and the bound stops the calls of the PIN store.
CHECK_DEADLOCK FALSE
SPECIFICATION FairSpec
CONSTANTS
    Services = {"session", "pin", "scan"}
    None = None
    Broken = Broken
    Absent = Absent
    PrivateBalances = {0, 5}
    PublicBalance = 9
    MaxChanges = 1
    MaxRestarts = 1
    PinCallers = {a, b}
    Pins = {p1, p2}
    MaxCalls = 3
    Digests <- MCDigests
    Chain <- MCChain
    BatchSize = 3
    Ranges <- MCRanges
INVARIANTS
    TypeOK
    OneConnectAtATime
    NoLeakedTimer
    PinConsistent
    VerifyAgrees
    StalePinRejected
    ScanTiles
PROPERTIES
    ConnectionShows
    BalanceHeals
