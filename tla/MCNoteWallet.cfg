\* A wallet with all its transfers settled has nothing left to do.
CHECK_DEADLOCK FALSE
SPECIFICATION FairSpec
CONSTANTS
    None = None
    r1 = r1
    r2 = r2
    Received = {r1, r2}
    ReceivedAmount <- MCReceivedAmount
    Transfers = {t1, t2}
    Deposits = {d1}
    TransferAmounts = {0, 3, 4}
    Environments <- MCEnvironments
INVARIANTS
    TypeOK
    AppliedWhole
    AcceptedIsApplied
    InputsAreReceived
    SelectionPassesAdapter
    SpentOnlyIfRevealed
PROPERTIES
    StoreOnlyGrows
    TransferReachesChain
    ReportSettles
