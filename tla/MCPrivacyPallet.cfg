\* The bounds on blocks and on calls per block end the run.
CHECK_DEADLOCK FALSE
SPECIFICATION Spec
CONSTANTS
    a1 = a1
    a2 = a2
    n1 = n1
    None = None
    PoolAccount = PoolAccount
    EmptyBytes = EmptyBytes
    Accounts <- MCAccounts
    Amounts = {0, 1, 2, 5}
    Commitments = {c1, c2}
    EncryptedNotes = {e1}
    Nullifiers <- MCNullifiers
    Genesis <- MCGenesis
    ExistentialDeposit = 2
    MaxIndex = 3
    MaxNotes = 1
    MaxBlock = 3
    BlockCapacity = 2
INVARIANTS
    TypeOK
    NoDust
    NullifierLogMatchesSet
PROPERTIES
    PoolLocked
    MoneyMovesThroughPool
    ImplementsShieldedPool
