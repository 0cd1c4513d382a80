SPECIFICATION Spec
CONSTANTS
    Slots = 4
    Levels = 20
    FieldPrime <- MCPrime
    Permute <- MCPermute
    Hash <- MCHash
    HashMapSize = 256
    HashMap <- MCHashMap
    Documents <- MCDocuments
INVARIANTS
    RunsOnceComplete
    CountersCountInputs
    NoUninitializedRead
    RegionsTile
    WitnessIffCircuit
    WitnessComplete
PROPERTIES
    SingleAssignment
