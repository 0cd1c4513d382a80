\* A behaviour is one call.
CHECK_DEADLOCK FALSE
SPECIFICATION MCSpec
CONSTANTS
    None = None
    MaxStore = 5
    Stores <- MCStores
    Targets = {0, 1, 2, 3, 4, 5, 6, 7}
    Limits = {2, 4}
    TableSize = 4
    Hashes = {1, 2, 3, 4, 5, 6, 7, 8, 9}
    FieldQ = 13
    ShortMax = 3
    Radix = 3
    Mantissa = 3
    MaxExponent = 5
INVARIANTS
    SelectionComplete
    SelectionMinimal
    LookupFinds
    FieldAgrees
    JsonLosesNothing
