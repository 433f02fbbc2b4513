SPECIFICATION Spec
CONSTANTS
    MaxBlockWeight = 3
    BlockReservedWeight = 1
    FastestDepth = 1
    HalfHourDepth = 3
    HourDepth = 6
    EconomyDepth = 8
    Rates = {1, 2, 4}
    Weights = {1, 3, 5}
    Floors = {0, 2}
    MaxEntries = 4
INVARIANT TiersMatchReference
INVARIANT TiersMonotone
CHECK_DEADLOCK FALSE
