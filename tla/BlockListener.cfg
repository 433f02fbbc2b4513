SPECIFICATION FairSpec
CONSTANTS
    BackoffStart = 1
    BackoffMax = 3
    MaxBlocks = 4
    MaxFaults = 4
INVARIANTS
    TypeOK
    WakePending
    NoSpuriousTicks
    FastRecovery
PROPERTIES
    BlocksReflected
    Reconnects
