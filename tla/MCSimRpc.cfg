SPECIFICATION Spec
CONSTANTS
    Txid = {1, 2, 3}
    NoTx = 0
    Vsizes = {1, 2}
    Rates = {1, 4}
    MaxRate = 3
    MayAttach = {TRUE, FALSE}
    MaxChain = 3
    ArrivalsPerTick = 1
    EvictionsPerTick = 1
    BlockWeight = 8
    Clients = {c1}
    InitialSize = 3
    Profiles <- MCProfiles
    Second = 2
    BlockSecs = 4
    ChurnSecs = 2
    ReloadEvery = 2
    DropNum = 4
    DropDen = 5
    MaxTicks = 4
CONSTRAINT Focus
INVARIANTS
    TypeOK
    NoOrphans
    TotalsTruthful
    BlocksTakePackages
    BurstBounded
PROPERTY RefusedOnlyWhenSpent
