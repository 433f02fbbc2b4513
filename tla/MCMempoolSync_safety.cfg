SPECIFICATION Spec
CONSTANTS
    Txid = {t1, t2, t3}
    t1 = t1
    t2 = t2
    t3 = t3
    NoEstimate = NoEstimate
    MassDropMinCacheSize = 2
    MassDropInverse = 2
    UsizeMax = 3
    MaxMinFee = 1
    MaxNewFetchPerTick = 2
    ResyncCooldown = 2
    FeeRecomputeMinInterval = 1
    ReportsLoaded = TRUE
    MaxTip = 2
    MaxChurn = 3
    MaxFaults = 2
SYMMETRY Symmetry
INVARIANT TypeOK
INVARIANT CaughtUpHonest
INVARIANT OutageReported
INVARIANT MassDropDecided
PROPERTY EstimateFromVouchedCache
PROPERTY EvictionsJustified
PROPERTY DownloadsSpaced
PROPERTY ImplementsFreshCache
