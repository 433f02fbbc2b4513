SPECIFICATION FairSpec
CONSTANTS
    Txid = {t1, t2, t3}
    t1 = t1
    t2 = t2
    t3 = t3
    NoEstimate = NoEstimate
    MassDropMinCacheSize = 2
    MassDropInverse = 2
    UsizeMax = 255
    MaxMinFee = 0
    MaxNewFetchPerTick = 2
    ResyncCooldown = 1
    FeeRecomputeMinInterval = 2
    ReportsLoaded = TRUE
    MaxTip = 2
    MaxChurn = 2
    MaxFaults = 1
PROPERTY Converges
PROPERTY FeesConverge
