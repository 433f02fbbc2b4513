SPECIFICATION Spec
CONSTANTS
    Txid = {t1, t2}
    t1 = t1
    t2 = t2
    NoEstimate = NoEstimate
    MassDropMinCacheSize = 2
    MassDropInverse = 2
    UsizeMax = 255
    MaxMinFee = 0
    MaxNewFetchPerTick = 2
    ResyncCooldown = 1
    FeeRecomputeMinInterval = 1
    ReportsLoaded = TRUE
    MaxTip = 2
    MaxChurn = 2
    MaxFaults = 1
INVARIANT FeesFromCurrentSync
