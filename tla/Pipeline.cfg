SPECIFICATION FairSpec
CONSTANTS
    m1 = m1
    m2 = m2
    Mints <- MCMints
    Tx <- MCTx
    RawCap = 1
    VelocityCap = 1
    PoolCap = 1
    SafeCap = 1
    MaxPerShred = 2
    MaxTxs = 3
CHECK_DEADLOCK FALSE
INVARIANTS
    TypeOK
    EventsAccounted
    OnlySafeTracked
PROPERTIES
    EveryTransactionRead
    EveryPoolJudged
    EverySafeTracked
    ImplementsFeed
