SPECIFICATION FairSpec
CONSTANTS
    Mints = {m1, m2}
    MaxPositions = 2
    TradeCooldown = 1
    TakeProfitPct = 50
    StopLossPct = 35
    MaxHoldSeconds = 2
    EarlySeconds = 1
    MidSeconds = 2
    StallSeconds = 1
    AgeCap = 3
    MaxBack = 1
    Modulus = 100
    SignalPnl = {}
    RepeatSignals = FALSE
    SignalCap = 2
    MaxBundles = 2
INVARIANTS
    EveryPositionHasAnExit
    SoldForAgeIsOld
PROPERTIES
    CooldownBetweenTrades
    EveryPositionCloses
