SPECIFICATION Spec
CONSTANTS
    Mints = {m1}
    MaxPositions = 1
    TradeCooldown = 1
    TakeProfitPct = 50
    StopLossPct = 35
    MaxHoldSeconds = 2
    EarlySeconds = 1
    MidSeconds = 2
    StallSeconds = 1
    AgeCap = 2
    MaxBack = 0
    Modulus = 100
    SignalPnl = {}
    RepeatSignals = TRUE
    SignalCap = 1
    MaxBundles = 2
INVARIANT
    SoldForAgeIsOld
