SPECIFICATION Spec
CONSTANTS
    Mints = {m1, m2}
    MaxPositions = 1
    TradeCooldown = 1
    TakeProfitPct = 12
    StopLossPct = 35
    MaxHoldSeconds = 1
    EarlySeconds = 1
    MidSeconds = 2
    StallSeconds = 1
    AgeCap = 2
    MaxBack = 0
    Modulus = 100
    SignalPnl = {15}
    RepeatSignals = TRUE
    SignalCap = 1
    MaxBundles = 2
SYMMETRY MintSymmetry
INVARIANTS
    TypeOK
    PositionLimit
    EachTradeOnce
    WinsAgree
    ProfitsAgree
PROPERTIES
    ImplementsBook
