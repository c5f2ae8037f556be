SPECIFICATION FairSpec
CONSTANTS
    NoPosition = NoPosition
    TokenAmounts = {1, 8}
    StallSeconds = 1
    Age1 = 2
    Age2 = 3
    Age3 = 4
    MaxHold = 7
    AgeCap = 8
    MaxBack = 3
    Modulus = 100
CHECK_DEADLOCK FALSE
INVARIANTS
    TypeOK
    NeverOversold
    OversoldByOneFreeTrade
    SoldUpToOne
    FreeTradeFirst
PROPERTIES
    StopNeverFalls
    EveryPositionEnds
