SPECIFICATION Spec
CONSTANTS
    Mints = {m1}
    Minute = 3
    WarZone = 6
    GiveUp = 8
    MinIncrease = 20
    MinMinute2 = 1
    MinWallets = 3
    AgeCap = 9
    MaxTxs = 4
    MaxTracked = 1
INVARIANT
    BuyNeedsMinute2
