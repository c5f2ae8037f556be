SPECIFICATION Spec
CONSTANTS
    Events = {e1}
    RequireMintDisabled = TRUE
    RequireFreezeDisabled = TRUE
    RequireLpBurned = TRUE
    MaxHolderPct = 50
    ProgramIdsParse = TRUE
    MaxSupply = 3
INVARIANT
    SafeLpIsBurned
