SPECIFICATION Spec
CONSTANTS
    Events = {e1, e2}
    RequireMintDisabled = TRUE
    RequireFreezeDisabled = TRUE
    RequireLpBurned = TRUE
    MaxHolderPct = 50
    ProgramIdsParse = TRUE
    MaxSupply = 2
SYMMETRY EventSymmetry
INVARIANTS
    TypeOK
    SafeCannotBeMinted
    SafeIsNotConcentrated
