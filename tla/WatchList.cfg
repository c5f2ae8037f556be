SPECIFICATION FairSpec
CONSTANTS
    Mints = {m1, m2, m3}
    MaxGoldListSize = 2
    TpmValues = {25, 80}
    PressureValues = {30}
    FreshSeconds = 1
    WarmSeconds = 2
    StaleSeconds = 2
    AgeCap = 4
    MaxAdds = 3
INVARIANTS
    TypeOK
    IndexConsistent
    BoughtIsNotStale
PROPERTIES
    EveryCandidateLeaves
    ImplementsSet
    OnlyStaleLeave
