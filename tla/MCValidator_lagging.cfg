SPECIFICATION Spec
CONSTANTS
    EpochEnds <- MCEpochEnds
    Mortality = 4
    RateLimit = 3
    MaxLag = 3
    MaxBlock = 11
    Runners = {service, manual}
    Ids = {a, b}
    NoId = none
    NoRunner = free
SYMMETRY Symmetry
INVARIANTS
    StateLoadable
PROPERTIES
    RecordsOnlyAdvance
    BroadcastMatchesRecord
    KeepsPromise
