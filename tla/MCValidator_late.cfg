SPECIFICATION Spec
CONSTANTS
    EpochEnds <- MCEpochEnds
    Mortality = 4
    RateLimit = 2
    MaxLag = 0
    MaxBlock = 9
    Runners = {service}
    Ids = {a}
    NoId = none
    NoRunner = free
INVARIANTS
    RecordedEpochHasItsWeights
