SPECIFICATION Spec
CONSTANTS
    EpochEnds <- MCEpochEnds
    Mortality = 5
    RateLimit = 3
    MaxLag = 0
    MaxBlock = 13
    Runners = {service, manual}
    Ids = {a, b}
    NoId = none
    NoRunner = free
SYMMETRY Symmetry
INVARIANTS
    ValidatorTypeOK
    AtMostOneInFlight
    InFlightIsGuarded
    WeightsOncePerEpoch
    RecordedMeansUpdated
    NeverSentWhileRateLimited
PROPERTIES
    ScoredOnce
