SPECIFICATION RecoverySpec
CONSTANTS
    EpochEnds <- MCEpochEnds
    Mortality = 3
    RateLimit = 2
    MaxLag = 1
    MaxBlock = 19
    CalmBy = 7
    PollEvery = 3
    Runners = {service}
    Ids = {a}
    NoId = none
    NoRunner = free
PROPERTIES
    EventuallySettled
CHECK_DEADLOCK FALSE
