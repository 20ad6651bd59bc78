SPECIFICATION Spec
CONSTANTS
    EpochLength = 10
    Gap = 2
    MaxRun = 2
    PollIntervals = {6, 20}
    StaleRetry = 3
    RestartSec = 1
    MaxFailures = 2
INVARIANTS
    EveryEpochScored
    NeverCutShort
    AtMostOneRunAfterSignal
PROPERTIES
    KeepsScoring
    StopsAfterSignal
