SPECIFICATION DiskSpec
CONSTANTS
    v1 = v1
    v2 = v2
    v3 = v3
    Versions = {v1, v2, v3}
    Sequences = {1, 2, 3, 4}
    VersionOf <- MCVersionOf
    BadVersions = {v3}
    Base = v1
    MaxWaiting = 1
    None = none
    SyncMayFail = FALSE
INVARIANTS
    PowerLossLeavesAWayBack
    PreviousDurableFirst
    PowerLossForgetsNoFailure
