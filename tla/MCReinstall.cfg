SPECIFICATION ReinstallSpec
CONSTANTS
    v1 = v1
    v2 = v2
    v3 = v3
    Versions = {v1, v2, v3}
    Sequences = {1, 2, 3}
    VersionOf <- MCVersionOf
    BadVersions = {v3}
    Base = v1
    MaxWaiting = 1
    None = none
    MaxInstalls = 2
INVARIANTS
    AlwaysAWayBack
    InstallationTakesEffect
