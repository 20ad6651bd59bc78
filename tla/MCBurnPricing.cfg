SPECIFICATION Spec
CONSTANTS
    MaxU16 = 7
    MaxU64 = 31
    MaxU128 = 2047
    BPS = 16
    BurnStep = 4
    RaoPerTao = 4
    Emissions = {0, 5, 31}
    Tempos = {3, 7}
    Cuts = {0, 2}
    Reserves = {0, 1, 3, 31}
    Targets = {1, 3, 31}
    Prices = {1, 2, 31}
    MaxMiners = 3
    MCUids = {0, 7, 8}
    MCWeights = {0, 3, 7}
    MinerLists <- MCMinerLists
    None = none
INVARIANTS
    MinersKeepTarget
    BurnIsLargest
    VectorIsExact
