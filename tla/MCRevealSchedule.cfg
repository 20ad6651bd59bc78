SPECIFICATION Spec
CONSTANTS
    MaxTempo = 4
    MaxPeriod = 2
    Heads <- MCHeads
    Periods = {0, 1, 2, 3}
    FirstBlock = 4
    MaxBlock = 24
    MaxLag = 2
    Mortality = 4
    None = none
INVARIANTS
    RevealedAsExpected
    NeverRevealedEarly
    SimulationReaches
CHECK_DEADLOCK FALSE
