SPECIFICATION Spec
CONSTANTS
    Day = 6
    MaxGap = 2
    Spreads = {0, 3}
    Sequences = {1, 2}
    Delays = {0, 4}
    MaxTime = 20
    None = none
INVARIANTS
    TimerMissesNothing
CHECK_DEADLOCK FALSE
