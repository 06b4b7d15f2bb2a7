SPECIFICATION Spec
CONSTANTS
    Workers = {w1}
    Hour = 2
    Price = 1
    Deposits = {9}
    Lag = 2
    None = None
    MaxClock = 7
    MaxAssignments = 1
    MaxCrashes = 0
INVARIANTS
    HoursChargedOnce
CHECK_DEADLOCK FALSE
