CONSTANTS
    Callers = {c1}
    NumAddresses = 1
    Delays = {1}
    Intervals = {1}
    ClockErrors = {0}
    MaxTimers = 1
    MaxTime = 1
SPECIFICATION Spec
INVARIANTS
    CancelTakesEffect
CHECK_DEADLOCK FALSE
