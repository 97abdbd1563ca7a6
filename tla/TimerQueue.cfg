CONSTANTS
    Callers = {c1}
    NumAddresses = 2
    Delays = {0, 2}
    Intervals = {1}
    ClockErrors = {0, 1}
    MaxTimers = 2
    MaxTime = 1
SPECIFICATION Spec
INVARIANTS
    TypeOK
    SetsAgree
    OneOwner
    AlarmSet
    NoTimerLost
PROPERTIES
    CancelIsPrompt
    TimerServed
CHECK_DEADLOCK FALSE
