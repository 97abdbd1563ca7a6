CONSTANTS
    NumWorkers = 3
    Producers = {p1, p2}
    Tasks = {t1, t2, t3}
    MaxCount = 6
    MaxStarts = 2
    StopWhenQuiet = TRUE
SPECIFICATION Spec
INVARIANTS
    TypeOK
    TokensMatch
    StoppedMeansDone
PROPERTIES
    StopTerminates
    TaskQueueSpec
CHECK_DEADLOCK FALSE
