CONSTANTS
    NumWorkers = 2
    Producers = {p1, p2}
    Tasks = {t1, t2, t3}
    MaxCount = 5
    MaxStarts = 1
    StopWhenQuiet = FALSE
SPECIFICATION Spec
PROPERTIES
    StopTerminates
CHECK_DEADLOCK FALSE
