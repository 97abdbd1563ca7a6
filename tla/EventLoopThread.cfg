CONSTANTS
    Callers = {c1, c2}
    Owner = c1
    Functors = {f1, f2, f3}
    NumChannels = 2
SPECIFICATION ThreadSpec
INVARIANTS
    ThreadTypeOK
    TasksConserved
    NoLostWakeup
    NoLostQuit
    PollInOrder
    LoopPublished
PROPERTIES
    QuitTerminates
    ChannelServed
    DestructorReturns
    TaskQueueSpec
CHECK_DEADLOCK FALSE
