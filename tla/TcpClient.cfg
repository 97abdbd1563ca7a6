CONSTANTS
    MaxAttempts = 3
    MaxRequests = 6
    Patient = TRUE
SPECIFICATION Spec
INVARIANTS
    TypeOK
    SocketOwned
    FunctorsFresh
    AttemptAgrees
PROPERTIES
    AttemptReported
