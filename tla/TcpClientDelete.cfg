CONSTANTS
    MaxAttempts = 1
    MaxRequests = 1
    Patient = TRUE
SPECIFICATION Spec
PROPERTIES
    NoDeleteInHandler
