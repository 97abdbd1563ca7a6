CONSTANTS
    NumChannels = 3
    Interests = {"read", "write"}
    MaxQueued = 2
SPECIFICATION Spec
INVARIANTS
    TypeOK
    IndicesAgree
    SelectAgrees
CHECK_DEADLOCK FALSE
