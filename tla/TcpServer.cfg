CONSTANTS
    NumLoops = 2
    MaxConns = 3
    SocketEvents = {"read", "close"}
    PeerCloses = {1}
    UserCloses = {2}
    DestroyIn = "afterLoop"
SPECIFICATION Spec
INVARIANTS
    TypeOK
    DestroyedOnce
    NoStaleFunctor
    OneOwner
PROPERTIES
    CloseIsTold
    DestructorReturns
