CONSTANTS
    NumLoops = 1
    MaxConns = 1
    SocketEvents = {"read", "close"}
    PeerCloses = {1}
    UserCloses = {1}
    DestroyIn = "never"
SPECIFICATION Spec
INVARIANTS
    DestroyedOnce
