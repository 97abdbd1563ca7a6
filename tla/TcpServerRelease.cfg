CONSTANTS
    NumLoops = 1
    MaxConns = 2
    SocketEvents = {"read", "close"}
    PeerCloses = {1}
    UserCloses = {}
    DestroyIn = "callback"
SPECIFICATION Spec
PROPERTY NoneAfterRelease
