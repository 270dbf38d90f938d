SPECIFICATION Spec
CONSTANTS
    Conns = {c1, c2}
    Dialled = {c2}
    Fds = {1, 2}
    Loops = {l1}
    None = None
    Backends = {"epoll", "kqueue"}
    OnOpen = {"idle"}
    OnRead = {"idle", "write"}
    OnWritten = {"idle"}
    PeerMay = {"fin", "reset"}
    MsgLen = 2
    Capacity = 1
    MaxMsgs = 1
    MaxReqs = 1
INVARIANTS NoFault NeverStranded ClosedIsFinal
PROPERTIES OutputSent EndNoticed
CHECK_DEADLOCK FALSE
