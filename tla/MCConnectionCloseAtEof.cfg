SPECIFICATION Spec
CONSTANTS
    Conns = {c1}
    Dialled = {}
    Fds = {1}
    Loops = {l1}
    None = None
    Backends = {"epoll"}
    OnOpen = {"idle"}
    OnRead = {"write"}
    OnWritten = {"close"}
    PeerMay = {"fin"}
    MsgLen = 1
    Capacity = 1
    MaxMsgs = 1
    MaxReqs = 1
INVARIANTS NoFault
CHECK_DEADLOCK FALSE
