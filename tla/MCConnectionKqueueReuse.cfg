SPECIFICATION Spec
CONSTANTS
    Conns = {c1, c2}
    Dialled = {}
    Fds = {1}
    Loops = {l1}
    None = None
    Backends = {"kqueue"}
    OnOpen = {"idle"}
    OnRead = {"close"}
    OnWritten = {"idle"}
    PeerMay = {}
    MsgLen = 1
    Capacity = 1
    MaxMsgs = 1
    MaxReqs = 1
INVARIANTS NoFault
CHECK_DEADLOCK FALSE
