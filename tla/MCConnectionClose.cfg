SPECIFICATION Spec
CONSTANTS
    Conns = {c1, c2}
    Dialled = {}
    Fds = {1, 2}
    Loops = {l1, l2}
    None = None
    Backends = {"epoll"}
    OnOpen = {"idle"}
    OnRead = {"idle", "write", "close"}
    OnWritten = {"idle", "close"}
    PeerMay = {}
    MsgLen = 2
    Capacity = 1
    MaxMsgs = 1
    MaxReqs = 2
SYMMETRY ConnSymmetry
INVARIANTS NoFault NeverStranded NoOutputDropped
CHECK_DEADLOCK FALSE
