SPECIFICATION Spec
CONSTANTS
    N = 2
    Hosts = {h1, h2}
    Amounts = {1, 3}
    PipeSize = 1
    MaxCalls = 2
INVARIANTS EachConnectionOnce NoTaskForgotten
PROPERTIES AllAttempted
CHECK_DEADLOCK FALSE
