SPECIFICATION SyncSpec
CONSTANTS
    Waiters = {w1}
    Notifiers = {n1}
    Threads = {w1, n1}
    MaxWaits = 2
    Count = 2
    MaxCalls = 3
PROPERTIES Released
CHECK_DEADLOCK FALSE
