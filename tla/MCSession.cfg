SPECIFICATION SessionSpec
CONSTANTS
    parent = parent
    c1 = c1
    c2 = c2
    w1 = w1
    u1 = u1
    u2 = u2
    n2 = n2
    Procs = {parent, c1, c2}
    Parent = parent
    None = none
    Gated = TRUE
    Need = 2
    MaxCrashes = 1
    Waiters = {w1}
    Notifiers = {n1, n2, n3}
    Threads = {w1, n1, n2, n3}
    MaxWaits = 3
    Count = 3
    MaxCalls = 6
    Users = {u1, u2, u3}
    Home <- MCHome
INVARIANTS NoneBefore NoLateSleeper NoneEarly CallsAddUp UsedWhenReady Exclusion FreeAfterwards
PROPERTIES WaitReturns
CHECK_DEADLOCK FALSE
