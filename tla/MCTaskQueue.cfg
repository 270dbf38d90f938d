SPECIFICATION Spec
CONSTANTS
    t1 = t1
    t2 = t2
    t3 = t3
    Tasks = {t1, t2, t3}
    Workers = {w1, w2, w3}
    NoTask = NoTask
    Batches <- MCBatches
INVARIANTS StopDrains ExactlyOnce NoIdleSleeper
PROPERTIES StopReturns IsTaskPool
CHECK_DEADLOCK FALSE
