SPECIFICATION Spec
CONSTANTS
    NW = 2
    NS = 1
    Conns = {c1, c2, c3}
    Batch = 2
    Client = TRUE
    Via <- MCVia
INVARIANTS NoneLate NoneOverlooked
PROPERTIES ShutdownReturns ArrivalsServed
CHECK_DEADLOCK FALSE
