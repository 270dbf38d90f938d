SPECIFICATION Spec
CONSTANTS
    Threads = {a, b}
    Writer = Writer
    None = None
    MaxLines = 2
    MaxPieces = 2
INVARIANTS OrderKept LinesWhole
PROPERTIES LinesWritten DestructorReturns
CHECK_DEADLOCK FALSE
