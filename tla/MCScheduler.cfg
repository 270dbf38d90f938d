SPECIFICATION Spec
CONSTANTS
    Tasks = {1, 2, 3}
    Second = 6
    Units = {1, 2}
    Args <- MCArgs
    MaxTime = 20
    MaxLag = 4
INVARIANTS OnTime Punctual
PROPERTIES SchedulerEnds
CHECK_DEADLOCK FALSE
