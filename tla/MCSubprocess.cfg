SPECIFICATION Spec
CONSTANTS
    Ends <- SubpEnds
    Chans <- SubpChans
    Step = 2
    PipeSize = 2
    MaxBytes = 3
    MaxErrs = 1
INVARIANTS InBounds StringsEnd AllCollected
PROPERTIES WaitEnds IsFifo
CHECK_DEADLOCK FALSE
