\* What the comment in stop_handler says of the children at the end.
CONSTANTS
    NumComponents = 2
    MaxSignals = 1
    MaxSpawns = 2
SPECIFICATION Spec
CHECK_DEADLOCK FALSE
INVARIANT NoSilentOrphan
