SPECIFICATION FairSpec
CONSTANTS
    Workers = {w1}
    NULL = NULL
    MaxSignals = 1
    MaxWritten = 1
INVARIANTS NoDeadlock NothingLoggedIsLost FreedWhenUnused
PROPERTY StopEnds
CHECK_DEADLOCK FALSE
