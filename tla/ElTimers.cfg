CONSTANTS
    Workers = {w1, w2}
    Timers = {t1, t2, t3}
    Periods = {0, 1}
    MaxTime = 1
    NULL = NULL
SPECIFICATION FairSpec
INVARIANTS TypeOK HandlerExclusive NoDanglingPtr
PROPERTIES DeletedIsFreed DueIsFired
