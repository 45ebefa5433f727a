CONSTANTS
    Workers = {w1, w2}
    Sockets = {s1}
    NoSocket = NoSocket
    Users = {u1, u2}
    Timeouts = FALSE
    MaxTimers = 2
    NULL = NULL
SPECIFICATION FairSpec
INVARIANTS BuffersAlive OneSessionPerSocket OneOutstanding
PROPERTIES ReadLostOnlyToHello QuitEndsSession AlarmFreed
CHECK_DEADLOCK FALSE
