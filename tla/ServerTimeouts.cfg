CONSTANTS
    Workers = {w1, w2}
    Sockets = {s1}
    NoSocket = NoSocket
    Users = {u1}
    Timeouts = TRUE
    MaxTimers = 1
    NULL = NULL
SPECIFICATION Spec
SYMMETRY Symmetry
INVARIANTS TypeOK UserExclusive
CHECK_DEADLOCK FALSE
