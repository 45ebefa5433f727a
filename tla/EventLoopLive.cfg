CONSTANTS
    Workers = {w1}
    Sockets = {s1}
    Listener = Listener
    Events = {e1, e2, e3}
    NULL = NULL
SPECIFICATION FairSpec
PROPERTIES ReadServed OccurredHandled
CHECK_DEADLOCK FALSE
