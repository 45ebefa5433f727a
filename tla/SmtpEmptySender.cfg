CONSTANTS
    Mailboxes = {a}
    MaxRcpts = 1
    MaxLines = 1
    MaxBatch = 1
    NULL = NULL
SPECIFICATION Spec
INVARIANT EmptySenderWorks
CHECK_DEADLOCK FALSE
