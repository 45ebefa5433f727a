CONSTANTS
    Mailboxes = {a, b}
    MaxRcpts = 2
    MaxLines = 2
    MaxBatch = 2
    NULL = NULL
SPECIFICATION Spec
SYMMETRY Symmetry
INVARIANTS TypeOK
PROPERTY LetterAsAgreed
CHECK_DEADLOCK FALSE
