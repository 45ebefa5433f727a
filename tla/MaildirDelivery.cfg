CONSTANTS
    Workers = {w1, w2}
    Letters = {l1, l2}
    Users = {u, v}
    Domains = {d, e}
    Existing = {}
    Failures = {"opendir", "mkdir", "fopen", "write", "rename", "kill"}
    MaxCopies = 2
    NULL = NULL
SPECIFICATION Spec
SYMMETRY Symmetry
INVARIANTS VisibleIsWhole AcknowledgedIsKept
PROPERTY ImplementsMailStore
CHECK_DEADLOCK FALSE
