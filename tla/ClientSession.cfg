CONSTANTS
    l1 = l1
    l2 = l2
    Letters = {l1, l2}
    Recipients = 2
    TextLines <- LinesOf
    NULL = NULL
SPECIFICATION FairSpec
INVARIANTS TypeOK SentIsAccepted AcceptedInOrder InStep
PROPERTY Settled
CHECK_DEADLOCK FALSE
