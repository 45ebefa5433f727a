CONSTANTS
    NumThreads = 2
    d1 = d1
    d2 = d2
    DomainList <- TwoDomains
    Descriptors <- TwoDescriptors
    NULL = NULL
SPECIFICATION Spec
INVARIANT ConnectionsWatched
CHECK_DEADLOCK FALSE
