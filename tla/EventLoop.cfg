CONSTANTS
    Workers = {w1, w2}
    Sockets = {s1}
    Listener = Listener
    Events = {e1, e2, e3}
    NULL = NULL
SPECIFICATION Spec
SYMMETRY Symmetry
INVARIANTS TypeOK SingleOwner OneTypePerSocket PopMissesOnlyClosed
PROPERTIES WriteNotForgotten ImplementsDelivery
CHECK_DEADLOCK FALSE
