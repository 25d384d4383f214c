SPECIFICATION Spec
CONSTANTS
    r1 = r1
    r2 = r2
    Receivers <- MCReceivers
    Priorities <- MCTwoPriorities
    Capacities <- MCUnbounded
    Posters = {p1}
    MaxEvents = 4
    MaxDepth = 1
    MayMove = FALSE
    Bystanders = {}
    None = None
SYMMETRY Symmetry
INVARIANT DeferredDeletePending
CHECK_DEADLOCK FALSE
