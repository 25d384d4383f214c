SPECIFICATION Spec
CONSTANTS
    r1 = r1
    r2 = r2
    Receivers <- MCReceivers
    Posters = {p1}
    Priorities <- MCTwoPriorities
    Capacities <- MCTwoCapacities
    MaxEvents = 3
    MaxDepth = 2
    MayMove = TRUE
    Bystanders <- MCBystanders
    None = None
INVARIANTS OneOwner QueueIsSound PassesAreSound
PROPERTIES EqualPriorityKeepsOrder DeferredDeletesAreKept
CHECK_DEADLOCK FALSE
