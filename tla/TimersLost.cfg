SPECIFICATION AffinitySpec
CONSTANTS
    t1 = t1
    t2 = t2
    o1 = o1
    i1 = i1
    None = None
    Threads = {t1, t2}
    Objects = {o1}
    TimerIds = {i1}
    MaxPosts = 0
    MaxLater = 0
    MaxMoves = 1
    MaxSweeps = 2
    Careful = FALSE
INVARIANT RunningTimersAreKept
CHECK_DEADLOCK FALSE
