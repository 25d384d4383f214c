SPECIFICATION AffinitySpec
CONSTANTS
    None = None
    Threads = {t1, t2}
    Objects = {o1}
    TimerIds = {i1}
    MaxPosts = 2
    MaxLater = 2
    MaxMoves = 2
    MaxSweeps = 2
    Careful = TRUE
INVARIANTS WorkIsKept TimersAreWhereTheyBelong
CHECK_DEADLOCK FALSE
