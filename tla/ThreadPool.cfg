SPECIFICATION FairSpec
CONSTANTS
    Workers = {w1, w2}
    Clients = {c1, c2}
    Owner = c1
    Priorities = {0, 1}
    MaxTasks = 3
INVARIANTS NothingIsLost
PROPERTIES NothingHangs
CHECK_DEADLOCK FALSE
