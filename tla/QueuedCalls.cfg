SPECIFICATION Spec
CONSTANTS
    l = l
    p = p
    Threads = {l, p}
    Loop = l
    Adopted = FALSE
    b1 = b1
    b2 = b2
    b3 = b3
    b4 = b4
    h1 = h1
    Blocks = {b1, b2, b3, b4}
    HeapBlocks = {h1}
    Events = {b1, b2, b3, b4, h1}
    None = None
    NoEvent = None
    kBatchSize = 1
    kDefaultBlocks = 2
    w = w
    Readers = {w}
    MaxCalls = 3
    MaxWatchedCalls = 2
    MaxDepth = 2
    MaxReserves = 1
    MaxReadings = 1
    MaxSwitches = 1
INVARIANTS HealthIsTold CallsHaveTheirBlocks
CHECK_DEADLOCK FALSE
SYMMETRY Symmetry
