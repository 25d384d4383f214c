SPECIFICATION FairSpec
CONSTANTS
    c1 = c1
    c2 = c2
    Callers <- MCCallers
    Ops <- MCOps
    MaxCalls = 2
    MaxRuns = 2
    MayFail = TRUE
INVARIANTS InOnePlace RunsInPostingOrder
PROPERTIES ImplementsTaskDelivery NothingHangs
CHECK_DEADLOCK FALSE
