SPECIFICATION FairSpec
CONSTANTS
    c1 = c1
    c2 = c2
    Callers <- MCOneCaller
    Ops <- MCAllOps
    MaxCalls = 3
    MaxRuns = 1
    MayFail = FALSE
PROPERTY BlockedCallReturns
CHECK_DEADLOCK FALSE
