SPECIFICATION FairSpec
CONSTANTS
    Inherit = Inherit
    Unheeded = Unheeded
    Callers = {c1, c2, c3}
    Priorities = {Low, High}
    MaxRuns = 2
    StartsAlone = TRUE
    WaitsApart = TRUE
    None = None
INVARIANTS HandleIsRight
PROPERTIES WaitsReturnReaped
CHECK_DEADLOCK FALSE
