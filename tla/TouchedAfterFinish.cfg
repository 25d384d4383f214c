SPECIFICATION Spec
CONSTANTS
    a1 = a1
    a2 = a2
    Animations = {a1, a2}
    Null = Null
    Made <- MCMade
    Durations <- MCDurations
    LoopCounts <- MCLoopCounts
    Steps <- MCSteps
    Targets = {0}
    Top = 2
    MaxDepth = 2
    MaxCalls = 3
    MaxNow = 2
SYMMETRY Symmetry
INVARIANT NothingTouchesTheGone
CHECK_DEADLOCK FALSE
