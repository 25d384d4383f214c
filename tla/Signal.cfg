SPECIFICATION Spec
CONSTANTS
    t1 = t1
    t2 = t2
    r1 = r1
    r2 = r2
    Threads <- MCThreads
    Receivers <- MCReceivers
    Home <- MCHome
    MaxConns = 3
    MaxDepth = 2
    MaxEmits = 1
    None = None
SYMMETRY MCSymmetry
INVARIANTS ListsAgree EmissionInOrder
PROPERTIES NoSlotOfTheDead
CHECK_DEADLOCK FALSE
