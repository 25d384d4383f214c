SPECIFICATION Spec
CONSTANTS
    IntMax = 20
    LongMax = 300
    About <- MCAbout
    Inputs <- MCInputs
    MaxObjects = 2
    MaxEdits = 1
INVARIANTS NamesAreRight FileTellsTheStore UnsavedIsScheduled
PROPERTIES WritesKeepTheRest
CHECK_DEADLOCK FALSE
