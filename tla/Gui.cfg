CONSTANTS
    Windows = {"w1", "w2"}
    NoWindow = "null"
    Buttons = {"Left", "Extra1"}
    Outputs = {"o1", "o2"}
    Keys = {"a", "left shift", "right shift"}
    Handles = {TRUE}
    Repaces = FALSE
    SlotsCloseOnEnter = FALSE
    MaxNesting = 2
    MaxTasks = 2
    MaxQueue = 2
SPECIFICATION Spec
INVARIANTS WindowsAreTracked RequestsGetThrough InputIsTheUsers GeometryIsTold
CHECK_DEADLOCK FALSE
