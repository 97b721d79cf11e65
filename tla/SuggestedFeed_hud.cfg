SPECIFICATION Spec
CONSTANTS
    Incre = 2
    MaxPosts = 9
    MaxAppears = 1
    MaxPulls = 2
    MaxFaults = 0
INVARIANTS HUDOnlyWhileLoading
CHECK_DEADLOCK FALSE
