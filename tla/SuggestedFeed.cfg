SPECIFICATION FairSpec
CONSTANTS
    Incre = 2
    MaxPosts = 9
    MaxAppears = 2
    MaxPulls = 2
    MaxFaults = 1
INVARIANTS TypeOK RangeInBounds SerialPagesInOrder
PROPERTIES RefreshEnds
CHECK_DEADLOCK FALSE
