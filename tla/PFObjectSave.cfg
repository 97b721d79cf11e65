SPECIFICATION FairSpec
CONSTANTS
    Keys = {likeCount, numViews}
    Values = {0, 1, 2}
    None = None
    InitValue = 0
    MaxAttempts = 2
    MaxWrites = 3
    MaxSaves = 2
    MaxForeign = 1
INVARIANTS TypeOK HeadIsInFlight GettersSeeLastWrite EstimateIsCurrent SavedWhenClean OnlyAssignedKeysSent
PROPERTIES SavesComplete ImplementsContract
CHECK_DEADLOCK FALSE
