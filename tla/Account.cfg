SPECIFICATION FairSpec
CONSTANTS
    ann = "ann"
    bob = "bob"
    Users = {"ann", "bob"}
    MaxInstances = 4
    MaxTokens = 4
    Scenarios <- Everybody
INVARIANTS TypeOK CurrentIsOneAccount DiskIsCurrent ScreenMatchesSession EditsReachServer FollowMatchesRow NoFollowLost
PROPERTIES ComesToRest
CHECK_DEADLOCK FALSE
