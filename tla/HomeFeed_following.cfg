SPECIFICATION Spec
CONSTANTS
    me = me
    u1 = u1
    u2 = u2
    Users = {me, u1, u2}
    Me = me
    Followed <- MCFollowed
    MaxPosts = 5
    AuthorOf <- MCAuthorOf
    Suggestions <- MCSuggestions
    Incre = 2
    Scenarios <- PatientUser
INVARIANTS FollowingHoldsUsers
CHECK_DEADLOCK FALSE
