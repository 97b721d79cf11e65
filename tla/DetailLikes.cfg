SPECIFICATION FairSpec
CONSTANTS
    artist = artist
    fan = fan
    s1 = s1
    s2 = s2
    s3 = s3
    Users = {artist, fan}
    Author = artist
    Screens = {s1, s2, s3}
    UserOf <- MCUserOf
    MayLikeAlready = {artist, fan}
    Scenarios <- Visits
INVARIANTS TypeOK CountMatchesRows HeartMatchesRows ServerHasShownCount LikesNotified
PROPERTIES ComesToRest
CHECK_DEADLOCK FALSE
