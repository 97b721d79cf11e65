SPECIFICATION Spec
CONSTANTS
    artist = artist
    fan = fan
    s1 = s1
    s2 = s2
    s3 = s3
    Users = {artist, fan}
    Author = artist
    Screens = {s1, s2, s3}
    UserOf <- MCUserOf
    MayLikeAlready = {fan}
    Scenarios <- HastyVisit
PROPERTIES UnlikeKeepsEngagements
CHECK_DEADLOCK FALSE
