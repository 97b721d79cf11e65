SPECIFICATION FairSpec
CONSTANTS
    s1 = s1
    s2 = s2
    Screens = {s1, s2}
    Authors = {s2}
    MaxDrafts = 2
    Scenarios <- Visits
INVARIANTS TypeOK CountNeverAhead CountSettles NotifQuotesComment DraftPostedOnce
PROPERTIES ComesToRest
CHECK_DEADLOCK FALSE
