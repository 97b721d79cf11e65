SPECIFICATION Spec
CONSTANTS
    s1 = s1
    s2 = s2
    s3 = s3
    Screens = {s1, s2, s3}
    Ahead <- MCAhead
    MaxAhead = 2
    W = 5
    MaxAge = 6
    MaxFaults = 2
INVARIANTS TypeOK HourIsAnIndex ViewsAddUp HoursTruthful ChartsAgree
CHECK_DEADLOCK FALSE
