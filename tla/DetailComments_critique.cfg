SPECIFICATION Spec
CONSTANTS
    s1 = s1
    s2 = s2
    Screens = {s1, s2}
    Authors = {s2}
    MaxDrafts = 2
    Scenarios <- NoCritiques
INVARIANTS NoCritiqueUnlessAllowed
CHECK_DEADLOCK FALSE
