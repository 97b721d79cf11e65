SPECIFICATION FairSpec
CONSTANTS
    ann = "ann"
    bob = "bob"
    Users = {"ann", "bob"}
    MaxInstances = 4
    MaxTokens = 4
    Scenarios <- EditsAndLogsOut
INVARIANTS LoggedOutStaysOut
CHECK_DEADLOCK FALSE
