SPECIFICATION Spec
CONSTANTS
    o1 = o1
    Operators = {o1}
    NumCommits = 3
    ForcePush = FALSE
    PullPrefixed = TRUE
    MaxPushes = 2
    MaxFaults = 0
    MaxTouches = 0
    MaxLag = 1
PROPERTY NeverServesOlder
CHECK_DEADLOCK TRUE
