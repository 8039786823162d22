SPECIFICATION FairSpec
CONSTANTS
    o1 = o1
    Operators = {o1}
    NumCommits = 2
    ForcePush = TRUE
    PullPrefixed = TRUE
    MaxPushes = 2
    MaxFaults = 0
    MaxTouches = 0
    MaxLag = 1
PROPERTY SourceFollowsBranch
CHECK_DEADLOCK TRUE
