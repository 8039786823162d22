SPECIFICATION FairSpec
CONSTANTS
    o1 = o1
    o2 = o2
    Operators = {o1, o2}
    NumCommits = 1
    ForcePush = FALSE
    PullPrefixed = FALSE
    MaxPushes = 0
    MaxFaults = 1
    MaxTouches = 1
    MaxLag = 1
INVARIANTS BuildInv
PROPERTIES RestIsLasting DeploymentFollowsBranch
CHECK_DEADLOCK TRUE
