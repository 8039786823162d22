SPECIFICATION AffordableSpec
CONSTANTS
    o1 = o1
    Operators = {o1}
    NumCommits = 3
    ForcePush = FALSE
    PullPrefixed = TRUE
    MaxPushes = 2
    MaxFaults = 2
    MaxTouches = 0
    MaxLag = 1
INVARIANTS BuildInv ImageNotOlderThanTag DeployedImageIsPushed
PROPERTIES RestIsLasting OnlyPendingRollsBack ComesToRest StatusSettles
CHECK_DEADLOCK TRUE
