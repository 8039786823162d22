SPECIFICATION FairSpec
CONSTANTS
    Kind = "App"
    Features = {"ingress", "route", "raw"}
    Foreign = {}
    Unserved = {"raw"}
    MaxEdits = 1
    MaxFaults = 0
    MaxLag = 1
INVARIANTS LeftoversExcused
PROPERTIES KeepsCustody StaysSettled DeletionCompletes Converges
CHECK_DEADLOCK FALSE
