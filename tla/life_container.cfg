SPECIFICATION FairSpec
CONSTANTS
    Kind = "ContainerApp"
    Features = {"account", "named", "binding", "route"}
    Foreign = {"account"}
    Unserved = {"route"}
    MaxEdits = 1
    MaxFaults = 1
    MaxLag = 1
INVARIANTS LifecycleInv ForeignKept LeftoversExcused
PROPERTIES KeepsCustody CreatesUnderFinalizer DeletionCompletes
CHECK_DEADLOCK FALSE
