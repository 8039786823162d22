SPECIFICATION Spec
CONSTANTS
    Kind = "ContainerApp"
    Features = {"claim"}
    Foreign = {"claim"}
    Unserved = {}
    MaxEdits = 0
    MaxFaults = 0
    MaxLag = 1
INVARIANT ForeignClaimKept
CHECK_DEADLOCK FALSE
