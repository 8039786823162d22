SPECIFICATION Spec
CONSTANTS
    Kind = "App"
    Features = {"claim"}
    Foreign = {}
    Unserved = {}
    MaxEdits = 0
    MaxFaults = 0
    MaxLag = 1
INVARIANT ClaimDeleted
CHECK_DEADLOCK FALSE
