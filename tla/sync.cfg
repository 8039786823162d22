SPECIFICATION FairSpec
CONSTANTS
    Kinds = {"App", "ContainerApp"}
    Atom <- MCAtom
    Specs <- MCSpecs
    Orders <- MCOrders
    Absent = Absent
    MaxEdits = 2
    MaxMeddling = 1
    MaxFaults = 1
    MaxLag = 1
INVARIANTS SyncInv
PROPERTIES NeverBack OthersMetadataKept ReadyIsCurrent StaysInStep RuntimeFollows ReadyAtLast
