SPECIFICATION FairSpec
CONSTANTS
    Kinds = {"App"}
    Atom <- MCAtom
    Specs <- MCSpecs
    Orders <- JobOrders
    Absent = Absent
    MaxEdits = 0
    MaxMeddling = 0
    MaxFaults = 0
    MaxLag = 1
PROPERTIES RawJobKept
