CONSTANTS
    Keys = {k1, k2}
    Positions = {p1, p2}
    NoIndex = NoIndex
    Faults = {"dump", "tempWrite", "rename"}
    MaxIndexRecords = 3
    MaxWrites = 3
SYMMETRY FaultSymmetry
SPECIFICATION FaultSpec
PROPERTY RestoredWasCurrent
