CONSTANTS
    Keys = {k1, k2}
    Positions = {p1, p2}
    NoIndex = NoIndex
    Faults = {"dump"}
    MaxIndexRecords = 5
SYMMETRY IndexSymmetry
SPECIFICATION IndexSpec
INVARIANT Durable
PROPERTY ImplementsDurableIndex
