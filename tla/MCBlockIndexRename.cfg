CONSTANTS
    Keys = {k1, k2}
    Positions = {p1, p2}
    NoIndex = NoIndex
    Faults = {"rename"}
    MaxIndexRecords = 3
SYMMETRY IndexSymmetry
SPECIFICATION IndexSpec
INVARIANT Durable
