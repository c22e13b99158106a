CONSTANTS
    Keys = {k1}
    Values = {v1, v2}
    Clients = {c1, c2}
    NoIndex = NoIndex
    NoFile = NoFile
    Absent = Absent
    Broken = Broken
    Mixed = Mixed
    NoCall = NoCall
    ContentFaults = TRUE
    Races = {"update", "read", "slowSet"}
    MaxSize = 4
    MaxFiles = 2
    MaxCells = 5
SYMMETRY StoreSymmetry
SPECIFICATION Spec
INVARIANTS
    GetIsAtomic
    OneWritableFile
