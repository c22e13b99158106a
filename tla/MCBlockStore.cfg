CONSTANTS
    Keys = {k1, k2}
    Values = {v1, v2}
    Clients = {c1, c2}
    NoIndex = NoIndex
    NoFile = NoFile
    Absent = Absent
    Broken = Broken
    Mixed = Mixed
    NoCall = NoCall
    ContentFaults = FALSE
    Races = {}
    MaxSize = 4
    MaxFiles = 2
    MaxCells = 4
SYMMETRY StoreSymmetry
SPECIFICATION Spec
INVARIANT Resolves
PROPERTY ImplementsKVStore
