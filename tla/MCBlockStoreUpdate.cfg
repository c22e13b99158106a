CONSTANTS
    Keys = {k1, k2}
    Values = {v1, v2}
    Clients = {c1, c2}
    NoIndex = NoIndex
    NoFile = NoFile
    Absent = Absent
    Broken = Broken
    Mixed = Mixed
    NoCall = NoCall
    ContentFaults = FALSE
    Races = {"update"}
    MaxSize = 2
    MaxFiles = 3
    MaxCells = 2
SYMMETRY StoreSymmetry
SPECIFICATION Spec
PROPERTY DefragKeepsValues
