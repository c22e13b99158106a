CONSTANTS
    Keys = {k1, k2, k3}
    Clients = {c1, c2}
    NoCall = NoCall
    Capacity = 2
    MaxLog = 5
    MaxRestarts = 0
SYMMETRY LRUSymmetry
SPECIFICATION Spec
INVARIANT StoreWithinCapacity
