CONSTANTS
    Txn = {c1, c2}
    Row = {1, 2, 3, 4, 5}
    Val = {2}
    Seed = 1
    Boundary = 1
    Loaded = {1, 2, 3}
    LeafCap = 2
    Work <- GrowWork
    MaxPages = 8
    MaxEpoch = 2
    MaxOps = 4
    MaxSaves = 0
SPECIFICATION Spec
SYMMETRY Sym
INVARIANT TreeSound
PROPERTY CommitExact
CHECK_DEADLOCK FALSE
