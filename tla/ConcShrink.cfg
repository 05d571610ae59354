CONSTANTS
    Txn = {c1, c2}
    Row = {1, 2, 3}
    Val = {2}
    Seed = 1
    Boundary = 2
    Loaded = {1, 3}
    LeafCap = 3
    Work <- ShrinkWork
    MaxPages = 4
    MaxEpoch = 3
    MaxOps = 3
    MaxSaves = 0
SPECIFICATION Spec
SYMMETRY Sym
INVARIANTS TreeSound FreeStaysWiped
CHECK_DEADLOCK FALSE
