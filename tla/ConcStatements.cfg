CONSTANTS
    Txn = {c1, c2}
    Row = {1, 2, 3}
    Val = {2}
    Seed = 1
    Boundary = 2
    Loaded = {1, 2, 3}
    LeafCap = 3
    Work <- StatementWork
    MaxPages = 4
    MaxEpoch = 2
    MaxOps = 4
    MaxSaves = 2
SPECIFICATION Spec
SYMMETRY Sym
INVARIANTS TypeOK ShadowsHoldOwnWrites
PROPERTY StoreSpec
CHECK_DEADLOCK FALSE
