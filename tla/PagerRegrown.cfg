SPECIFICATION Spec
CHECK_DEADLOCK FALSE
CONSTANTS
    MaxPages = 6
    Root = 2
    FirstPages = 4
    TrunkCap = 1
    Journals = {"delete", "wal"}
    Faults = {}
    MaxWrites = 4
INVARIANTS
    StoredEver
