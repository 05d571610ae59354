SPECIFICATION Spec
CHECK_DEADLOCK FALSE
CONSTANTS
    MaxPages = 6
    Root = 2
    FirstPages = 4
    TrunkCap = 1
    Journals = {"delete", "wal"}
    Faults = {"kill", "write_error"}
    MaxWrites = 4
CONSTRAINT Promising
INVARIANTS
    TypeOK
    FileCoversHeader
    TreeReadable
    PagesAccounted
    CommittedIsStored
PROPERTIES
    RollbackRestores
