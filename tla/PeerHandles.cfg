\* Two handles, two pages, three changes of pages, two commits.
CONSTANTS
    Handle = {h1, h2}
    Page = {1, 2}
    NoHandle = NoHandle
    Works = {{"select", "write", "begin", "commit"},
             {"write", "begin", "rollback"},
             {"cursor", "step", "write"},
             {"select", "begin_exclusive", "begin_immediate", "write", "commit"},
             {"write", "begin", "close"}}
    Events = {}
    MaxWrites = 3
    MaxGen = 2
SPECIFICATION Spec
SYMMETRY Symmetry
VIEW View
INVARIANTS
    OneReserved
    WorksOnLatest
    CommitAlone
