CONSTANTS
    k1 = k1
    k2 = k2
    c = c
    d = d
    v = v
    w = w
    Null = Null
    Undef = Undef
    Replaced = Replaced
    Absent = Absent
    Key = {k1, k2}
    Col = {c, d}
    Val = {Null, v, w}
    Row <- Rows
    Bases <- Tables
    Uniques <- DeclaredUnique
    MaxStatements <- Statements
    MaxCuts = 1

SPECIFICATION Spec

INVARIANTS
    TypeOK
    CapturedDiff
    ConcatComposes
    FreshCopy
    UndoRestores
    Converges

PROPERTIES
    ApplyEnds

CHECK_DEADLOCK FALSE
