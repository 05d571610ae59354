CONSTANTS
    c1 = c1
    c2 = c2
    c3 = c3
    Conn = {c1, c2, c3}
    NoConn = NoConn
    ThreadOf <- Threads
    Pools <- BothPools
SPECIFICATION Spec
CONSTRAINT Promising
INVARIANTS
    TypeOK
    NoDirtyRead
    TransactionsKeepTheirRows
    RegimesExclude
    OwnerKeepsItsThread
PROPERTIES
    GateAnswers
