--------------------------- MODULE SnapshotStore ---------------------------
(***************************************************************************)
(* What BEGIN CONCURRENT promises its clients, with no pages, stamps or    *)
(* journals: a table of rows and transactions that overlap on it.          *)
(*                                                                         *)
(*  - Opacity: whatever a transaction has been told so far is true of ONE  *)
(*    committed table, no older than its BEGIN (concurrent.rs,             *)
(*    view_advanced: "no mixed snapshot is ever returned to the statement  *)
(*    layer").                                                             *)
(*  - A transaction that wrote commits only if everything it was told is   *)
(*    still true (read-set validation), and its commit changes exactly the *)
(*    rows it wrote (first-committer-wins, merge at row granularity).      *)
(*  - ROLLBACK TO forgets the writes since the savepoint, ROLLBACK and a   *)
(*    refused COMMIT all of them.                                          *)
(***************************************************************************)
EXTENDS Naturals, Sequences

CONSTANTS
    Txn,       \* connections, each with at most one open transaction
    Row,       \* row ids of one table
    Cell,      \* what a row id can hold (a value, or the absence of a row)
    Unknown    \* not a Cell: not read, or not written, by a transaction

VARIABLES
    table,     \* the committed table
    client     \* per connection, what its transaction was told and has written

vars == <<table, client>>

Table == [Row -> Cell]
Partial == [Row -> Cell \cup {Unknown}]

\* cands: the committed tables since BEGIN; seen: the rows read; hit: the
\* rows a blind DELETE met; own: the rows written; saves: the value of own at
\* each savepoint; torn: two reads of one row differed.
Idle == [open |-> FALSE, cands |-> {}, torn |-> FALSE, saves |-> <<>>,
         seen |-> [r \in Row |-> Unknown], hit |-> [r \in Row |-> Unknown],
         own |-> [r \in Row |-> Unknown]]

Agrees(seen, tab) == \A r \in Row : seen[r] \in {Unknown, tab[r]}

Opaque(c) == ~c.torn /\ \E tab \in c.cands : Agrees(c.seen, tab)

Apply(tab, own) == [r \in Row |-> IF own[r] = Unknown THEN tab[r] ELSE own[r]]

Wrote(c) == \E r \in Row : c.own[r] # Unknown

\* Everything c was told still holds.
Current(c) == Agrees(c.seen, table) /\ Agrees(c.hit, table)

Init ==
    /\ table \in Table
    /\ client = [t \in Txn |-> Idle]

Begin(t) ==
    /\ ~client[t].open
    /\ client' = [client EXCEPT ![t] = [Idle EXCEPT !.open = TRUE, !.cands = {table}]]
    /\ UNCHANGED table

\* A statement, or one step of one: it reads rows and writes rows.
Statement(t) ==
    /\ client[t].open /\ client'[t].open
    /\ client'[t].cands = client[t].cands
    /\ client'[t].saves = client[t].saves
    /\ {client'[t].seen, client'[t].hit, client'[t].own} \subseteq Partial
    /\ \A r \in Row : /\ client[t].seen[r] \in {Unknown, client'[t].seen[r]}
                      /\ client[t].hit[r] \in {Unknown, client'[t].hit[r]}
    /\ Opaque(client'[t])
    /\ client' = [client EXCEPT ![t] = client'[t]]
    /\ UNCHANGED table

Savepoint(t) ==
    /\ client[t].open
    /\ client' = [client EXCEPT ![t].saves = Append(@, client[t].own)]
    /\ UNCHANGED table

RollbackTo(t) ==
    /\ client[t].open
    /\ \E i \in DOMAIN client[t].saves :
        client' = [client EXCEPT ![t].own = client[t].saves[i],
                                 ![t].saves = SubSeq(@, 1, i)]
    /\ UNCHANGED table

Release(t) ==
    /\ client[t].open
    /\ \E i \in DOMAIN client[t].saves :
        client' = [client EXCEPT ![t].saves = SubSeq(@, 1, i - 1)]
    /\ UNCHANGED table

\* The others may from now on be told what the new table holds.
Commit(t) ==
    /\ client[t].open
    /\ Wrote(client[t]) => Current(client[t])
    /\ table' = Apply(table, client[t].own)
    /\ client' = [u \in Txn |->
                    IF u = t THEN Idle
                    ELSE IF client[u].open
                         THEN [client[u] EXCEPT !.cands = @ \cup {table'}]
                         ELSE client[u]]

\* ROLLBACK, or a COMMIT that is refused.
Abort(t) ==
    /\ client[t].open
    /\ client' = [client EXCEPT ![t] = Idle]
    /\ UNCHANGED table

Next ==
    \E t \in Txn :
        \/ Begin(t) \/ Statement(t) \/ Savepoint(t) \/ RollbackTo(t)
        \/ Release(t) \/ Commit(t) \/ Abort(t)

Spec == Init /\ [][Next]_vars
=============================================================================
