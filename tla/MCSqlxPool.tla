----------------------------- MODULE MCSqlxPool -----------------------------
(* TLC instance of SqlxPool: two tasks of one thread and one of another.   *)
EXTENDS SqlxPool, TLC

CONSTANTS c1, c2, c3

Threads == c1 :> 1 @@ c2 :> 1 @@ c3 :> 2

\* One client reads and writes in sqlx transactions, its neighbour on the
\* thread runs scripts, the third has a thread to itself and is optimistic,
\* with plain transactions where DDL comes first.
Mixed == [optimistic |-> {c3},
          work |-> c1 :> {"transaction", "read", "dml"}
                   @@ c2 :> {"prepare", "read", "dml", "begin", "commit"}
                   @@ c3 :> {"transaction", "read", "dml", "ddl"}]

\* Two optimistic clients on two threads, and the scripts.
Optimists == [optimistic |-> {c1, c3},
              work |-> c1 :> {"transaction", "dml"}
                       @@ c2 :> {"begin", "commit"}
                       @@ c3 :> {"transaction", "dml"}]

BothPools == {Mixed, Optimists}

\* Once nothing is promised of the pool it is not followed further.
Promising == stained = {}
=============================================================================
