---------------------------- MODULE MCConcurrent ----------------------------
(* Workloads and symmetry for the model checking of Concurrent. *)
EXTENDS Concurrent

Sym == Permutations(Txn)

\* Rows 1 and 2 share leaf 2, row 3 is alone in leaf 3: reads, scans, writes
\* of the same leaf and of the other one, under nested savepoints.
StatementWork == {<<"select", 1>>, <<"select", 3>>, <<"scan", 2>>, <<"update", 1>>,
                  <<"update", 2>>, <<"update", 3>>,
                  <<"savepoint", 0>>, <<"rollback to", 0>>, <<"release", 0>>}

\* Leaf 3 (rows 2 and 3, with room for two) is full: 4 and 5 split it at the
\* right edge, 4 in the middle once 5 has taken the place of a deleted 3.
GrowWork == {<<"descend", 0>>, <<"insert", 4>>, <<"insert", 5>>, <<"delete", 3>>}

\* Both leaves can be emptied and unlinked.
ShrinkWork == {<<"descend", 0>>, <<"insert", 2>>, <<"delete", 1>>, <<"delete", 3>>}

\* Workloads that show one deviation each.
LostInsertWork == {<<"delete", 1>>, <<"insert", 2>>}
MovedRowWork == {<<"descend", 0>>, <<"insert", 2>>, <<"select", 3>>}
=============================================================================
