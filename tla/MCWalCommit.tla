---------------------------- MODULE MCWalCommit ----------------------------
(* The ways of running the database, for the model checking of WalCommit. *)
EXTENDS WalCommit, TLC

Sym == Permutations(Thread)

With(deferred, full, faults) ==
    [deferred |-> deferred, full |-> full, faults |-> faults]

\* Every kind of commit at every level; fsyncs of group commits may fail.
SafetySetups == {With(d, f, IF d THEN {"fsync"} ELSE {}) : d \in BOOLEAN, f \in BOOLEAN}

\* Every kind of commit; folds defer and appends of group commits may fail.
LiveSetups == {With(d, f, IF d THEN {"append", "defer"} ELSE {"defer"}) :
                 d \in BOOLEAN, f \in BOOLEAN}

\* Group commits while another handle has the file open.
DeferSetups == {With(TRUE, TRUE, {"defer"})}

\* Group commits and nothing goes wrong.
GroupSetups == {With(TRUE, TRUE, {})}
=============================================================================
