------------------------------ MODULE PlainDml ------------------------------
(***************************************************************************)
(* The shared-Database misuse tripwire of plain (non-concurrent) DML       *)
(* (api.rs, enter_plain_dml): a slot with the id of the thread that runs a *)
(* plain DML statement.  A thread claims it with an atomic swap and, when  *)
(* the swap returns a foreign holder, stores that holder back and fails.   *)
(* Only the outermost of nested statements claims and releases the slot.   *)
(*                                                                         *)
(* One step is one atomic access.  On an engine in WAL mode the claim is   *)
(* followed by the write side of the install gate, here a lock with one    *)
(* owner (InstallGate!Exclusion).                                          *)
(***************************************************************************)
EXTENDS Naturals, FiniteSets

CONSTANTS
    Thread,      \* threads that share one Database
    Nobody,      \* the value 0 of the slot
    WalEngine,   \* plain_writer_gate returns a guard
    MaxDepth     \* bound: nested plain DML of one thread

ASSUME PlainDmlAssumption ==
    /\ Nobody \notin Thread
    /\ WalEngine \in BOOLEAN
    /\ MaxDepth \in Nat \ {0}

VARIABLES
    slot,    \* plain_dml_tid
    gate,    \* the thread with the install gate's write side, or Nobody
    pc,      \* where each thread is
    prev,    \* the value a thread's swap returned
    depth    \* PLAIN_DML_DEPTH

vars == <<slot, gate, pc, prev, depth>>

Init ==
    /\ slot = Nobody /\ gate = Nobody
    /\ pc = [t \in Thread |-> "idle"]
    /\ prev = [t \in Thread |-> Nobody]
    /\ depth = [t \in Thread |-> 0]

Goto(t, l) == pc' = [pc EXCEPT ![t] = l]

\* enter_plain_dml at depth 0: the swap, and the test of what it returned.
Swap(t) ==
    /\ pc[t] = "idle"
    /\ slot' = t
    /\ prev' = [prev EXCEPT ![t] = slot]
    /\ Goto(t, IF slot \notin {Nobody, t} THEN "refused" ELSE "claimed")
    /\ UNCHANGED <<gate, depth>>

\* "Restore the foreign holder before erroring."
Refuse(t) ==
    /\ pc[t] = "refused"
    /\ slot' = prev[t]
    /\ Goto(t, "idle")
    /\ UNCHANGED <<gate, prev, depth>>

\* Mutant: the write side is not taken.
WriterGate_Skipped(t) ==
    /\ pc[t] = "claimed"
    /\ depth' = [depth EXCEPT ![t] = 1]
    /\ Goto(t, "surgery")
    /\ UNCHANGED <<slot, gate, prev>>

\* plain_writer_gate, then the statement runs.
WriterGate(t) ==
    /\ pc[t] = "claimed"
    /\ WalEngine => gate = Nobody
    /\ gate' = IF WalEngine THEN t ELSE gate
    /\ depth' = [depth EXCEPT ![t] = 1]
    /\ Goto(t, "surgery")
    /\ UNCHANGED <<slot, prev>>

\* A hook or a virtual table runs plain DML inside the statement.
EnterNested(t) ==
    /\ pc[t] = "surgery" /\ depth[t] < MaxDepth
    /\ depth' = [depth EXCEPT ![t] = @ + 1]
    /\ UNCHANGED <<slot, gate, pc, prev>>

\* release_reader_exclusion: the tree surgery is over, the flush follows.
ReleaseReaderExclusion(t) ==
    /\ pc[t] = "surgery" /\ depth[t] = 1
    /\ gate' = IF gate = t THEN Nobody ELSE gate
    /\ Goto(t, "flush")
    /\ UNCHANGED <<slot, prev, depth>>

\* Drop of a PlainDmlGuard: at the statement's end, or, for a statement that
\* joins the concurrent regime, as soon as its transaction has begun.
Drop(t) ==
    /\ pc[t] \in {"surgery", "flush"}
    /\ depth' = [depth EXCEPT ![t] = @ - 1]
    /\ IF depth[t] = 1
       THEN slot' = Nobody /\ Goto(t, "ungate")
       ELSE UNCHANGED <<slot, pc>>
    /\ UNCHANGED <<gate, prev>>

\* The guard's field, the write side, is dropped after the slot.
DropGate(t) ==
    /\ pc[t] = "ungate"
    /\ gate' = IF gate = t THEN Nobody ELSE gate
    /\ Goto(t, "idle")
    /\ UNCHANGED <<slot, prev, depth>>

Next ==
    \E t \in Thread :
        \/ Swap(t) \/ Refuse(t) \/ WriterGate(t)
        \/ EnterNested(t) \/ ReleaseReaderExclusion(t)
        \/ Drop(t) \/ DropGate(t)

Spec == Init /\ [][Next]_vars

-----------------------------------------------------------------------------
(* Properties *)

\* Past the tripwire and not yet out of the statement.
Running(t) == pc[t] \in {"claimed", "surgery", "flush"}

\* "Plain DML mutates the LIVE page cache; two such statements running
\* simultaneously ... interleave page-tree surgery": never two threads in it.
\* On a WAL engine the write side of the gate backs the tripwire up.
OneSurgeon ==
    \A t, u \in Thread : pc[t] = "surgery" /\ pc[u] = "surgery" => t = u

\* "a foreign holder means the caller skipped every sanctioned serialization
\* - the error names the fix instead of corrupting", and "at most one thread
\* ever queues here": at most one thread is past the tripwire.  Violated by
\* three threads: two overlapping refusals restore each other's id.
TripwireExcludes ==
    \A t, u \in Thread : Running(t) /\ Running(u) => t = u
=============================================================================
