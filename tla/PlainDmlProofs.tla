--------------------------- MODULE PlainDmlProofs ---------------------------
(***************************************************************************)
(* On a WAL engine plain DML is serialized for any number of threads: not  *)
(* by the tripwire, whose slot overlapping refusals can corrupt, but by    *)
(* the write side of the install gate that each statement holds for its    *)
(* tree surgery.                                                           *)
(***************************************************************************)
EXTENDS PlainDml, TLAPS

Label == {"idle", "refused", "claimed", "surgery", "flush", "ungate"}

\* The inductive invariant: on a WAL engine a thread in its surgery owns the
\* gate.  The slot, its restored values and the depths play no part.
IInv ==
    /\ pc \in [Thread -> Label]
    /\ WalEngine => \A t \in Thread : pc[t] = "surgery" => gate = t

\* The database opens with no statement under way.
LEMMA InitIInv == Init => IInv
  BY DEF Init, IInv, Label

\* Each action moves one thread; the gate is taken only from Nobody, and only
\* its owner gives it up.
LEMMA NextIInv == IInv /\ [Next]_vars => IInv'
<1>1. SUFFICES ASSUME IInv, [Next]_vars PROVE IInv'
  OBVIOUS
<1>2. CASE UNCHANGED vars
  BY <1>1, <1>2 DEF IInv, vars
<1>3. ASSUME NEW t \in Thread,
             \/ Swap(t) \/ Refuse(t) \/ WriterGate(t)
             \/ EnterNested(t) \/ ReleaseReaderExclusion(t)
             \/ Drop(t) \/ DropGate(t)
      PROVE  IInv'
  <2>1. CASE Swap(t) \/ Refuse(t)
    BY <1>1, <2>1 DEF IInv, Label, Goto, Swap, Refuse
  <2>2. CASE WriterGate(t)
    <3>1. pc' \in [Thread -> Label]
      BY <1>1, <2>2 DEF IInv, Label, Goto, WriterGate
    <3>2. ASSUME WalEngine, NEW u \in Thread, pc'[u] = "surgery" PROVE gate' = u
      <4>1. gate = Nobody /\ gate' = t
        BY <2>2, <3>2 DEF WriterGate
      <4>2. u # t => pc[u] = "surgery"
        BY <1>1, <2>2, <3>2 DEF IInv, Goto, WriterGate
      <4>3. QED
        BY <1>1, <3>2, <4>1, <4>2, PlainDmlAssumption DEF IInv
    <3>3. QED
      BY <3>1, <3>2 DEF IInv
  <2>3. CASE EnterNested(t)
    BY <1>1, <2>3 DEF IInv, EnterNested
  <2>4. CASE ReleaseReaderExclusion(t)
    BY <1>1, <2>4 DEF IInv, Label, Goto, ReleaseReaderExclusion
  <2>5. CASE Drop(t)
    BY <1>1, <2>5 DEF IInv, Label, Goto, Drop
  <2>6. CASE DropGate(t)
    BY <1>1, <2>6 DEF IInv, Label, Goto, DropGate
  <2>7. QED
    BY <1>3, <2>1, <2>2, <2>3, <2>4, <2>5, <2>6
<1>4. QED
  BY <1>1, <1>2, <1>3 DEF Next

\* OneSurgeon for every number of threads and every depth of nesting on a
\* WAL engine (plain_writer_gate is taken by the outermost enter_plain_dml
\* and kept until release_reader_exclusion or the guard's drop).
THEOREM WalOneSurgeon == Spec => [](WalEngine => OneSurgeon)
<1>1. IInv => (WalEngine => OneSurgeon)
  BY DEF IInv, OneSurgeon
<1>2. QED
  BY InitIInv, NextIInv, <1>1, PTL DEF Spec
=============================================================================
