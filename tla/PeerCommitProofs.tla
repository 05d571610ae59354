-------------------------- MODULE PeerCommitProofs --------------------------
(***************************************************************************)
(* The handles of a path, for any set of handles and pages: one writer at  *)
(* a time, with handles opened and closed at any moment; and the commit    *)
(* section and what statements see, where handles are opened between the   *)
(* statements of the others.                                               *)
(***************************************************************************)
EXTENDS PeerHandles, FiniteSetTheorems, TLAPS

-----------------------------------------------------------------------------
(* One writer at a time. *)

\* Types of the variables the argument reads.
RoleTypes ==
    /\ open \subseteq Handle
    /\ readers \in Nat
    /\ lease \in open \cup {NoHandle}
    /\ pc \in [Handle -> Stages] /\ op \in [Handle -> Statements]
    /\ dirty \in [Handle -> SUBSET Page]
    /\ busy \in [Handle -> BOOLEAN] /\ wrote \in [Handle -> BOOLEAN]
    /\ inTxn \in [Handle -> BOOLEAN]

\* Who is in a statement or in the role is open; who may get the role says
\* so first; and nobody has the lease of a handle in the role.
RoleShown ==
    \A h \in Handle :
        /\ pc[h] # "idle" => h \in open
        /\ pc[h] = "lease" => busy[h]
        /\ InRole(h) => h \in open /\ busy[h] /\ lease \in {h, NoHandle}

\* The invariant of the induction.
IInv == RoleTypes /\ RoleShown /\ OneReserved

\* The path starts without handles.
LEMMA InitIInv == Init => IInv
  BY DEF Init, IInv, RoleTypes, RoleShown, OneReserved, InRole, Stages, Statements

\* A handle that sees no peer is the only one.
LEMMA SoleIsAlone == ASSUME IInv, NEW h \in open, ~Peers PROVE open = {h}
  <1>1. IsFiniteSet(open)
    BY FS_Subset, PeerAssumption DEF IInv, RoleTypes
  <1>2. IsFiniteSet(open \ {h}) /\ Cardinality(open \ {h}) = Cardinality(open) - 1
    BY <1>1, FS_RemoveElement
  <1>3. Cardinality(open) \in Nat /\ Cardinality(open \ {h}) \in Nat
    BY <1>1, <1>2, FS_CardinalityType
  <1>4. Cardinality(open) < 2
    BY <1>3 DEF Peers, IInv, RoleTypes
  <1>5. Cardinality(open \ {h}) = 0
    BY <1>2, <1>3, <1>4
  <1>6. open \ {h} = {}
    BY <1>2, <1>5, FS_EmptySet
  <1> QED BY <1>6

\* Who gets the lease, or needs none, finds nobody else in the role.
LEMMA RoleIsFree ==
  ASSUME IInv, NEW h \in Handle, h \in open, LeaseFree(h) \/ ~Peers,
         NEW k \in Handle, InRole(k)
  PROVE  k = h
  <1>1. k \in open /\ busy[k] /\ lease \in {k, NoHandle}
    BY DEF IInv, RoleShown
  <1>2. CASE ~Peers
    BY <1>1, <1>2, SoleIsAlone
  <1>3. CASE LeaseFree(h)
    <2>1. h # NoHandle
      BY PeerAssumption
    <2>2. CASE lease = h
      BY <1>1, <2>1, <2>2
    <2>3. CASE lease = NoHandle /\ \A j \in Others(h) : ~busy[j]
      BY <1>1, <2>3 DEF Others
    <2>4. CASE lease \in Others(h) /\ ~busy[lease]
      <3>1. lease # NoHandle
        BY <2>4, PeerAssumption DEF Others, IInv, RoleTypes
      <3> QED BY <1>1, <2>4, <3>1
    <2> QED BY <1>3, <2>2, <2>3, <2>4 DEF LeaseFree
  <1> QED BY <1>2, <1>3

\* A step of h that leaves the lease and the open handles alone and brings
\* nobody into the role.
Keeps(h) ==
    /\ RoleTypes'
    /\ open' = open /\ lease' = lease
    /\ pc'[h] # "idle" => h \in open
    /\ \A k \in Handle \ {h} : pc'[k] = pc[k]
    /\ \A k \in Handle : busy[k] => busy'[k]
    /\ pc'[h] = "lease" => busy'[h]
    /\ \A k \in Handle : InRole(k)' => InRole(k)

\* Such a step keeps the invariant.
LEMMA KeepsIInv == ASSUME IInv, NEW h \in Handle, Keeps(h) PROVE IInv'
  <1>1. RoleShown'
    BY DEF IInv, RoleShown, Keeps
  <1>2. OneReserved'
    BY DEF IInv, OneReserved, Keeps
  <1> QED BY <1>1, <1>2 DEF IInv, Keeps

\* What the invariant says of one handle.
LEMMA RoleFacts ==
  ASSUME IInv, NEW k \in Handle
  PROVE  /\ pc[k] # "idle" => k \in open
         /\ pc[k] = "lease" => busy[k]
         /\ InRole(k) => k \in open /\ busy[k] /\ lease \in {k, NoHandle}
         /\ \A j \in Handle : InRole(j) /\ InRole(k) => j = k
         /\ open \subseteq Handle /\ lease \in open \cup {NoHandle}
  BY DEF IInv, RoleShown, RoleTypes, OneReserved

\* A handle is opened.
LEMMA OpenIInv == ASSUME IInv, NEW h \in Handle, Open(h) PROVE IInv'
  <1>1. RoleTypes'
    BY DEF Open, IInv, RoleTypes
  <1>2. /\ lease' = lease /\ open \subseteq open' /\ pc' = pc /\ busy' = busy
        /\ \A k \in Handle : InRole(k)' <=> InRole(k)
    BY DEF Open, InRole, IsWrite
  <1>3. RoleShown'
    BY <1>2, RoleFacts DEF RoleShown
  <1>4. OneReserved'
    BY <1>2, RoleFacts DEF OneReserved
  <1> QED BY <1>1, <1>3, <1>4 DEF IInv

\* A handle is dropped, with its lease.
LEMMA CloseIInv == ASSUME IInv, NEW h \in Handle, Close(h) PROVE IInv'
  <1>1. RoleTypes'
    BY DEF Close, IInv, RoleTypes
  <1>2. pc[h] = "idle" /\ dirty' = [dirty EXCEPT ![h] = {}] /\ pc' = pc /\ op' = op
    BY DEF Close
  <1>3. ~InRole(h)' /\ \A k \in Handle \ {h} : InRole(k)' <=> InRole(k)
    BY <1>2 DEF InRole, IsWrite, IInv, RoleTypes
  <1>4. /\ \A k \in Handle \ {h} : busy'[k] = busy[k] /\ (k \in open => k \in open')
        /\ lease' \in {lease, NoHandle}
    BY DEF Close, IInv, RoleTypes
  <1>5. ASSUME NEW k \in Handle
        PROVE  /\ pc'[k] # "idle" => k \in open'
               /\ pc'[k] = "lease" => busy'[k]
               /\ InRole(k)' => k \in open' /\ busy'[k] /\ lease' \in {k, NoHandle}
    <2>1. CASE k = h
      BY <1>2, <1>3, <2>1
    <2>2. CASE k # h
      BY <1>2, <1>3, <1>4, <2>2, RoleFacts
    <2> QED BY <2>1, <2>2
  <1>6. OneReserved'
    BY <1>3, RoleFacts DEF OneReserved
  <1> QED BY <1>1, <1>5, <1>6 DEF IInv, RoleShown

\* wal_write_begin succeeds: the handle enters the role, which was free.
LEMMA TakeLeaseIInv == ASSUME IInv, NEW h \in Handle, TakeLease(h) PROVE IInv'
  <1>1. pc[h] = "lease" /\ h \in open /\ busy[h] /\ h # NoHandle
    BY RoleFacts, PeerAssumption DEF TakeLease
  <1>2. /\ open' = open /\ busy' = busy /\ op' = op /\ dirty' = dirty /\ readers' = readers
        /\ wrote' = wrote /\ inTxn' = inTxn
    BY DEF TakeLease
  <1>3. PICK l \in {"exclusive", "run", "enter"} : pc' = [pc EXCEPT ![h] = l]
    BY DEF TakeLease, AfterRole
  <1>4. LeaseFree(h) \/ ~Peers
    BY DEF TakeLease
  <1>5. \A k \in Handle \ {h} : ~InRole(k)
    BY <1>1, <1>4, RoleIsFree
  <1>6. lease' \in {h, NoHandle}
    <2>1. CASE ~Peers
      <3>1. lease' = lease \/ lease' = h
        BY DEF TakeLease
      <3>2. open = {h}
        BY <1>1, <2>1, SoleIsAlone
      <3> QED BY <3>1, <3>2, RoleFacts
    <2>2. CASE Peers
      BY <2>2 DEF TakeLease
    <2> QED BY <2>1, <2>2
  <1>7. RoleTypes'
    BY <1>1, <1>2, <1>3, <1>6 DEF IInv, RoleTypes, Stages
  <1>8. \A k \in Handle \ {h} : (InRole(k)' <=> InRole(k)) /\ pc'[k] = pc[k]
    BY <1>2, <1>3 DEF InRole, IsWrite, IInv, RoleTypes
  <1>9. pc'[h] # "lease"
    BY <1>3 DEF IInv, RoleTypes
  <1>10. RoleShown'
    BY <1>1, <1>2, <1>5, <1>6, <1>8, <1>9, RoleFacts DEF RoleShown
  <1>11. OneReserved'
    BY <1>5, <1>8 DEF OneReserved
  <1> QED BY <1>7, <1>10, <1>11 DEF IInv

\* wal_stmt_exit: who stays busy keeps its lease, who does not is out of the
\* role.
LEMMA ExitIInv == ASSUME IInv, NEW h \in Handle, Exit(h) PROVE IInv'
  <1> USE DEF IInv, RoleTypes
  <1>1. RoleTypes'
    BY DEF Exit, Stages
  <1>2. /\ open' = open /\ op' = op /\ lease' \in {lease, NoHandle}
        /\ pc[h] = "exit" /\ pc'[h] \in {"leave", "idle"}
        /\ \A k \in Handle \ {h} : pc'[k] = pc[k] /\ busy'[k] = busy[k] /\ dirty'[k] = dirty[k]
    BY DEF Exit
  <1>3. dirty'[h] # {} => dirty[h] # {} /\ busy'[h] /\ lease' = lease
    BY DEF Exit
  <1>4. InRole(h)' => dirty'[h] # {}
    BY <1>2 DEF InRole
  <1>5. dirty[h] # {} => InRole(h)
    BY DEF InRole
  <1>6. \A k \in Handle \ {h} : InRole(k)' <=> InRole(k)
    BY <1>2 DEF InRole
  <1> HIDE DEF IInv, RoleTypes
  <1>7. ASSUME NEW k \in Handle
        PROVE  /\ pc'[k] # "idle" => k \in open'
               /\ pc'[k] = "lease" => busy'[k]
               /\ InRole(k)' => k \in open' /\ busy'[k] /\ lease' \in {k, NoHandle}
    <2>1. CASE k = h
      BY <1>2, <1>3, <1>4, <1>5, <2>1, RoleFacts
    <2>2. CASE k # h
      BY <1>2, <1>6, <2>2, RoleFacts
    <2> QED BY <2>1, <2>2
  <1>8. \A k \in Handle : InRole(k)' => InRole(k)
    BY <1>3, <1>4, <1>5, <1>6
  <1>9. OneReserved'
    BY <1>8, RoleFacts DEF OneReserved
  <1> QED BY <1>1, <1>7, <1>9 DEF IInv, RoleShown

\* The count of scopes stays one.
LEMMA ReadersNat == ASSUME IInv PROVE readers \in Nat /\ readers + 1 \in Nat /\ ReadExit \in Nat
  BY DEF IInv, RoleTypes, ReadExit

\* Every step of a handle keeps the invariant.
LEMMA NextIInv == IInv /\ [Next]_vars => IInv'
  <1> SUFFICES ASSUME IInv, [Next]_vars PROVE IInv'
    OBVIOUS
  <1>1. CASE UNCHANGED vars
    BY <1>1 DEF IInv, RoleTypes, RoleShown, OneReserved, InRole, IsWrite, vars
  <1>2. ASSUME NEW h \in Handle, HandleStep(h) PROVE IInv'
    <2> USE DEF IInv, RoleTypes, RoleShown, InRole, IsWrite, Stages, Statements,
                sharedVars
    <2>1. CASE \E o \in Statements : Start(h, o)
      <3>1. Keeps(h)
        <4>1. PICK o \in Statements : Start(h, o)
          BY <2>1
        <4>2. FirstStage(o) \in {"publish", "enter"} /\ (FirstStage(o) = "enter" => ~IsWrite(o) \/ o = "step")
          BY DEF FirstStage
        <4>3. RoleTypes'
          BY <4>1, <4>2 DEF Start
        <4>4. \A k \in Handle : InRole(k)' => InRole(k)
          BY <4>1, <4>2 DEF Start
        <4>5. /\ open' = open /\ lease' = lease /\ busy' = busy /\ h \in open
              /\ \A k \in Handle \ {h} : pc'[k] = pc[k]
          BY <4>1 DEF Start
        <4>6. pc'[h] # "lease"
          BY <4>1, <4>2 DEF Start
        <4> HIDE DEF InRole, RoleTypes
        <4> QED BY <4>3, <4>4, <4>5, <4>6 DEF Keeps
      <3> QED BY <3>1, KeepsIInv
    <2>2. CASE Publish(h)
      <3>1. Keeps(h)
        BY <2>2 DEF Keeps, Publish
      <3> QED BY <3>1, KeepsIInv
    <2>3. CASE RefuseLease(h)
      <3>1. Keeps(h)
        BY <2>3 DEF Keeps, RefuseLease
      <3> QED BY <3>1, KeepsIInv
    <2>4. CASE TakeExclusive(h)
      <3>1. Keeps(h)
        BY <2>4 DEF Keeps, TakeExclusive
      <3> QED BY <3>1, KeepsIInv
    <2>5. CASE EnterScope(h)
      <3>1. Keeps(h)
        <4>1. readers' \in {readers, readers + 1}
          BY <2>5 DEF EnterScope
        <4>3. readers' \in Nat
          BY <4>1, ReadersNat
        <4>2. RoleTypes'
          BY <2>5, <4>3 DEF EnterScope
        <4>4. \A k \in Handle : InRole(k)' => InRole(k)
          BY <2>5 DEF EnterScope
        <4> QED BY <2>5, <4>2, <4>4 DEF Keeps, EnterScope
      <3> QED BY <3>1, KeepsIInv
    <2>6. CASE RefuseScope(h)
      <3>1. Keeps(h)
        BY <2>6 DEF Keeps, RefuseScope, Abandon
      <3> QED BY <3>1, KeepsIInv
    <2>7. CASE EnterView(h)
      <3>1. Keeps(h)
        BY <2>7 DEF Keeps, EnterView, AfterScope, Refresh
      <3> QED BY <3>1, KeepsIInv
    <2>8. CASE \E p \in Page : Load(h, p)
      <3>1. Keeps(h)
        <4>1. PICK p \in Page : Load(h, p)
          BY <2>8
        <4>2. RoleTypes'
          BY <4>1 DEF Load
        <4> QED BY <4>1, <4>2 DEF Keeps, Load
      <3> QED BY <3>1, KeepsIInv
    <2>9. CASE \E p \in Page : Store(h, p)
      <3>1. Keeps(h)
        <4>1. PICK p \in Page : Store(h, p)
          BY <2>9
        <4>2. RoleTypes'
          BY <4>1 DEF Store
        <4> QED BY <4>1, <4>2 DEF Keeps, Store
      <3> QED BY <3>1, KeepsIInv
    <2>10. CASE EndRead(h)
      <3>1. Keeps(h)
        BY <2>10 DEF Keeps, EndRead
      <3> QED BY <3>1, KeepsIInv
    <2>11. CASE EndWrite(h)
      <3>1. Keeps(h)
        BY <2>11 DEF Keeps, EndWrite, Leaving
      <3> QED BY <3>1, KeepsIInv
    <2>12. CASE Begin(h)
      <3>1. Keeps(h)
        BY <2>12 DEF Keeps, Begin
      <3> QED BY <3>1, KeepsIInv
    <2>13. CASE Commit(h)
      <3>1. Keeps(h)
        BY <2>13 DEF Keeps, Commit
      <3> QED BY <3>1, KeepsIInv
    <2>14. CASE Rollback(h)
      <3>1. Keeps(h)
        BY <2>14 DEF Keeps, Rollback
      <3> QED BY <3>1, KeepsIInv
    <2>15. CASE FlushBegin(h)
      <3>1. Keeps(h)
        BY <2>15 DEF Keeps, FlushBegin
      <3> QED BY <3>1, KeepsIInv
    <2>16. CASE FlushRefused(h)
      <3>1. Keeps(h)
        BY <2>16 DEF Keeps, FlushRefused, FlushFails, Leaving
      <3> QED BY <3>1, KeepsIInv
    <2>17. CASE CommitAsk(h)
      <3>1. Keeps(h)
        BY <2>17 DEF Keeps, CommitAsk
      <3> QED BY <3>1, KeepsIInv
    <2>18. CASE CommitEnter(h)
      <3>1. Keeps(h)
        BY <2>18 DEF Keeps, CommitEnter
      <3> QED BY <3>1, KeepsIInv
    <2>19. CASE CommitExpires(h)
      <3>1. Keeps(h)
        BY <2>19 DEF Keeps, CommitExpires, FlushFails, Leaving
      <3> QED BY <3>1, KeepsIInv
    <2>20. CASE CheckView(h)
      <3>1. Keeps(h)
        BY <2>20 DEF Keeps, CheckView, FlushFails, Leaving
      <3> QED BY <3>1, KeepsIInv
    <2>21. CASE WritePage(h)
      <3>1. Keeps(h)
        BY <2>21 DEF Keeps, WritePage
      <3> QED BY <3>1, KeepsIInv
    <2>22. CASE Bump(h)
      <3>1. Keeps(h)
        BY <2>22 DEF Keeps, Bump, Leaving
      <3> QED BY <3>1, KeepsIInv
    <2>23. CASE CommitExit(h)
      <3>1. Keeps(h)
        BY <2>23 DEF Keeps, CommitExit, Leaving
      <3> QED BY <3>1, KeepsIInv
    <2>24. CASE LeaveScope(h)
      <3>1. Keeps(h)
        <4>1. readers' \in {readers, ReadExit}
          BY <2>24 DEF LeaveScope
        <4>3. readers' \in Nat
          BY <4>1, ReadersNat
        <4>2. RoleTypes'
          BY <2>24, <4>3 DEF LeaveScope
        <4>4. \A k \in Handle : InRole(k)' => InRole(k)
          BY <2>24 DEF LeaveScope
        <4> QED BY <2>24, <4>2, <4>4 DEF Keeps, LeaveScope
      <3> QED BY <3>1, KeepsIInv
    <2>25. CASE CloseCursor(h)
      <3>1. Keeps(h)
        <4>1. readers' \in {readers, ReadExit}
          BY <2>25 DEF CloseCursor
        <4>3. readers' \in Nat
          BY <4>1, ReadersNat
        <4>2. RoleTypes'
          BY <2>25, <4>3 DEF CloseCursor
        <4>4. \A k \in Handle : InRole(k)' => InRole(k)
          BY <2>25 DEF CloseCursor
        <4> QED BY <2>25, <4>2, <4>4 DEF Keeps, CloseCursor
      <3> QED BY <3>1, KeepsIInv
    <2>26. CASE Open(h)
      BY <2>26, OpenIInv
    <2>27. CASE Close(h)
      BY <2>27, CloseIInv
    <2>28. CASE TakeLease(h)
      BY <2>28, TakeLeaseIInv
    <2>29. CASE Exit(h)
      BY <2>29, ExitIInv
    <2> QED
      BY <1>2, <2>1, <2>2, <2>3, <2>4, <2>5, <2>6, <2>7, <2>8, <2>9, <2>10, <2>11, <2>12, <2>13, <2>14, <2>15, <2>16, <2>17, <2>18, <2>19, <2>20, <2>21, <2>22, <2>23, <2>24, <2>25, <2>26, <2>27, <2>28, <2>29 DEF HandleStep
  <1> QED BY <1>1, <1>2 DEF Next

\* peer.rs and wal.rs, the writer role: at any time at most one handle of a
\* path builds or writes a change of the file, however many there are and
\* whenever they are opened, closed, refused or relieved of the lease.
THEOREM OneWriterAtATime == Spec => []OneReserved
  <1>1. IInv => OneReserved
    BY DEF IInv
  <1> QED BY <1>1, InitIInv, NextIInv, PTL DEF Spec

-----------------------------------------------------------------------------
(* The commit section, and what the statements see. *)

Section == {"check", "body", "release"}

\* The statement is in its read scope, with a guard if it had peers.
ScopeStages == {"refresh", "run", "flush", "commit", "wait", "check", "body", "alone",
                "release", "leave"}
InScope(h) == pc[h] \in ScopeStages \/ (op[h] = "step" /\ pc[h] \in {"publish", "lease"})

\* A stepped SELECT whose cursor is not yet there.
Opening(h) == op[h] = "cursor" /\ pc[h] \in {"publish", "lease", "exclusive", "enter", "refresh", "run"}

Guarded == {k \in Handle : guard[k]}
Stepping == {k \in Handle : cursor[k] = "guarded"}

ScopeTypes ==
    /\ committing \in BOOLEAN /\ waitingOwn \in Int
    /\ guard \in [Handle -> BOOLEAN] /\ own \in [Handle -> Int]
    /\ cursor \in [Handle -> {"none", "bare", "guarded"}]

\* Every guard is counted once, and those of the handle that waits for the
\* commit section are counted as its own.
Accounts ==
    /\ readers = Cardinality(Guarded) + Cardinality(Stepping)
    /\ \A h \in Handle :
          /\ own[h] = (IF guard[h] THEN 1 ELSE 0) + (IF cursor[h] = "guarded" THEN 1 ELSE 0)
          /\ guard[h] => InScope(h) \/ (op[h] = "step" /\ pc[h] = "exit")
          /\ cursor[h] # "none" => h \in open /\ ~Opening(h)
          /\ pc[h] = "wait" => waitingOwn = own[h]
    /\ (\A h \in Handle : pc[h] # "wait") => waitingOwn = 0

\* Who reads or writes without a guard is the only handle.
Sole ==
    \A h \in Handle :
        /\ InScope(h) /\ ~guard[h] => open = {h}
        /\ cursor[h] = "bare" => open = {h}
        /\ pc[h] = "alone" => ~guard[h]

\* The section has one handle, and the others no guard.
SectionAlone ==
    /\ committing <=> \E h \in Handle : pc[h] \in Section
    /\ \A h, k \in Handle :
          pc[h] \in Section /\ k # h
              => ~guard[k] /\ cursor[k] # "guarded" /\ pc[k] \notin Section

SInv == ScopeTypes /\ Accounts /\ Sole /\ SectionAlone

-----------------------------------------------------------------------------
(* Counting.                                                               *)

\* Sets of handles are finite, and their sizes change by one.
LEMMA Counting ==
  ASSUME NEW S, S \subseteq Handle, NEW h \in Handle
  PROVE  /\ Cardinality(S) \in Nat
         /\ Cardinality(S) = 0 <=> S = {}
         /\ h \notin S => Cardinality(S \cup {h}) = Cardinality(S) + 1
         /\ h \in S => Cardinality(S \ {h}) = Cardinality(S) - 1
         /\ h \in S => Cardinality(S) >= 1
  <1>1. IsFiniteSet(S)
    BY FS_Subset, PeerAssumption
  <1>2. Cardinality(S) \in Nat /\ (Cardinality(S) = 0 <=> S = {})
    BY <1>1, FS_CardinalityType, FS_EmptySet
  <1>3. h \notin S => Cardinality(S \cup {h}) = Cardinality(S) + 1
    BY <1>1, FS_AddElement
  <1>4. h \in S => Cardinality(S \ {h}) = Cardinality(S) - 1
    BY <1>1, FS_RemoveElement
  <1>5. h \in S => Cardinality(S) >= 1
    BY <1>2
  <1> QED BY <1>2, <1>3, <1>4, <1>5

\* A handle whose guards are all there are.
LEMMA OnlyOwn ==
  ASSUME SInv, NEW h \in Handle, readers <= own[h], NEW k \in Handle, k # h
  PROVE  ~guard[k] /\ cursor[k] # "guarded"
  <1> DEFINE G == Guarded \ {h}
             C == Stepping \ {h}
  <1>1. Guarded \subseteq Handle /\ Stepping \subseteq Handle /\ G \subseteq Handle /\ C \subseteq Handle
    BY DEF Guarded, Stepping
  <1>2. /\ Cardinality(Guarded) \in Nat /\ Cardinality(Stepping) \in Nat
        /\ Cardinality(G) \in Nat /\ Cardinality(C) \in Nat
    BY <1>1, Counting
  <1>3. Cardinality(G) = Cardinality(Guarded) - (IF guard[h] THEN 1 ELSE 0)
    <2>1. CASE guard[h]
      BY <1>1, <2>1, Counting DEF Guarded
    <2>2. CASE ~guard[h]
      <3>1. G = Guarded
        BY <2>2 DEF Guarded
      <3> QED BY <1>2, <2>2, <3>1
    <2> QED BY <2>1, <2>2
  <1>4. Cardinality(C) = Cardinality(Stepping) - (IF cursor[h] = "guarded" THEN 1 ELSE 0)
    <2>1. CASE cursor[h] = "guarded"
      BY <1>1, <2>1, Counting DEF Stepping
    <2>2. CASE cursor[h] # "guarded"
      <3>1. C = Stepping
        BY <2>2 DEF Stepping
      <3> QED BY <1>2, <2>2, <3>1
    <2> QED BY <2>1, <2>2
  <1>5. Cardinality(G) + Cardinality(C) <= 0
    BY <1>2, <1>3, <1>4 DEF SInv, Accounts
  <1>6. Cardinality(G) = 0 /\ Cardinality(C) = 0
    BY <1>2, <1>5
  <1>7. G = {} /\ C = {}
    BY <1>1, <1>6, Counting
  <1> QED BY <1>7 DEF Guarded, Stepping

\* A handle with a guard has peers.
LEMMA GuardIsPeer ==
  ASSUME IInv, SInv, NEW h \in Handle, h \in open, guard[h]
  PROVE  Peers
  <1>1. Cardinality(open) >= 1 /\ Cardinality(open) \in Nat
    BY Counting DEF IInv, RoleTypes
  <1>2. Guarded \subseteq Handle /\ Stepping \subseteq Handle /\ h \in Guarded
    BY DEF Guarded, Stepping
  <1>3. Cardinality(Guarded) >= 1 /\ Cardinality(Guarded) \in Nat /\ Cardinality(Stepping) \in Nat
    BY <1>2, Counting
  <1> QED BY <1>1, <1>3 DEF Peers, SInv, Accounts

-----------------------------------------------------------------------------
(* Steps that keep scopes and section.                                     *)

\* A step of h that changes no guard and no count, and stays where it is as
\* far as these are concerned.
ScopeKept(h) ==
    /\ UNCHANGED <<open, readers, committing, waitingOwn, guard, cursor, own>>
    /\ \A k \in Handle \ {h} : pc'[k] = pc[k] /\ op'[k] = op[k]
    /\ InScope(h)' => InScope(h) \/ guard[h]
    /\ guard[h] => InScope(h)' \/ (op'[h] = "step" /\ pc'[h] = "exit")
    /\ pc'[h] \in Section <=> pc[h] \in Section
    /\ pc'[h] = "wait" <=> pc[h] = "wait"
    /\ pc'[h] = "alone" => ~guard[h]
    /\ Opening(h)' => cursor[h] = "none"

\* The sets that are counted depend on the guards only.
LEMMA SameCount ==
  ASSUME UNCHANGED <<guard, cursor>> PROVE Guarded' = Guarded /\ Stepping' = Stepping
  BY DEF Guarded, Stepping

\* Such a step keeps the invariant.
LEMMA ScopeKeptSInv ==
  ASSUME IInv, SInv, NEW h \in Handle, ScopeKept(h) PROVE SInv'
  <1>1. ScopeTypes'
    BY DEF SInv, ScopeTypes, ScopeKept
  <1>2. Accounts'
    <2>1. readers' = Cardinality(Guarded') + Cardinality(Stepping')
      BY SameCount DEF SInv, Accounts, ScopeKept
    <2>2. ASSUME NEW k \in Handle
          PROVE  /\ own'[k] = (IF guard'[k] THEN 1 ELSE 0) + (IF cursor'[k] = "guarded" THEN 1 ELSE 0)
                 /\ guard'[k] => InScope(k)' \/ (op'[k] = "step" /\ pc'[k] = "exit")
                 /\ cursor'[k] # "none" => k \in open' /\ ~Opening(k)'
                 /\ pc'[k] = "wait" => waitingOwn' = own'[k]
      <3>1. CASE k = h
        BY <3>1 DEF SInv, Accounts, ScopeKept
      <3>2. CASE k # h
        BY <3>2 DEF SInv, Accounts, ScopeKept, InScope, Opening
      <3> QED BY <3>1, <3>2
    <2>3. (\A k \in Handle : pc'[k] # "wait") => waitingOwn' = 0
      BY DEF SInv, Accounts, ScopeKept
    <2> QED BY <2>1, <2>2, <2>3 DEF Accounts
  <1>3. Sole'
    <2> SUFFICES ASSUME NEW k \in Handle
                 PROVE  /\ InScope(k)' /\ ~guard'[k] => open' = {k}
                        /\ cursor'[k] = "bare" => open' = {k}
                        /\ pc'[k] = "alone" => ~guard'[k]
      BY DEF Sole
    <2>1. CASE k = h
      BY <2>1 DEF SInv, Sole, ScopeKept
    <2>2. CASE k # h
      BY <2>2 DEF SInv, Sole, ScopeKept, InScope
    <2> QED BY <2>1, <2>2
  <1>4. SectionAlone'
    <2>1. \A k \in Handle : pc'[k] \in Section <=> pc[k] \in Section
      BY DEF ScopeKept
    <2> QED BY <2>1 DEF SInv, SectionAlone, ScopeKept
  <1> QED BY <1>1, <1>2, <1>3, <1>4 DEF SInv

\* What the two invariants say of one handle.
LEMMA ScopeFacts ==
  ASSUME IInv, SInv, NEW h \in Handle
  PROVE  /\ guard[h] => InScope(h) \/ (op[h] = "step" /\ pc[h] = "exit")
         /\ InScope(h) /\ ~guard[h] => open = {h}
         /\ pc[h] = "alone" => ~guard[h]
         /\ pc[h] # "idle" => h \in open
         /\ Opening(h) => cursor[h] = "none"
         /\ pc \in [Handle -> Stages] /\ op \in [Handle -> Statements]
  BY DEF IInv, SInv, Accounts, Sole, RoleShown, RoleTypes

LEMMA KeepingSteps ==
  ASSUME IInv, SInv, NEW h \in Handle
  PROVE  /\ \A o \in Statements : Start(h, o) => ScopeKept(h)
         /\ Publish(h) \/ TakeLease(h) \/ RefuseLease(h) \/ TakeExclusive(h) => ScopeKept(h)
         /\ RefuseScope(h) \/ EnterView(h) => ScopeKept(h)
         /\ \A p \in Page : Load(h, p) \/ Store(h, p) => ScopeKept(h)
         /\ EndWrite(h) \/ Begin(h) \/ Commit(h) \/ Rollback(h) => ScopeKept(h)
         /\ FlushBegin(h) \/ FlushRefused(h) => ScopeKept(h)
         /\ WritePage(h) \/ Bump(h) \/ Exit(h) => ScopeKept(h)
  <1>0. /\ guard[h] => InScope(h) \/ (op[h] = "step" /\ pc[h] = "exit")
        /\ pc[h] = "alone" => ~guard[h]
        /\ Opening(h) => cursor[h] = "none"
        /\ pc \in [Handle -> Stages] /\ op \in [Handle -> Statements]
    BY ScopeFacts
  <1> USE DEF ScopeKept, InScope, Opening, ScopeStages, Section, sharedVars
  <1>1. ASSUME NEW o \in Statements, Start(h, o) PROVE ScopeKept(h)
    BY <1>0, <1>1 DEF Start, FirstStage, IsWrite, Statements
  <1>2. CASE Publish(h)
    BY <1>0, <1>2 DEF Publish
  <1>3. CASE TakeLease(h)
    BY <1>0, <1>3 DEF TakeLease, AfterRole
  <1>4. CASE RefuseLease(h)
    BY <1>0, <1>4 DEF RefuseLease
  <1>5. CASE TakeExclusive(h)
    BY <1>0, <1>5 DEF TakeExclusive
  <1>6. CASE RefuseScope(h)
    BY <1>0, <1>6 DEF RefuseScope, Abandon
  <1>7. CASE EnterView(h)
    BY <1>0, <1>7 DEF EnterView, AfterScope
  <1>8. ASSUME NEW p \in Page, Load(h, p) \/ Store(h, p) PROVE ScopeKept(h)
    BY <1>0, <1>8 DEF Load, Store
  <1>9. CASE EndWrite(h)
    BY <1>0, <1>9 DEF EndWrite, Leaving
  <1>10. CASE Begin(h) \/ Commit(h) \/ Rollback(h)
    BY <1>0, <1>10 DEF Begin, Commit, Rollback
  <1>11. CASE FlushBegin(h)
    <2>1. ~Peers => ~guard[h]
      BY <1>11, GuardIsPeer, ScopeFacts DEF FlushBegin
    <2> QED BY <1>0, <1>11, <2>1 DEF FlushBegin
  <1>12. CASE FlushRefused(h)
    BY <1>0, <1>12 DEF FlushRefused, FlushFails, Leaving
  <1>13. CASE WritePage(h)
    BY <1>0, <1>13 DEF WritePage
  <1>14. CASE Bump(h)
    BY <1>0, <1>14 DEF Bump, Leaving
  <1>15. CASE Exit(h)
    BY <1>0, <1>15 DEF Exit
  <1> QED
    BY <1>1, <1>2, <1>3, <1>4, <1>5, <1>6, <1>7, <1>8, <1>9, <1>10, <1>11, <1>12, <1>13,
       <1>14, <1>15

-----------------------------------------------------------------------------
(* Opening, closing, and the steps that take or give back a guard.         *)

\* Pager::open between the statements of the others.
LEMMA OpenSInv ==
  ASSUME IInv, SInv, "open_anytime" \notin Events, NEW h \in Handle, Open(h) PROVE SInv'
  <1>1. /\ h \notin open /\ open' = open \cup {h}
        /\ UNCHANGED <<readers, committing, waitingOwn, guard, cursor, own, pc, op>>
        /\ \A k \in open : pc[k] = "idle" /\ cursor[k] # "bare"
    BY DEF Open, OpensQuietly
  <1>2. \A k \in Handle : pc[k] = "idle" /\ cursor[k] # "bare"
    BY <1>1 DEF IInv, RoleShown, SInv, ScopeTypes, Accounts
  <1>3. ScopeTypes' /\ SectionAlone'
    BY <1>1 DEF SInv, ScopeTypes, SectionAlone
  <1>4. Accounts'
    BY <1>1, SameCount DEF SInv, Accounts, InScope, Opening
  <1>5. Sole'
    BY <1>1, <1>2 DEF Sole, InScope, ScopeStages
  <1> QED BY <1>3, <1>4, <1>5 DEF SInv

\* Drop of an idle handle.
LEMMA CloseSInv == ASSUME IInv, SInv, NEW h \in Handle, Close(h) PROVE SInv'
  <1>1. /\ h \in open /\ open' = open \ {h} /\ pc[h] = "idle" /\ cursor[h] = "none"
        /\ UNCHANGED <<readers, committing, waitingOwn, guard, cursor, own, pc, op>>
    BY DEF Close
  <1>2. ScopeTypes' /\ SectionAlone'
    BY <1>1 DEF SInv, ScopeTypes, SectionAlone
  <1>3. Accounts'
    BY <1>1, SameCount DEF SInv, Accounts, InScope, Opening
  <1>4. Sole'
    <2> SUFFICES ASSUME NEW k \in Handle
                 PROVE  /\ InScope(k)' /\ ~guard'[k] => open' = {k}
                        /\ cursor'[k] = "bare" => open' = {k}
                        /\ pc'[k] = "alone" => ~guard'[k]
      BY DEF Sole
    <2>1. CASE k = h
      BY <1>1, <2>1 DEF InScope, ScopeStages
    <2>2. CASE k # h
      BY <1>1, <2>2 DEF SInv, Sole, InScope
    <2> QED BY <2>1, <2>2
  <1> QED BY <1>2, <1>3, <1>4 DEF SInv

\* Both counts stay what the guards say when h takes or gives back one.
LEMMA Recount ==
  ASSUME IInv, SInv, NEW h \in Handle,
         \A k \in Handle \ {h} : guard'[k] = guard[k] /\ cursor'[k] = cursor[k],
         guard'[h] \in BOOLEAN
  PROVE  LET held(g, c) == (IF g THEN 1 ELSE 0) + (IF c = "guarded" THEN 1 ELSE 0)
         IN  Cardinality(Guarded') + Cardinality(Stepping')
               = readers + held(guard'[h], cursor'[h]) - held(guard[h], cursor[h])
  <1>1. Guarded \subseteq Handle /\ Stepping \subseteq Handle
    BY DEF Guarded, Stepping
  <1>2. guard[h] \in BOOLEAN
    BY DEF SInv, ScopeTypes
  <1>3. Cardinality(Guarded) \in Nat /\ Cardinality(Stepping) \in Nat
    BY <1>1, Counting
  <1>4. Cardinality(Guarded')
          = Cardinality(Guarded) + (IF guard'[h] THEN 1 ELSE 0) - (IF guard[h] THEN 1 ELSE 0)
    <2>1. CASE guard'[h] /\ ~guard[h]
      <3>1. Guarded' = Guarded \cup {h} /\ h \notin Guarded
        BY <2>1 DEF Guarded
      <3> QED BY <1>1, <2>1, <3>1, Counting
    <2>2. CASE ~guard'[h] /\ guard[h]
      <3>1. Guarded' = Guarded \ {h} /\ h \in Guarded
        BY <2>2 DEF Guarded
      <3> QED BY <1>1, <2>2, <3>1, Counting
    <2>3. CASE guard'[h] = guard[h]
      <3>1. Guarded' = Guarded
        BY <2>3 DEF Guarded
      <3> QED BY <1>3, <2>3, <3>1
    <2> QED BY <1>2, <2>1, <2>2, <2>3
  <1>5. Cardinality(Stepping')
          = Cardinality(Stepping) + (IF cursor'[h] = "guarded" THEN 1 ELSE 0)
              - (IF cursor[h] = "guarded" THEN 1 ELSE 0)
    <2>1. CASE cursor'[h] = "guarded" /\ cursor[h] # "guarded"
      <3>1. Stepping' = Stepping \cup {h} /\ h \notin Stepping
        BY <2>1 DEF Stepping
      <3> QED BY <1>1, <2>1, <3>1, Counting
    <2>2. CASE cursor'[h] # "guarded" /\ cursor[h] = "guarded"
      <3>1. Stepping' = Stepping \ {h} /\ h \in Stepping
        BY <2>2 DEF Stepping
      <3> QED BY <1>1, <2>2, <3>1, Counting
    <2>3. CASE cursor'[h] = "guarded" <=> cursor[h] = "guarded"
      <3>1. Stepping' = Stepping
        BY <2>3 DEF Stepping
      <3> QED BY <1>3, <2>3, <3>1
    <2> QED BY <2>1, <2>2, <2>3
  <1>6. readers = Cardinality(Guarded) + Cardinality(Stepping)
    BY DEF SInv, Accounts
  <1> HIDE DEF Guarded, Stepping
  <1> QED BY <1>2, <1>4, <1>5, <1>3, <1>6

\* A handle that is counted is counted.
LEMMA ReadersHeld ==
  ASSUME IInv, SInv, NEW h \in Handle, guard[h] \/ cursor[h] = "guarded"
  PROVE  readers > 0 /\ readers \in Nat
  <1>1. Guarded \subseteq Handle /\ Stepping \subseteq Handle /\ (h \in Guarded \/ h \in Stepping)
    BY DEF Guarded, Stepping
  <1>2. /\ Cardinality(Guarded) \in Nat /\ Cardinality(Stepping) \in Nat
        /\ Cardinality(Guarded) >= 1 \/ Cardinality(Stepping) >= 1
    BY <1>1, Counting
  <1> QED BY <1>2 DEF SInv, Accounts

\* A step of h that takes or gives back guards of its own and counts them,
\* and is neither in the section nor waits for it.
Takes(h) ==
    /\ UNCHANGED <<open, committing, waitingOwn>>
    /\ ScopeTypes'
    /\ \A k \in Handle \ {h} :
          pc'[k] = pc[k] /\ op'[k] = op[k] /\ guard'[k] = guard[k] /\ cursor'[k] = cursor[k]
            /\ own'[k] = own[k]
    /\ {pc[h], pc'[h]} \cap (Section \cup {"wait", "alone"}) = {}
    /\ readers' - own'[h] = readers - own[h]
    /\ own'[h] = (IF guard'[h] THEN 1 ELSE 0) + (IF cursor'[h] = "guarded" THEN 1 ELSE 0)
    /\ guard'[h] => InScope(h)' \/ (op'[h] = "step" /\ pc'[h] = "exit")
    /\ h \in open /\ (Opening(h)' => cursor'[h] = "none")
    /\ InScope(h)' /\ ~guard'[h] => open = {h}
    /\ cursor'[h] = "bare" => open = {h}
    /\ ~committing \/ open = {h} \/ (~guard'[h] /\ cursor'[h] # "guarded")
         \/ guard[h] \/ cursor[h] = "guarded"

\* Such a step keeps the invariant.
LEMMA TakesSInv == ASSUME IInv, SInv, NEW h \in Handle, Takes(h), readers' \in Int PROVE SInv'
  <1>1. own[h] = (IF guard[h] THEN 1 ELSE 0) + (IF cursor[h] = "guarded" THEN 1 ELSE 0)
    BY DEF SInv, Accounts
  <1>2. guard'[h] \in BOOLEAN /\ readers \in Nat
    BY DEF Takes, ScopeTypes, IInv, RoleTypes
  <1>3. readers' = Cardinality(Guarded') + Cardinality(Stepping')
    <2>1. \A k \in Handle \ {h} : guard'[k] = guard[k] /\ cursor'[k] = cursor[k]
      BY DEF Takes
    <2>2. Cardinality(Guarded') + Cardinality(Stepping') = readers + own'[h] - own[h]
      BY <1>1, <1>2, <2>1, Recount DEF Takes
    <2>3. own'[h] \in Int /\ own[h] \in Int
      BY DEF Takes, ScopeTypes, SInv
    <2> QED BY <1>2, <2>2, <2>3 DEF Takes
  <1>4. Accounts'
    <2>1. ASSUME NEW k \in Handle
          PROVE  /\ own'[k] = (IF guard'[k] THEN 1 ELSE 0) + (IF cursor'[k] = "guarded" THEN 1 ELSE 0)
                 /\ guard'[k] => InScope(k)' \/ (op'[k] = "step" /\ pc'[k] = "exit")
                 /\ cursor'[k] # "none" => k \in open' /\ ~Opening(k)'
                 /\ pc'[k] = "wait" => waitingOwn' = own'[k]
      <3>1. CASE k = h
        BY <3>1 DEF Takes
      <3>2. CASE k # h
        BY <3>2 DEF SInv, Accounts, Takes, InScope, Opening
      <3> QED BY <3>1, <3>2
    <2>2. (\A k \in Handle : pc'[k] # "wait") => waitingOwn' = 0
      BY DEF SInv, Accounts, Takes
    <2> QED BY <1>3, <2>1, <2>2 DEF Accounts
  <1>5. Sole'
    <2> SUFFICES ASSUME NEW k \in Handle
                 PROVE  /\ InScope(k)' /\ ~guard'[k] => open' = {k}
                        /\ cursor'[k] = "bare" => open' = {k}
                        /\ pc'[k] = "alone" => ~guard'[k]
      BY DEF Sole
    <2>1. CASE k = h
      BY <2>1 DEF Takes
    <2>2. CASE k # h
      BY <2>2 DEF SInv, Sole, Takes, InScope
    <2> QED BY <2>1, <2>2
  <1>6. SectionAlone'
    <2>1. \A k \in Handle : pc'[k] \in Section <=> pc[k] \in Section
      BY DEF Takes
    <2>2. \A k \in Handle : pc[k] \in Section => k # h /\ k \in open /\ committing
      BY DEF Takes, IInv, RoleShown, SInv, SectionAlone, Section
    <2>3. \A k \in Handle : pc[k] \in Section => ~guard'[h] /\ cursor'[h] # "guarded"
      BY <2>2 DEF Takes, SInv, SectionAlone
    <2> QED BY <2>1, <2>2, <2>3 DEF SInv, SectionAlone, Takes
  <1> QED BY <1>4, <1>5, <1>6 DEF SInv, Takes

\* peer_read_enter and the ends of a scope.
LEMMA TakingSteps ==
  ASSUME IInv, SInv, NEW h \in Handle
  PROVE  EnterScope(h) \/ EndRead(h) \/ LeaveScope(h) \/ CloseCursor(h) => SInv'
  <1>0. /\ readers \in Nat /\ open \subseteq Handle
        /\ own[h] = (IF guard[h] THEN 1 ELSE 0) + (IF cursor[h] = "guarded" THEN 1 ELSE 0)
        /\ guard[h] => InScope(h) \/ (op[h] = "step" /\ pc[h] = "exit")
        /\ InScope(h) /\ ~guard[h] => open = {h}
        /\ cursor[h] = "bare" => open = {h}
        /\ cursor[h] # "none" => h \in open /\ ~Opening(h)
        /\ pc[h] # "idle" => h \in open
        /\ pc \in [Handle -> Stages] /\ op \in [Handle -> Statements]
        /\ ScopeTypes
    BY DEF IInv, SInv, Accounts, Sole, RoleShown, RoleTypes
  <1>1. CASE EnterScope(h)
    <2>1. ~guard[h] /\ pc[h] = "enter" /\ pc'[h] = "refresh" /\ h \in open
      BY <1>0, <1>1 DEF EnterScope, InScope, ScopeStages
    <2>2. Peers \in BOOLEAN
      BY DEF Peers
    <2>3. ~Peers => open = {h}
      BY <2>1, SoleIsAlone
    <2>4. readers' \in Int
      BY <1>0, <1>1 DEF EnterScope
    <2>5. Takes(h)
      BY <1>0, <1>1, <2>1, <2>2, <2>3
         DEF EnterScope, Takes, ScopeTypes, InScope, Opening, ScopeStages, Section
    <2> QED BY <2>4, <2>5, TakesSInv
  <1>2. CASE EndRead(h)
    <2>1. /\ readers' \in Int /\ readers' = readers /\ own' = own /\ op' = op
          /\ UNCHANGED <<open, committing, waitingOwn>>
          /\ pc[h] = "run" /\ op[h] \in {"cursor", "select"}
      BY <1>0, <1>2 DEF EndRead, sharedVars
    <2>2. CASE op[h] = "cursor"
      <3>1. cursor[h] = "none" /\ h \in open /\ (~guard[h] => open = {h})
        BY <1>0, <2>1, <2>2 DEF Opening, InScope, ScopeStages
      <3>2. /\ cursor' = [cursor EXCEPT ![h] = IF guard[h] THEN "guarded" ELSE "bare"]
            /\ guard' = [guard EXCEPT ![h] = FALSE]
            /\ pc' = [pc EXCEPT ![h] = "idle"]
        BY <1>2, <2>2 DEF EndRead
      <3>3. ScopeTypes'
        BY <1>0, <2>1, <3>2 DEF ScopeTypes
      <3>4. /\ pc'[h] = "idle" /\ ~guard'[h]
            /\ cursor'[h] = IF guard[h] THEN "guarded" ELSE "bare"
            /\ \A k \in Handle \ {h} : pc'[k] = pc[k] /\ guard'[k] = guard[k] /\ cursor'[k] = cursor[k]
        BY <1>0, <3>2 DEF ScopeTypes
      <3>5. own'[h] = (IF guard'[h] THEN 1 ELSE 0) + (IF cursor'[h] = "guarded" THEN 1 ELSE 0)
        BY <1>0, <2>1, <3>1, <3>4 DEF ScopeTypes
      <3>6. ~InScope(h)' /\ ~Opening(h)' /\ {pc[h], pc'[h]} \cap (Section \cup {"wait", "alone"}) = {}
        BY <2>1, <3>4 DEF InScope, Opening, ScopeStages, Section
      <3>7. Takes(h)
        BY <2>1, <3>1, <3>3, <3>4, <3>5, <3>6 DEF Takes
      <3> QED BY <2>1, <3>7, TakesSInv
    <2>3. CASE op[h] = "select"
      <3>1. Takes(h)
        BY <1>0, <1>2, <2>1, <2>3
           DEF EndRead, Takes, ScopeTypes, InScope, Opening, ScopeStages, Section, sharedVars
      <3> QED BY <2>1, <3>1, TakesSInv
    <2> QED BY <2>1, <2>2, <2>3
  <1>3. CASE LeaveScope(h)
    <2>1. guard[h] => readers > 0
      BY ReadersHeld
    <2>2. readers' \in Int
      BY <1>0, <1>3 DEF LeaveScope, ReadExit
    <2>3. Takes(h)
      BY <1>0, <1>3, <2>1
         DEF LeaveScope, ReadExit, Takes, ScopeTypes, InScope, Opening, ScopeStages, Section
    <2> QED BY <2>2, <2>3, TakesSInv
  <1>4. CASE CloseCursor(h)
    <2>1. cursor[h] = "guarded" => readers > 0
      BY ReadersHeld
    <2>2. readers' \in Int
      BY <1>0, <1>4 DEF CloseCursor, ReadExit
    <2>3. Takes(h)
      BY <1>0, <1>4, <2>1
         DEF CloseCursor, ReadExit, Takes, ScopeTypes, InScope, Opening, ScopeStages, Section
    <2> QED BY <2>2, <2>3, TakesSInv
  <1> QED BY <1>1, <1>2, <1>3, <1>4
-----------------------------------------------------------------------------
(* The commit section.                                                     *)

\* A step of h to, in or out of the section.
Commits(h) ==
    /\ UNCHANGED <<open, readers, guard, cursor, own, op>>
    /\ committing' \in BOOLEAN /\ waitingOwn' \in Int
    /\ \A k \in Handle \ {h} : pc'[k] = pc[k]
    /\ InScope(h)
    /\ InScope(h)' \/ (op[h] = "step" /\ pc'[h] = "exit")
    /\ pc'[h] # "alone" /\ ~Opening(h)'
    /\ \A k \in Handle \ {h} : pc[k] = "wait" => waitingOwn' = waitingOwn
    /\ pc'[h] = "wait" => waitingOwn' = own[h] /\ \A k \in Handle \ {h} : pc[k] # "wait"
    /\ pc'[h] # "wait" /\ (\A k \in Handle \ {h} : pc[k] # "wait") => waitingOwn' = 0
    /\ committing' <=> pc'[h] \in Section \/ \E k \in Handle \ {h} : pc[k] \in Section
    /\ pc'[h] \in Section
         => \A k \in Handle \ {h} : ~guard[k] /\ cursor[k] # "guarded" /\ pc[k] \notin Section

\* Such a step keeps the invariant.
LEMMA CommitsSInv == ASSUME IInv, SInv, NEW h \in Handle, Commits(h) PROVE SInv'
  <1>1. ScopeTypes'
    BY DEF SInv, ScopeTypes, Commits
  <1>2. Accounts'
    <2>1. readers' = Cardinality(Guarded') + Cardinality(Stepping')
      BY SameCount DEF SInv, Accounts, Commits
    <2>2. ASSUME NEW k \in Handle
          PROVE  /\ own'[k] = (IF guard'[k] THEN 1 ELSE 0) + (IF cursor'[k] = "guarded" THEN 1 ELSE 0)
                 /\ guard'[k] => InScope(k)' \/ (op'[k] = "step" /\ pc'[k] = "exit")
                 /\ cursor'[k] # "none" => k \in open' /\ ~Opening(k)'
                 /\ pc'[k] = "wait" => waitingOwn' = own'[k]
      <3>1. CASE k = h
        BY <3>1 DEF SInv, Accounts, Commits
      <3>2. CASE k # h
        BY <3>2 DEF SInv, Accounts, Commits, InScope, Opening
      <3> QED BY <3>1, <3>2
    <2>3. (\A k \in Handle : pc'[k] # "wait") => waitingOwn' = 0
      BY DEF Commits
    <2> QED BY <2>1, <2>2, <2>3 DEF Accounts
  <1>3. Sole'
    <2> SUFFICES ASSUME NEW k \in Handle
                 PROVE  /\ InScope(k)' /\ ~guard'[k] => open' = {k}
                        /\ cursor'[k] = "bare" => open' = {k}
                        /\ pc'[k] = "alone" => ~guard'[k]
      BY DEF Sole
    <2>1. CASE k = h
      BY <2>1 DEF SInv, Sole, Commits
    <2>2. CASE k # h
      BY <2>2 DEF SInv, Sole, Commits, InScope
    <2> QED BY <2>1, <2>2
  <1>4. SectionAlone'
    <2>1. committing' <=> \E k \in Handle : pc'[k] \in Section
      BY DEF Commits
    <2>2. ASSUME NEW j \in Handle, NEW k \in Handle, pc'[j] \in Section, k # j
          PROVE  ~guard'[k] /\ cursor'[k] # "guarded" /\ pc'[k] \notin Section
      <3>1. CASE j = h
        BY <2>2, <3>1 DEF Commits
      <3>2. CASE j # h
        BY <2>2, <3>2 DEF Commits, SInv, SectionAlone
      <3> QED BY <3>1, <3>2
    <2> QED BY <2>1, <2>2 DEF SectionAlone
  <1> QED BY <1>1, <1>2, <1>3, <1>4 DEF SInv

\* commit_enter, the check of the view and commit_exit.
LEMMA CommitSteps ==
  ASSUME IInv, SInv, NEW h \in Handle
  PROVE  CommitAsk(h) \/ CommitEnter(h) \/ CommitExpires(h) \/ CheckView(h) \/ CommitExit(h) => SInv'
  <1>0. /\ committing \in BOOLEAN /\ waitingOwn \in Int /\ own \in [Handle -> Int]
        /\ pc \in [Handle -> Stages] /\ op \in [Handle -> Statements]
        /\ pc[h] = "wait" => waitingOwn = own[h]
        /\ (\A k \in Handle : pc[k] # "wait") => waitingOwn = 0
        /\ committing <=> \E k \in Handle : pc[k] \in Section
        /\ \A k \in Handle \ {h} : pc[h] \in Section
              => ~guard[k] /\ cursor[k] # "guarded" /\ pc[k] \notin Section
    BY DEF IInv, RoleTypes, SInv, ScopeTypes, Accounts, SectionAlone
  <1>1. pc[h] \in {"commit", "wait", "check"} => \A k \in Handle \ {h} : pc[k] # "wait"
    BY DEF IInv, OneReserved, InRole
  <1> USE DEF Commits, InScope, Opening, ScopeStages, Section
  <1>2. CASE CommitAsk(h)
    <2>1. Commits(h)
      BY <1>0, <1>1, <1>2 DEF CommitAsk
    <2> QED BY <2>1, CommitsSInv
  <1>3. CASE CommitEnter(h)
    <2>1. ~committing /\ readers <= own[h]
      BY <1>0, <1>3 DEF CommitEnter, MustWait, IInv, RoleTypes
    <2>2. \A k \in Handle \ {h} : ~guard[k] /\ cursor[k] # "guarded"
      BY <2>1, OnlyOwn
    <2>3. Commits(h)
      BY <1>0, <1>1, <1>3, <2>1, <2>2 DEF CommitEnter
    <2> QED BY <2>3, CommitsSInv
  <1>4. CASE CommitExpires(h)
    <2>1. Commits(h)
      BY <1>0, <1>1, <1>4 DEF CommitExpires, FlushFails, Leaving
    <2> QED BY <2>1, CommitsSInv
  <1>5. CASE CheckView(h)
    <2>1. Commits(h)
      <3>1. CASE gen = seen[h]
        BY <1>0, <1>1, <1>5, <3>1 DEF CheckView
      <3>2. CASE gen # seen[h]
        BY <1>0, <1>1, <1>5, <3>2 DEF CheckView, FlushFails, Leaving
      <3> QED BY <3>1, <3>2
    <2> QED BY <2>1, CommitsSInv
  <1>6. CASE CommitExit(h)
    <2>1. Commits(h)
      BY <1>0, <1>6 DEF CommitExit, Leaving
    <2> QED BY <2>1, CommitsSInv
  <1> QED BY <1>2, <1>3, <1>4, <1>5, <1>6

-----------------------------------------------------------------------------
(* Commits are alone.                                                      *)

LEMMA InitSInv == Init => SInv
  <1> SUFFICES ASSUME Init PROVE SInv
    OBVIOUS
  <1>1. Guarded = {} /\ Stepping = {}
    BY DEF Init, Guarded, Stepping
  <1>2. Cardinality({}) = 0
    BY FS_EmptySet
  <1>3. readers = Cardinality(Guarded) + Cardinality(Stepping)
    BY <1>1, <1>2 DEF Init
  <1>4. ScopeTypes /\ Accounts
    <2>1. ScopeTypes
      <3>1. committing = FALSE /\ waitingOwn = 0 /\ guard = [h \in Handle |-> FALSE]
        BY DEF Init
      <3>2. own = [h \in Handle |-> 0] /\ cursor = [h \in Handle |-> "none"]
        BY DEF Init
      <3>3. committing \in BOOLEAN /\ guard \in [Handle -> BOOLEAN]
        BY <3>1
      <3>4. waitingOwn \in Int /\ own \in [Handle -> Int]
        BY <3>1, <3>2
      <3>5. cursor \in [Handle -> {"none", "bare", "guarded"}]
        BY <3>2
      <3> QED BY <3>3, <3>4, <3>5 DEF ScopeTypes
    <2>2. ASSUME NEW h \in Handle
          PROVE  own[h] = 0 /\ ~guard[h] /\ cursor[h] = "none" /\ pc[h] = "idle" /\ waitingOwn = 0
      BY DEF Init
    <2> QED BY <1>3, <2>1, <2>2 DEF Init, Accounts
  <1>5. Sole /\ SectionAlone
    BY DEF Init, Sole, SectionAlone, InScope, ScopeStages, Section
  <1> QED BY <1>4, <1>5 DEF SInv

LEMMA NextSInv == ASSUME "open_anytime" \notin Events, IInv, SInv, [Next]_vars PROVE SInv'
  <1>1. CASE UNCHANGED vars
    BY <1>1, SameCount
       DEF vars, SInv, ScopeTypes, Accounts, Sole, SectionAlone, InScope, Opening
  <1>2. ASSUME NEW h \in Handle, HandleStep(h) PROVE SInv'
    <2>1. ASSUME ScopeKept(h) PROVE SInv'
      BY <2>1, ScopeKeptSInv
    <2>2. CASE Open(h) \/ Close(h)
      BY <2>2, OpenSInv, CloseSInv
    <2>3. CASE EnterScope(h) \/ EndRead(h) \/ LeaveScope(h) \/ CloseCursor(h)
      BY <2>3, TakingSteps
    <2>4. CASE CommitAsk(h) \/ CommitEnter(h) \/ CommitExpires(h) \/ CheckView(h) \/ CommitExit(h)
      BY <2>4, CommitSteps
    <2>5. CASE \/ \E o \in Statements : Start(h, o)
               \/ Publish(h) \/ TakeLease(h) \/ RefuseLease(h) \/ TakeExclusive(h)
               \/ RefuseScope(h) \/ EnterView(h)
               \/ \E p \in Page : Load(h, p) \/ Store(h, p)
               \/ EndWrite(h) \/ Begin(h) \/ Commit(h) \/ Rollback(h)
               \/ FlushBegin(h) \/ FlushRefused(h)
               \/ WritePage(h) \/ Bump(h) \/ Exit(h)
      BY <2>1, <2>5, KeepingSteps
    <2> QED BY <1>2, <2>2, <2>3, <2>4, <2>5 DEF HandleStep
  <1> QED BY <1>1, <1>2 DEF Next

LEMMA SInvCommitAlone == IInv /\ SInv => CommitAlone
  <1> SUFFICES ASSUME IInv, SInv PROVE CommitAlone
    OBVIOUS
  <1>1. open \subseteq Handle /\ \A h \in Handle : h \notin open => pc[h] = "idle" /\ cursor[h] = "none"
    BY DEF IInv, RoleTypes, RoleShown, SInv, Accounts, ScopeTypes
  <1>2. ASSUME NEW h \in open, NEW k \in open, k # h,
               pc[h] \in {"check", "body", "alone", "release"}
        PROVE  ~guard[k] /\ cursor[k] = "none" /\ pc[k] \notin {"check", "body", "alone", "release"}
    <2>1. pc[h] # "alone" /\ pc[k] # "alone" /\ cursor[k] # "bare"
      BY <1>1, <1>2 DEF SInv, Sole, InScope, ScopeStages
    <2> QED BY <1>1, <1>2, <2>1 DEF SInv, SectionAlone, Section, ScopeTypes
  <1>3. ASSUME \A h \in open : pc[h] = "idle" /\ cursor[h] = "none"
        PROVE  readers = 0 /\ waitingOwn = 0 /\ ~committing
    <2>1. \A h \in Handle : pc[h] = "idle" /\ cursor[h] = "none"
      BY <1>1, <1>3
    <2>2. Guarded = {} /\ Stepping = {}
      BY <2>1 DEF Guarded, Stepping, SInv, Accounts, InScope, ScopeStages
    <2>3. readers = 0
      BY <2>2, FS_EmptySet DEF SInv, Accounts
    <2> QED BY <2>1, <2>3 DEF SInv, Accounts, SectionAlone, Section
  <1> QED BY <1>2, <1>3 DEF CommitAlone

\* peer.rs, commit_enter and the read guards: while a handle rewrites pages of
\* the file no other one reads or writes it, and idle handles leave nothing of
\* the accounting behind, for any handles that open between statements.
THEOREM CommitsAreAlone == ASSUME "open_anytime" \notin Events PROVE Spec => []CommitAlone
  <1>1. Init => IInv /\ SInv
    BY InitIInv, InitSInv
  <1>2. IInv /\ SInv /\ [Next]_vars => (IInv /\ SInv)'
    BY NextIInv, NextSInv
  <1>3. IInv /\ SInv => CommitAlone
    BY SInvCommitAlone
  <1> QED BY <1>1, <1>2, <1>3, PTL DEF Spec
-----------------------------------------------------------------------------
(* What the handles see.                                                   *)

Flushing == {"flush", "commit", "wait", "check", "body", "alone"}
Writes(h) == pc[h] \in {"body", "alone"}

\* The statement has fixed its view: peer_refresh is behind it.
Fixed(h) == pc[h] \in ScopeStages \ {"refresh", "leave"} \/ (op[h] = "step" /\ pc[h] \in {"publish", "lease"})

\* What h has cached, or had before it changed it, is the last commit.
Current(h) ==
    \A p \in Page :
        /\ p \in dirty[h] => pre[h][p] = Committed[p]
        /\ p \notin dirty[h] /\ cache[h][p] # Miss => cache[h][p] = Committed[p]

\* Who changes pages, or read outside a transaction, saw the last commit; and
\* a transaction whose handle is alone has nobody who could have made a newer.
NeedsLatest(h) ==
    \/ dirty[h] # {}
    \/ pc[h] = "run" /\ IsWrite(op[h])
    \/ inTxn[h] /\ pc[h] \in {"exclusive", "enter", "refresh"} /\ IsWrite(op[h]) /\ op[h] # "step"
    \/ ~inTxn[h] /\ Fixed(h)
    \/ inTxn[h] /\ open = {h}

\* Marked pages may differ from their pre-images.
Changing(h) == inTxn[h] \/ pc[h] \in Flushing \/ (pc[h] = "run" /\ op[h] \in {"write", "step"})

View(h) ==
    /\ h \notin open => ~inTxn[h] /\ dirty[h] = {}
    /\ h \in open => seen[h] <= gen
    /\ h \in open /\ seen[h] = gen => Current(h)
    /\ NeedsLatest(h) => seen[h] = gen
    /\ \A p \in dirty[h] : /\ cache[h][p] # Miss /\ pre[h][p] # Miss
                           /\ ~Changing(h) => cache[h][p] = pre[h][p]
    /\ pc[h] \in Flushing => dirty[h] # {} /\ op[h] \in {"write", "step", "commit"}
    /\ pc[h] \in {"commit", "wait", "check"} => todo[h] = dirty[h]
    /\ Writes(h) => todo[h] \subseteq dirty[h]

\* A page of the file is what the last commit left, unless the commit that is
\* being written has replaced it.
FileShows ==
    \A p \in Page :
        \/ \E h \in Handle : Writes(h) /\ p \in dirty[h] \ todo[h] /\ file[p] = cache[h][p]
        \/ /\ \A h \in Handle : Writes(h) => p \notin dirty[h] \ todo[h]
           /\ file[p] = Committed[p]

ViewTypes ==
    /\ gen \in Nat /\ clock \in Nat
    /\ seen \in [Handle -> Nat] /\ todo \in [Handle -> SUBSET Page]
    /\ file \in [Page -> Nat]
    /\ cache \in [Handle -> [Page -> Nat]] /\ pre \in [Handle -> [Page -> Nat]]
    /\ published \in Seq([Page -> Nat]) /\ published # <<>>

VInv == ViewTypes /\ FileShows /\ \A h \in Handle : View(h)

\* A step of h that commits nothing, opens and closes nothing.
Frame(h) ==
    /\ UNCHANGED <<open, gen, published>>
    /\ \A k \in Handle \ {h} :
          /\ pc'[k] = pc[k] /\ op'[k] = op[k] /\ seen'[k] = seen[k] /\ cache'[k] = cache[k]
          /\ dirty'[k] = dirty[k] /\ pre'[k] = pre[k] /\ todo'[k] = todo[k] /\ inTxn'[k] = inTxn[k]

\* It leaves the views of the others alone.
LEMMA OtherViews ==
  ASSUME VInv, NEW h \in Handle, Frame(h), NEW k \in Handle, k # h PROVE View(k)'
  <1>1. /\ UNCHANGED <<open, gen, published>>
        /\ pc'[k] = pc[k] /\ op'[k] = op[k] /\ seen'[k] = seen[k] /\ cache'[k] = cache[k]
        /\ dirty'[k] = dirty[k] /\ pre'[k] = pre[k] /\ todo'[k] = todo[k] /\ inTxn'[k] = inTxn[k]
    BY DEF Frame
  <1>2. Current(k)' <=> Current(k)
    BY <1>1 DEF Current, Committed
  <1>3. (NeedsLatest(k)' <=> NeedsLatest(k)) /\ (Changing(k)' <=> Changing(k)) /\ (Writes(k)' <=> Writes(k))
    BY <1>1 DEF NeedsLatest, Changing, Writes, Fixed
  <1>4. View(k)
    BY DEF VInv
  <1> QED BY <1>1, <1>2, <1>3, <1>4 DEF View

\* A step of h that leaves its pages alone too.
Still(h) ==
    /\ Frame(h)
    /\ UNCHANGED <<file, seen, cache, dirty, pre>>
    /\ h \in open /\ ~Writes(h)
    /\ NeedsLatest(h)' => seen[h] = gen
    /\ Changing(h) /\ ~Changing(h)' => dirty[h] = {}
    /\ pc'[h] \in Flushing => dirty[h] # {} /\ op'[h] \in {"write", "step", "commit"}
    /\ pc'[h] \in {"commit", "wait", "check", "body", "alone"} => todo'[h] = dirty[h]

LEMMA StillView == ASSUME VInv, NEW h \in Handle, Still(h) PROVE View(h)'
  <1>1. /\ UNCHANGED <<open, gen, published, seen, cache, dirty, pre>>
        /\ h \in open
        /\ NeedsLatest(h)' => seen[h] = gen
        /\ Changing(h) /\ ~Changing(h)' => dirty[h] = {}
        /\ pc'[h] \in Flushing => dirty[h] # {} /\ op'[h] \in {"write", "step", "commit"}
        /\ pc'[h] \in {"commit", "wait", "check", "body", "alone"} => todo'[h] = dirty[h]
    BY DEF Still, Frame
  <1>2. Current(h)' <=> Current(h)
    BY <1>1 DEF Current, Committed
  <1>3. View(h)
    BY DEF VInv
  <1> QED BY <1>1, <1>2, <1>3 DEF View, Writes

\* A step that writes no page keeps what the file shows.
LEMMA FileKept ==
  ASSUME VInv, NEW h \in Handle, Frame(h), file' = file, ~Writes(h),
         Writes(h)' => todo'[h] = dirty'[h]
  PROVE  FileShows'
  <1> SUFFICES ASSUME NEW p \in Page
               PROVE  \/ \E k \in Handle : Writes(k)' /\ p \in dirty'[k] \ todo'[k] /\ file'[p] = cache'[k][p]
                      \/ /\ \A k \in Handle : Writes(k)' => p \notin dirty'[k] \ todo'[k]
                         /\ file'[p] = Committed'[p]
    BY DEF FileShows
  <1>1. Committed' = Committed
    BY DEF Frame, Committed
  <1>2. \A k \in Handle \ {h} : /\ Writes(k)' <=> Writes(k)
                                /\ dirty'[k] = dirty[k] /\ todo'[k] = todo[k] /\ cache'[k] = cache[k]
    BY DEF Frame, Writes
  <1>3. CASE \E k \in Handle : Writes(k) /\ p \in dirty[k] \ todo[k] /\ file[p] = cache[k][p]
    BY <1>2, <1>3
  <1>4. CASE /\ \A k \in Handle : Writes(k) => p \notin dirty[k] \ todo[k]
             /\ file[p] = Committed[p]
    BY <1>1, <1>2, <1>4
  <1> QED BY <1>3, <1>4 DEF VInv, FileShows

\* A read finds the file as the last commit left it.
LEMMA ReadsCommitted ==
  ASSUME IInv, SInv, VInv, NEW h \in Handle, h \in open, Reads(h), NEW p \in Page
  PROVE  file[p] = Committed[p]
  <1>1. ~Writes(h)
    BY DEF Reads, Writes
  <1>2. ASSUME NEW k \in Handle, k # h, Writes(k) PROVE FALSE
    <2>1. k \in open
      BY <1>2 DEF IInv, RoleShown, Writes
    <2>2. pc[k] # "alone" \/ open = {k}
      BY DEF SInv, Sole, InScope, ScopeStages
    <2>3. pc[k] \in Section
      BY <1>2, <2>2 DEF Writes, Section
    <2>4. ~guard[h] /\ cursor[h] # "guarded"
      BY <1>2, <2>3 DEF SInv, SectionAlone
    <2>5. open = {h}
      BY <2>4 DEF SInv, Sole, InScope, ScopeStages, Reads, ScopeTypes
    <2> QED BY <1>2, <2>1, <2>5
  <1> QED BY <1>1, <1>2 DEF VInv, FileShows
\* Such a step keeps the invariant.
LEMMA StillVInv == ASSUME VInv, NEW h \in Handle, Still(h), ViewTypes' PROVE VInv'
  <1>1. Frame(h) /\ file' = file /\ ~Writes(h) /\ (Writes(h)' => todo'[h] = dirty'[h])
    BY DEF Still, Writes
  <1>2. FileShows'
    BY <1>1, FileKept
  <1>3. \A k \in Handle : View(k)'
    BY <1>1, OtherViews, StillView
  <1> QED BY <1>2, <1>3 DEF VInv

LEMMA StillSteps ==
  ASSUME IInv, SInv, VInv, Events = {}, NEW h \in Handle
  PROVE  /\ \A o \in Statements : Start(h, o) => Still(h)
         /\ Publish(h) \/ RefuseLease(h) \/ TakeExclusive(h) => Still(h)
         /\ EnterScope(h) \/ RefuseScope(h) => Still(h)
         /\ EndRead(h) \/ EndWrite(h) \/ Begin(h) \/ Commit(h) => Still(h)
         /\ FlushBegin(h) \/ CommitAsk(h) \/ CommitEnter(h) \/ CheckView(h) \/ CommitExit(h) => Still(h)
         /\ LeaveScope(h) \/ CloseCursor(h) => Still(h)
  <1>0. /\ pc[h] # "idle" => h \in open
        /\ cursor[h] # "none" => h \in open
        /\ pc \in [Handle -> Stages] /\ op \in [Handle -> Statements]
        /\ inTxn \in [Handle -> BOOLEAN] /\ todo \in [Handle -> SUBSET Page]
        /\ NeedsLatest(h) => seen[h] = gen
        /\ pc[h] \in Flushing => dirty[h] # {} /\ op[h] \in {"write", "step", "commit"}
        /\ pc[h] \in {"commit", "wait", "check"} => todo[h] = dirty[h]
    BY DEF IInv, RoleTypes, RoleShown, SInv, Accounts, VInv, ViewTypes, View
  <1> USE DEF Still, Frame, NeedsLatest, Changing, Fixed, Writes, Flushing, ScopeStages, IsWrite, sharedVars
  <1>1. ASSUME NEW o \in Statements, Start(h, o) PROVE Still(h)
    BY <1>0, <1>1 DEF Start, FirstStage
  <1>2. CASE Publish(h)
    BY <1>0, <1>2 DEF Publish
  <1>3. CASE RefuseLease(h)
    BY <1>0, <1>3 DEF RefuseLease
  <1>4. CASE TakeExclusive(h)
    BY <1>0, <1>4 DEF TakeExclusive
  <1>5. CASE EnterScope(h)
    BY <1>0, <1>5 DEF EnterScope
  <1>6. CASE RefuseScope(h)
    BY <1>0, <1>6 DEF RefuseScope, Abandon
  <1>7. CASE EndRead(h)
    BY <1>0, <1>7 DEF EndRead
  <1>8. CASE EndWrite(h)
    BY <1>0, <1>8 DEF EndWrite, Leaving
  <1>9. CASE Begin(h)
    BY <1>0, <1>9 DEF Begin
  <1>10. CASE Commit(h)
    <2>1. ~PeerConflict(h)
      BY <1>0 DEF PeerConflict
    <2> QED BY <1>0, <1>10, <2>1 DEF Commit
  <1>11. CASE FlushBegin(h)
    BY <1>0, <1>11 DEF FlushBegin
  <1>12. CASE CommitAsk(h)
    BY <1>0, <1>12 DEF CommitAsk
  <1>13. CASE CommitEnter(h)
    BY <1>0, <1>13 DEF CommitEnter
  <1>14. CASE CheckView(h)
    BY <1>0, <1>14 DEF CheckView
  <1>15. CASE CommitExit(h)
    BY <1>0, <1>15 DEF CommitExit, Leaving
  <1>16. CASE LeaveScope(h)
    BY <1>0, <1>16 DEF LeaveScope
  <1>17. CASE CloseCursor(h)
    BY <1>0, <1>17 DEF CloseCursor
  <1> QED
    BY <1>1, <1>2, <1>3, <1>4, <1>5, <1>6, <1>7, <1>8, <1>9, <1>10, <1>11, <1>12, <1>13,
       <1>14, <1>15, <1>16, <1>17

\* The types of what is seen.
LEMMA LastState == ASSUME ViewTypes PROVE Committed \in [Page -> Nat] /\ Len(published) \in Nat \ {0}
  BY DEF ViewTypes, Committed

LEMMA ViewTypesStep == ASSUME IInv, VInv, [Next]_vars PROVE ViewTypes'
  <1>0. ViewTypes /\ EmptyCache \in [Page -> Nat] /\ dirty \in [Handle -> SUBSET Page]
    BY DEF VInv, EmptyCache, Miss, IInv, RoleTypes
  <1>1. CASE UNCHANGED vars
    BY <1>0, <1>1 DEF vars, ViewTypes
  <1>2. ASSUME NEW h \in Handle, HandleStep(h) PROVE ViewTypes'
    <2>0. Restored(h) \in [Page -> Nat]
      BY <1>0 DEF Restored, ViewTypes
    <2> USE DEF ViewTypes, sharedVars
    <2>1. CASE Open(h)
      BY <1>0, <2>1 DEF Open
    <2>2. CASE Close(h)
      BY <1>0, <2>2 DEF Close
    <2>3. CASE \E o \in Statements : Start(h, o)
      BY <1>0, <2>3 DEF Start
    <2>4. CASE Publish(h) \/ RefuseLease(h) \/ TakeExclusive(h) \/ EnterScope(h) \/ RefuseScope(h)
      BY <1>0, <2>4 DEF Publish, RefuseLease, TakeExclusive, EnterScope, RefuseScope
    <2>5. CASE TakeLease(h)
      BY <1>0, <2>5 DEF TakeLease, Refresh
    <2>6. CASE EnterView(h)
      BY <1>0, <2>6 DEF EnterView, Refresh
    <2>7. CASE \E p \in Page : Load(h, p)
      BY <1>0, <2>7 DEF Load
    <2>8. CASE \E p \in Page : Store(h, p)
      BY <1>0, <2>8 DEF Store
    <2>9. CASE EndRead(h) \/ EndWrite(h) \/ Begin(h)
      BY <1>0, <2>9 DEF EndRead, EndWrite, Begin
    <2>10. CASE Commit(h)
      BY <1>0, <2>10 DEF Commit
    <2>11. CASE Rollback(h)
      BY <1>0, <2>0, <2>11 DEF Rollback
    <2>12. CASE FlushBegin(h)
      BY <1>0, <2>12 DEF FlushBegin
    <2>13. CASE FlushRefused(h)
      BY <1>0, <2>0, <2>13 DEF FlushRefused, FlushFails
    <2>14. CASE CommitAsk(h) \/ CommitEnter(h) \/ CommitExit(h) \/ LeaveScope(h) \/ CloseCursor(h) \/ Exit(h)
      BY <1>0, <2>14 DEF CommitAsk, CommitEnter, CommitExit, LeaveScope, CloseCursor, Exit
    <2>15. CASE CommitExpires(h)
      BY <1>0, <2>0, <2>15 DEF CommitExpires, FlushFails
    <2>16. CASE CheckView(h)
      BY <1>0, <2>0, <2>16 DEF CheckView, FlushFails
    <2>17. CASE WritePage(h)
      BY <1>0, <2>17 DEF WritePage
    <2>18. CASE Bump(h)
      <3>1. [p \in Page |-> IF p \in dirty[h] THEN cache[h][p] ELSE Committed[p]] \in [Page -> Nat]
        BY <1>0, LastState
      <3>2. published' \in Seq([Page -> Nat]) /\ published' # <<>>
        <4> DEFINE new == [p \in Page |-> IF p \in dirty[h] THEN cache[h][p] ELSE Committed[p]]
        <4>1. published' = Append(published, new) /\ new \in [Page -> Nat]
          BY <2>18, <3>1 DEF Bump
        <4>2. published \in Seq([Page -> Nat])
          BY <1>0
        <4> DEFINE States == [Page -> Nat]
        <4>3. published \in Seq(States) /\ new \in States /\ published' = Append(published, new)
          BY <4>1, <4>2
        <4> HIDE DEF new, States
        <4>4. published' \in Seq(States) /\ published' # <<>>
          BY <4>3
        <4> QED BY <4>4 DEF States
      <3>3. UNCHANGED <<clock, file, cache, pre, todo>> /\ gen' \in Nat
        BY <1>0, <2>18 DEF Bump
      <3>4. seen' \in [Handle -> Nat]
        BY <1>0, <2>18, <3>3 DEF Bump
      <3> QED BY <1>0, <3>2, <3>3, <3>4
    <2> QED
      BY <1>2, <2>1, <2>2, <2>3, <2>4, <2>5, <2>6, <2>7, <2>8, <2>9, <2>10, <2>11, <2>12,
         <2>13, <2>14, <2>15, <2>16, <2>17, <2>18 DEF HandleStep
  <1> QED BY <1>1, <1>2 DEF Next
-----------------------------------------------------------------------------
(* Steps that change what a handle has cached or marked.                   *)

\* A step whose effect on the view of h is known, and that writes no page.
LEMMA OwnVInv ==
  ASSUME VInv, NEW h \in Handle, Frame(h), file' = file, ~Writes(h), ~Writes(h)', View(h)', ViewTypes'
  PROVE  VInv'
  <1>1. FileShows'
    BY FileKept
  <1>2. \A k \in Handle : View(k)'
    BY OtherViews
  <1> QED BY <1>1, <1>2 DEF VInv

\* peer_refresh brings the view up to date whatever it was.
LEMMA RefreshView ==
  ASSUME VInv, NEW h \in Handle, h \in open, Refresh(h), Frame(h), UNCHANGED <<dirty, pre>>,
         pc'[h] \notin Flushing, Changing(h) => Changing(h)'
  PROVE  View(h)'
  <1>0. View(h) /\ ViewTypes
    BY DEF VInv
  <1>1. UNCHANGED <<open, gen, published>>
    BY DEF Frame
  <1>2. seen'[h] = gen' /\ Current(h)' /\ (dirty[h] # {} => cache'[h] = cache[h])
    <2>1. CASE Refreshes(h)
      <3>1. seen'[h] = gen /\ cache'[h] = EmptyCache /\ dirty[h] = {}
        BY <1>0, <2>1 DEF Refresh, Refreshes, ViewTypes
      <3> QED BY <1>1, <3>1 DEF Current, EmptyCache
    <2>2. CASE ~Refreshes(h)
      <3>1. UNCHANGED <<seen, cache>> /\ seen[h] = gen
        BY <1>0, <2>2 DEF Refresh, Refreshes, View, NeedsLatest
      <3>2. Current(h)
        BY <1>0, <3>1 DEF View
      <3> QED BY <1>1, <3>1, <3>2 DEF Current, Committed
    <2> QED BY <2>1, <2>2
  <1>3. seen'[h] <= gen'
    BY <1>0, <1>1, <1>2 DEF ViewTypes
  <1>4. \A p \in dirty'[h] : /\ cache'[h][p] # Miss /\ pre'[h][p] # Miss
                             /\ ~Changing(h)' => cache'[h][p] = pre'[h][p]
    BY <1>0, <1>2 DEF View
  <1> QED BY <1>1, <1>2, <1>3, <1>4 DEF View, Flushing, Writes

\* wal_write_begin.
LEMMA TakeLeaseVInv ==
  ASSUME IInv, SInv, VInv, ViewTypes', NEW h \in Handle, TakeLease(h) PROVE VInv'
  <1>0. /\ pc[h] = "lease" /\ h \in open
        /\ pc \in [Handle -> Stages] /\ op \in [Handle -> Statements]
        /\ inTxn \in [Handle -> BOOLEAN]
        /\ NeedsLatest(h) => seen[h] = gen
        /\ ViewTypes
    BY DEF TakeLease, IInv, RoleTypes, RoleShown, VInv, View
  <1>1. PICK l \in {"exclusive", "enter", "run"} :
           /\ pc' = [pc EXCEPT ![h] = l]
           /\ l = "run" => op[h] = "step"
           /\ op[h] = "step" => l = "run"
    BY DEF TakeLease, AfterRole
  <1>2. UNCHANGED <<open, gen, published, file, op, dirty, pre, todo, inTxn>>
    BY DEF TakeLease
  <1>3. CASE ~(Peers /\ inTxn[h])
    <2>1. UNCHANGED <<cache, seen>>
      BY <1>3 DEF TakeLease
    <2>2. inTxn[h] => open = {h}
      BY <1>0, <1>3, SoleIsAlone
    <2>3. Still(h)
      BY <1>0, <1>1, <1>2, <2>1, <2>2
         DEF Still, Frame, NeedsLatest, Changing, Fixed, Writes, Flushing, ScopeStages, IsWrite
    <2> QED BY <2>3, StillVInv
  <1>4. CASE Peers /\ inTxn[h]
    <2>1. Refresh(h)
      BY <1>4 DEF TakeLease
    <2>2. Frame(h)
      BY <1>0, <1>1, <1>2, <2>1 DEF Frame, Refresh, ViewTypes
    <2>3. pc'[h] \notin Flushing /\ ~Writes(h) /\ ~Writes(h)' /\ Changing(h)'
      BY <1>0, <1>1, <1>2, <1>4 DEF Flushing, Writes, Changing
    <2>4. View(h)'
      BY <1>0, <1>2, <2>1, <2>2, <2>3, RefreshView
    <2> QED BY <1>2, <2>2, <2>3, <2>4, OwnVInv
  <1> QED BY <1>3, <1>4

\* xread_scope_sql.
LEMMA EnterViewVInv ==
  ASSUME IInv, SInv, VInv, ViewTypes', NEW h \in Handle, EnterView(h) PROVE VInv'
  <1>0. /\ pc[h] = "refresh" /\ h \in open
        /\ pc \in [Handle -> Stages] /\ op \in [Handle -> Statements]
        /\ inTxn \in [Handle -> BOOLEAN]
        /\ NeedsLatest(h) => seen[h] = gen
        /\ ViewTypes
    BY DEF EnterView, IInv, RoleTypes, RoleShown, VInv, View
  <1>1. pc' = [pc EXCEPT ![h] = AfterScope(op[h])]
    BY DEF EnterView
  <1>2. UNCHANGED <<open, gen, published, file, op, dirty, pre, todo, inTxn>>
    BY DEF EnterView
  <1>3. CASE inTxn[h]
    <2>1. UNCHANGED <<cache, seen>>
      BY <1>3 DEF EnterView
    <2>2. Still(h)
      BY <1>0, <1>1, <1>2, <1>3, <2>1
         DEF Still, Frame, NeedsLatest, Changing, Fixed, Writes, Flushing, ScopeStages, IsWrite, AfterScope
    <2> QED BY <2>2, StillVInv
  <1>4. CASE ~inTxn[h]
    <2>1. Refresh(h)
      BY <1>4 DEF EnterView
    <2>2. Frame(h)
      BY <1>0, <1>1, <1>2, <2>1 DEF Frame, Refresh, ViewTypes
    <2>3. pc'[h] \notin Flushing /\ ~Writes(h) /\ ~Writes(h)' /\ ~Changing(h)
      BY <1>0, <1>1, <1>2, <1>4 DEF Flushing, Writes, Changing, AfterScope
    <2>4. View(h)'
      BY <1>0, <1>2, <2>1, <2>2, <2>3, RefreshView
    <2> QED BY <1>2, <2>2, <2>3, <2>4, OwnVInv
  <1> QED BY <1>3, <1>4

\* get_page.
LEMMA LoadVInv ==
  ASSUME IInv, SInv, VInv, ViewTypes', NEW h \in Handle, NEW p \in Page, Load(h, p) PROVE VInv'
  <1>0. View(h) /\ ViewTypes /\ h \in open
    BY DEF Load, Reads, IInv, RoleShown, VInv, SInv, Accounts
  <1>1. /\ UNCHANGED <<open, gen, published, file, pc, op, seen, dirty, pre, todo, inTxn>>
        /\ Reads(h) /\ cache[h][p] = Miss
        /\ cache' = [cache EXCEPT ![h][p] = file[p]]
    BY DEF Load, sharedVars
  <1>2. /\ cache'[h][p] = file[p] /\ \A q \in Page \ {p} : cache'[h][q] = cache[h][q]
        /\ \A k \in Handle \ {h} : cache'[k] = cache[k]
    BY <1>0, <1>1 DEF ViewTypes
  <1>3. file[p] = Committed[p]
    BY <1>0, <1>1, ReadsCommitted
  <1>4. p \notin dirty[h] /\ dirty[h] \subseteq Page
    BY <1>0, <1>1 DEF View, IInv, RoleTypes
  <1>5. Current(h) => Current(h)'
    BY <1>1, <1>2, <1>3, <1>4 DEF Current, Committed
  <1>6. \A q \in dirty[h] : cache'[h][q] = cache[h][q]
    BY <1>2, <1>4
  <1>7. /\ NeedsLatest(h)' <=> NeedsLatest(h)
        /\ Changing(h)' <=> Changing(h)
        /\ ~Writes(h) /\ ~Writes(h)'
    BY <1>1 DEF NeedsLatest, Fixed, Changing, Writes, Reads
  <1>8. View(h)'
    BY <1>0, <1>1, <1>5, <1>6, <1>7 DEF View
  <1>9. Frame(h)
    BY <1>1, <1>2 DEF Frame
  <1> QED BY <1>1, <1>7, <1>8, <1>9, OwnVInv

\* note_dirty.
LEMMA StoreVInv ==
  ASSUME IInv, SInv, VInv, ViewTypes', NEW h \in Handle, NEW p \in Page, Store(h, p) PROVE VInv'
  <1>0. View(h) /\ ViewTypes /\ h \in open /\ dirty \in [Handle -> SUBSET Page]
    BY DEF Store, IInv, RoleTypes, RoleShown, VInv
  <1>1. /\ UNCHANGED <<open, gen, published, file, pc, op, seen, todo, inTxn>>
        /\ pc[h] = "run" /\ op[h] \in {"write", "step"} /\ cache[h][p] # Miss
        /\ cache' = [cache EXCEPT ![h][p] = clock + 1]
        /\ pre' = IF p \in dirty[h] THEN pre ELSE [pre EXCEPT ![h][p] = cache[h][p]]
        /\ dirty' = [dirty EXCEPT ![h] = @ \cup {p}]
    BY DEF Store
  <1>2. /\ cache'[h][p] = clock + 1 /\ clock + 1 # Miss
        /\ \A q \in Page \ {p} : cache'[h][q] = cache[h][q]
        /\ \A k \in Handle \ {h} : cache'[k] = cache[k] /\ pre'[k] = pre[k] /\ dirty'[k] = dirty[k]
        /\ dirty'[h] = dirty[h] \cup {p}
    BY <1>0, <1>1 DEF ViewTypes, Miss
  <1>3. /\ pre'[h][p] = IF p \in dirty[h] THEN pre[h][p] ELSE cache[h][p]
        /\ \A q \in Page \ {p} : pre'[h][q] = pre[h][q]
    BY <1>0, <1>1 DEF ViewTypes
  <1>4. seen[h] = gen /\ Current(h)
    BY <1>0, <1>1 DEF View, NeedsLatest, IsWrite
  <1>5. Current(h)'
    BY <1>1, <1>2, <1>3, <1>4 DEF Current, Committed
  <1>6. Changing(h)' /\ ~Writes(h) /\ ~Writes(h)' /\ pc'[h] \notin Flushing
    BY <1>1 DEF Changing, Writes, Flushing
  <1>7. \A q \in dirty'[h] : cache'[h][q] # Miss /\ pre'[h][q] # Miss
    BY <1>0, <1>1, <1>2, <1>3 DEF View
  <1>8. View(h)'
    BY <1>0, <1>1, <1>4, <1>5, <1>6, <1>7 DEF View, Flushing
  <1>9. Frame(h)
    BY <1>1, <1>2 DEF Frame
  <1> QED BY <1>1, <1>6, <1>8, <1>9, OwnVInv
\* The pre-images are put back, or the marked pages are dropped: what is left
\* is what the view started from.
LEMMA UndoneView ==
  ASSUME VInv, NEW h \in Handle, h \in open, Frame(h), UNCHANGED <<seen, pre>>,
         dirty[h] \subseteq Page,
         \/ cache'[h] = Restored(h) /\ dirty'[h] = dirty[h]
         \/ cache'[h] = EmptyCache /\ dirty'[h] = {},
         pc'[h] \in {"leave", "exit"}, ~inTxn'[h] \/ inTxn'[h] = inTxn[h]
  PROVE  View(h)'
  <1>0. View(h) /\ ViewTypes
    BY DEF VInv
  <1>1. UNCHANGED <<open, gen, published>>
    BY DEF Frame
  <1>2. Current(h) => Current(h)'
    <2>1. CASE cache'[h] = Restored(h) /\ dirty'[h] = dirty[h]
      BY <1>1, <2>1 DEF Current, Committed, Restored
    <2>2. CASE cache'[h] = EmptyCache /\ dirty'[h] = {}
      BY <1>1, <2>2 DEF Current, EmptyCache
    <2> QED BY <2>1, <2>2
  <1>3. NeedsLatest(h)' => NeedsLatest(h)
    BY <1>1 DEF NeedsLatest, Fixed, ScopeStages
  <1>4. \A p \in dirty'[h] : cache'[h][p] = pre[h][p] /\ pre[h][p] # Miss
    BY <1>0 DEF View, Restored
  <1> QED BY <1>0, <1>1, <1>2, <1>3, <1>4 DEF View, Flushing, Writes

LEMMA UndoSteps ==
  ASSUME IInv, SInv, VInv, ViewTypes', Events = {}, NEW h \in Handle
  PROVE  Rollback(h) \/ FlushRefused(h) \/ CommitExpires(h) => VInv'
  <1>0. /\ pc[h] # "idle" => h \in open
        /\ dirty \in [Handle -> SUBSET Page] /\ pc \in [Handle -> Stages]
        /\ inTxn \in [Handle -> BOOLEAN]
        /\ cache \in [Handle -> [Page -> Nat]] /\ pre \in [Handle -> [Page -> Nat]]
        /\ dirty[h] \subseteq Page
    BY DEF IInv, RoleTypes, RoleShown, VInv, ViewTypes
  <1>1. CASE Rollback(h)
    <2>1. /\ UNCHANGED <<open, gen, published, file, op, seen, dirty, pre, todo>>
          /\ pc[h] = "run" /\ pc' = [pc EXCEPT ![h] = "leave"]
          /\ cache' = [cache EXCEPT ![h] = Restored(h)]
          /\ inTxn' = [inTxn EXCEPT ![h] = FALSE]
      BY <1>1 DEF Rollback, sharedVars
    <2>2. /\ Frame(h) /\ pc'[h] = "leave" /\ cache'[h] = Restored(h) /\ ~inTxn'[h] /\ h \in open
          /\ ~Writes(h) /\ ~Writes(h)'
      BY <1>0, <2>1 DEF Frame, Writes
    <2>3. View(h)'
      BY <1>0, <2>1, <2>2, UndoneView
    <2> QED BY <2>1, <2>2, <2>3, OwnVInv
  <1>2. CASE FlushRefused(h) \/ CommitExpires(h)
    <2>1. /\ UNCHANGED <<open, gen, published, file, op, seen, pre, todo, inTxn>>
          /\ pc[h] \in {"flush", "wait"} /\ LateRefusal(h) /\ FlushFails(h)
      BY <1>2 DEF FlushRefused, CommitExpires, sharedVars
    <2>2. op[h] # "commit"
      BY <2>1 DEF LateRefusal
    <2>3. \/ cache' = [cache EXCEPT ![h] = Restored(h)] /\ dirty' = dirty
          \/ cache' = [cache EXCEPT ![h] = EmptyCache] /\ dirty' = [dirty EXCEPT ![h] = {}]
      BY <2>1, <2>2 DEF FlushFails
    <2>4. /\ pc'[h] \in {"leave", "exit"} /\ \A k \in Handle \ {h} : pc'[k] = pc[k]
      BY <1>0, <2>1 DEF FlushFails, Leaving
    <2>5. /\ \/ cache'[h] = Restored(h) /\ dirty'[h] = dirty[h]
             \/ cache'[h] = EmptyCache /\ dirty'[h] = {}
          /\ \A k \in Handle \ {h} : cache'[k] = cache[k] /\ dirty'[k] = dirty[k]
      BY <1>0, <2>3
    <2>6. Frame(h) /\ h \in open /\ ~Writes(h) /\ ~Writes(h)'
      BY <1>0, <2>1, <2>4, <2>5 DEF Frame, Writes
    <2>7. View(h)'
      BY <1>0, <2>1, <2>4, <2>5, <2>6, UndoneView
    <2> QED BY <2>1, <2>6, <2>7, OwnVInv
  <1> QED BY <1>1, <1>2

\* wal_stmt_exit forgets only marks of pages that are as they were.
LEMMA ExitVInv == ASSUME IInv, SInv, VInv, ViewTypes', NEW h \in Handle, Exit(h) PROVE VInv'
  <1>0. /\ pc[h] = "exit" /\ h \in open /\ View(h)
        /\ dirty \in [Handle -> SUBSET Page] /\ pc \in [Handle -> Stages]
    BY DEF Exit, IInv, RoleTypes, RoleShown, VInv
  <1>1. /\ UNCHANGED <<open, gen, published, file, op, seen, cache, pre, todo, inTxn>>
        /\ pc' = [pc EXCEPT ![h] = IF op[h] = "step" /\ guard[h] THEN "leave" ELSE "idle"]
        /\ \/ dirty' = dirty
           \/ ~inTxn[h] /\ dirty' = [dirty EXCEPT ![h] = {}]
    BY <1>0 DEF Exit
  <1>2. Frame(h) /\ pc'[h] \in {"leave", "idle"}
    BY <1>0, <1>1 DEF Frame
  <1>3. dirty'[h] = dirty[h] \/ (~inTxn[h] /\ dirty'[h] = {})
    BY <1>0, <1>1
  <1>4. ~inTxn[h] => ~Changing(h)
    BY <1>0 DEF Changing, Flushing
  <1>5. Current(h) => Current(h)'
    BY <1>0, <1>1, <1>3, <1>4 DEF Current, Committed, View
  <1>6. NeedsLatest(h)' => NeedsLatest(h)
    BY <1>1, <1>2, <1>3 DEF NeedsLatest, Fixed, ScopeStages
  <1>7. \A p \in dirty'[h] : /\ cache'[h][p] # Miss /\ pre'[h][p] # Miss
                             /\ ~Changing(h)' => cache'[h][p] = pre'[h][p]
    BY <1>0, <1>1, <1>3, <1>4 DEF View, Changing
  <1>8. ~Writes(h) /\ ~Writes(h)' /\ pc'[h] \notin Flushing
    BY <1>0, <1>2 DEF Writes, Flushing
  <1>9. View(h)'
    BY <1>0, <1>1, <1>3, <1>5, <1>6, <1>7, <1>8 DEF View, Flushing
  <1> QED BY <1>1, <1>2, <1>8, <1>9, OwnVInv

\* flush_inner_delete_body: one page is rewritten.
LEMMA WritePageVInv == ASSUME IInv, SInv, VInv, ViewTypes', NEW h \in Handle, WritePage(h) PROVE VInv'
  <1>0. /\ Writes(h) /\ View(h) /\ ViewTypes /\ todo[h] \subseteq dirty[h]
        /\ dirty \in [Handle -> SUBSET Page]
    BY DEF WritePage, Writes, VInv, View, IInv, RoleTypes
  <1>1. PICK p \in todo[h] : /\ file' = [file EXCEPT ![p] = cache[h][p]]
                             /\ todo' = [todo EXCEPT ![h] = @ \ {p}]
    BY DEF WritePage
  <1>2. UNCHANGED <<open, gen, published, pc, op, seen, cache, dirty, pre, inTxn>>
    BY DEF WritePage
  <1>3. /\ p \in Page /\ file'[p] = cache[h][p] /\ \A q \in Page \ {p} : file'[q] = file[q]
        /\ todo'[h] = todo[h] \ {p} /\ \A k \in Handle \ {h} : todo'[k] = todo[k]
    BY <1>0, <1>1 DEF ViewTypes
  <1>4. \A k \in Handle \ {h} : ~Writes(k)
    BY <1>0 DEF IInv, OneReserved, InRole, Writes
  <1>5. FileShows'
    <2> SUFFICES ASSUME NEW q \in Page
                 PROVE  \/ \E k \in Handle : Writes(k)' /\ q \in dirty'[k] \ todo'[k] /\ file'[q] = cache'[k][q]
                        \/ /\ \A k \in Handle : Writes(k)' => q \notin dirty'[k] \ todo'[k]
                           /\ file'[q] = Committed'[q]
      BY DEF FileShows
    <2>1. CASE q = p
      <3>1. Writes(h)' /\ q \in dirty'[h] \ todo'[h] /\ file'[q] = cache'[h][q]
        BY <1>0, <1>1, <1>2, <1>3, <2>1 DEF Writes
      <3> QED BY <3>1
    <2>2. CASE q # p
      <3>1. q \in todo'[h] <=> q \in todo[h]
        BY <1>3, <2>2
      <3> QED BY <1>2, <1>3, <1>4, <2>2, <3>1 DEF VInv, FileShows, Writes, Committed
    <2> QED BY <2>1, <2>2
  <1>6. Frame(h)
    BY <1>2, <1>3 DEF Frame
  <1>7. View(h)'
    <2>1. /\ Current(h)' <=> Current(h)
          /\ NeedsLatest(h)' <=> NeedsLatest(h)
          /\ Changing(h)' <=> Changing(h)
      BY <1>2 DEF Current, Committed, NeedsLatest, Fixed, Changing
    <2> QED BY <1>0, <1>2, <1>3, <2>1 DEF View, Writes, Flushing
  <1>8. \A k \in Handle : View(k)'
    BY <1>6, <1>7, OtherViews
  <1> QED BY <1>5, <1>8 DEF VInv
\* While h writes, no other handle is where a newer commit could overtake it.
LEMMA OthersBehind ==
  ASSUME IInv, SInv, NEW h \in Handle, Writes(h), NEW k \in Handle, k # h
  PROVE  ~Fixed(k) /\ ~Writes(k) /\ ~InRole(k) /\ open # {k} /\ cursor[k] = "none"
  <1>1. InRole(h) /\ h \in open
    BY DEF InRole, Writes, IInv, RoleShown
  <1>2. ~InRole(k) /\ ~Writes(k)
    BY <1>1 DEF IInv, OneReserved, InRole, Writes
  <1>3. k \notin open => pc[k] = "idle" /\ cursor[k] = "none"
    BY DEF IInv, RoleShown, SInv, Accounts
  <1>4. k \in open => ~guard[k] /\ cursor[k] # "guarded"
    <2>1. pc[h] = "alone" => open = {h}
      BY DEF SInv, Sole, InScope, ScopeStages
    <2> QED BY <2>1 DEF SInv, SectionAlone, Section, Writes
  <1>5. cursor[k] = "none"
    BY <1>1, <1>3, <1>4 DEF SInv, Sole, ScopeTypes
  <1>6. ~Fixed(k)
    BY <1>1, <1>3, <1>4 DEF Fixed, SInv, Sole, InScope, ScopeStages
  <1> QED BY <1>1, <1>2, <1>5, <1>6

\* bump: the commit becomes the state every later view has to show.
LEMMA BumpVInv == ASSUME IInv, SInv, VInv, ViewTypes', NEW h \in Handle, Bump(h) PROVE VInv'
  <1>0. /\ Writes(h) /\ View(h) /\ ViewTypes /\ h \in open
        /\ dirty \in [Handle -> SUBSET Page] /\ pc \in [Handle -> Stages]
    BY DEF Bump, Writes, VInv, IInv, RoleTypes, RoleShown
  <1>1. /\ UNCHANGED <<open, file, op, cache, pre, todo, inTxn>>
        /\ todo[h] = {} /\ gen' = gen + 1
        /\ dirty' = [dirty EXCEPT ![h] = {}] /\ seen' = [seen EXCEPT ![h] = gen']
        /\ pc' = [pc EXCEPT ![h] = IF @ = "body" THEN "release" ELSE Leaving(op[h])]
    BY DEF Bump
  <1>2. /\ dirty'[h] = {} /\ seen'[h] = gen' /\ pc'[h] \in {"release", "leave", "exit"}
        /\ \A k \in Handle \ {h} : dirty'[k] = dirty[k] /\ seen'[k] = seen[k] /\ pc'[k] = pc[k]
    BY <1>0, <1>1 DEF Leaving, ViewTypes
  <1>3. \A p \in Page : Committed'[p] = IF p \in dirty[h] THEN cache[h][p] ELSE Committed[p]
    <2> DEFINE new == [p \in Page |-> IF p \in dirty[h] THEN cache[h][p] ELSE Committed[p]]
    <2>1. published' = Append(published, new)
      BY DEF Bump
    <2>2. Committed' = new
      <3> HIDE DEF new
      <3>1. Len(published') = Len(published) + 1 /\ published'[Len(published) + 1] = new
        BY <1>0, <2>1 DEF ViewTypes
      <3> QED BY <3>1 DEF Committed
    <2> QED BY <2>2
  <1>4. \A k \in Handle \ {h} :
           ~Fixed(k) /\ ~Writes(k) /\ ~InRole(k) /\ open # {k} /\ cursor[k] = "none"
    BY <1>0, OthersBehind
  <1>5. FileShows'
    <2>1. \A k \in Handle : ~Writes(k)'
      BY <1>2, <1>4 DEF Writes
    <2>2. ASSUME NEW p \in Page PROVE file'[p] = Committed'[p]
      BY <1>0, <1>1, <1>3, <1>4 DEF VInv, FileShows
    <2> QED BY <2>1, <2>2 DEF FileShows
  <1>6. View(h)'
    <2>1. Current(h)
      BY <1>0 DEF View, NeedsLatest, Writes, Flushing
    <2>2. Current(h)'
      BY <1>1, <1>2, <1>3, <2>1 DEF Current
    <2>3. gen' \in Nat /\ seen'[h] <= gen'
      BY <1>0, <1>1, <1>2 DEF ViewTypes
    <2> QED BY <1>0, <1>1, <1>2, <2>2, <2>3 DEF View, Writes, Flushing
  <1>7. ASSUME NEW k \in Handle, k # h PROVE View(k)'
    <2>1. View(k) /\ dirty'[k] = dirty[k] /\ seen'[k] = seen[k] /\ pc'[k] = pc[k] /\ k \in Handle \ {h}
      BY <1>2, <1>7 DEF VInv
    <2>2. k \in open => seen'[k] < gen'
      BY <1>0, <1>1, <2>1 DEF View, ViewTypes
    <2>3. ~NeedsLatest(k)'
      <3>1. dirty[k] = {} /\ ~(pc[k] = "run" /\ IsWrite(op[k]))
            /\ ~(pc[k] \in {"exclusive", "enter", "refresh"} /\ IsWrite(op[k]) /\ op[k] # "step")
        BY <1>4, <2>1 DEF InRole
      <3>2. ~Fixed(k)' /\ open' # {k}
        BY <1>1, <1>4, <2>1 DEF Fixed
      <3> QED BY <1>1, <2>1, <3>1, <3>2 DEF NeedsLatest
    <2>4. dirty'[k] = {} /\ ~Writes(k)' /\ pc'[k] \notin Flushing
      BY <1>4, <2>1 DEF InRole, Writes, Flushing
    <2>5. k \in open => seen'[k] # gen' /\ seen'[k] <= gen'
      BY <1>0, <1>1, <2>1, <2>2 DEF ViewTypes
    <2> QED BY <1>1, <2>1, <2>3, <2>4, <2>5 DEF View, Flushing
  <1> QED BY <1>5, <1>6, <1>7 DEF VInv

\* Pager::open and the drop of a handle.
LEMMA OpenVInv ==
  ASSUME IInv, SInv, VInv, ViewTypes', Events = {}, NEW h \in Handle, Open(h) PROVE VInv'
  <1>0. ViewTypes /\ h \notin open /\ open \subseteq Handle
    BY DEF VInv, Open, IInv, RoleTypes
  <1>1. /\ UNCHANGED <<published, file, pc, op, dirty, pre, todo, inTxn>>
        /\ open' = open \cup {h} /\ gen' = (IF open = {} THEN 0 ELSE gen)
        /\ seen' = [seen EXCEPT ![h] = gen'] /\ cache' = [cache EXCEPT ![h] = EmptyCache]
        /\ \A k \in open : pc[k] = "idle"
    BY DEF Open, OpensQuietly
  <1>2. /\ seen'[h] = gen' /\ cache'[h] = EmptyCache
        /\ \A k \in Handle \ {h} : seen'[k] = seen[k] /\ cache'[k] = cache[k]
    BY <1>0, <1>1 DEF ViewTypes
  <1>3. \A k \in Handle : pc[k] = "idle"
    BY <1>1 DEF IInv, RoleShown
  <1>4. FileShows'
    <2>1. \A k \in Handle : ~Writes(k) /\ ~Writes(k)'
      BY <1>1, <1>3 DEF Writes
    <2> QED BY <1>1, <2>1 DEF VInv, FileShows, Committed
  <1>5. View(h)'
    <2>1. View(h)
      BY DEF VInv
    <2>2. ~inTxn[h] /\ dirty[h] = {}
      BY <1>0, <2>1 DEF View
    <2>3. Current(h)'
      BY <1>1, <1>2, <2>2 DEF Current, EmptyCache
    <2>4. ~NeedsLatest(h)'
      BY <1>1, <1>3, <2>2 DEF NeedsLatest, Fixed, ScopeStages
    <2>5. gen' \in Nat /\ seen'[h] <= gen'
      BY <1>0, <1>1, <1>2 DEF ViewTypes
    <2> QED BY <1>1, <1>2, <1>3, <2>2, <2>3, <2>4, <2>5 DEF View, Writes, Flushing
  <1>6. ASSUME NEW k \in Handle, k # h PROVE View(k)'
    <2>1. View(k) /\ seen'[k] = seen[k] /\ cache'[k] = cache[k] /\ pc[k] = "idle"
      BY <1>2, <1>3, <1>6 DEF VInv
    <2>2. ~Fixed(k)' /\ pc'[k] \notin Flushing /\ ~Writes(k)'
      BY <1>1, <2>1 DEF Fixed, ScopeStages, Flushing, Writes
    <2>3. NeedsLatest(k)' => dirty[k] # {}
      BY <1>1, <1>6, <2>1, <2>2 DEF NeedsLatest
    <2>4. k \in open => gen' = gen
      BY <1>1
    <2>5. Current(k)' <=> Current(k)
      BY <1>1, <2>1 DEF Current, Committed
    <2>6. dirty[k] # {} => k \in open /\ seen[k] = gen
      BY <2>1 DEF View, NeedsLatest
    <2>7. Changing(k)' <=> Changing(k)
      BY <1>1 DEF Changing
    <2> QED BY <1>1, <1>6, <2>1, <2>2, <2>3, <2>4, <2>5, <2>6, <2>7 DEF View, Flushing
  <1> QED BY <1>4, <1>5, <1>6 DEF VInv

LEMMA CloseVInv ==
  ASSUME IInv, SInv, VInv, ViewTypes', Events = {}, NEW h \in Handle, Close(h) PROVE VInv'
  <1>0. ViewTypes /\ dirty \in [Handle -> SUBSET Page] /\ inTxn \in [Handle -> BOOLEAN]
    BY DEF VInv, IInv, RoleTypes
  <1>1. /\ UNCHANGED <<gen, published, file, pc, op, seen, pre, todo>>
        /\ open' = open \ {h} /\ pc[h] = "idle"
        /\ dirty' = [dirty EXCEPT ![h] = {}] /\ cache' = [cache EXCEPT ![h] = EmptyCache]
        /\ inTxn' = [inTxn EXCEPT ![h] = FALSE]
        /\ \A k \in open \ {h} : ~inTxn[k]
    BY DEF Close, ClosesQuietly, Others
  <1>2. /\ dirty'[h] = {} /\ ~inTxn'[h]
        /\ \A k \in Handle \ {h} : dirty'[k] = dirty[k] /\ cache'[k] = cache[k] /\ inTxn'[k] = inTxn[k]
    BY <1>0, <1>1 DEF ViewTypes
  <1>3. ~Writes(h) /\ \A k \in Handle : Writes(k)' <=> Writes(k)
    BY <1>1 DEF Writes
  <1>4. FileShows'
    <2>1. Committed' = Committed
      BY <1>1 DEF Committed
    <2> QED BY <1>1, <1>2, <1>3, <2>1 DEF VInv, FileShows
  <1>5. View(h)'
    <2>1. ~NeedsLatest(h)'
      BY <1>1, <1>2 DEF NeedsLatest, Fixed, ScopeStages
    <2> QED BY <1>1, <1>2, <1>3, <2>1 DEF View, Flushing
  <1>6. ASSUME NEW k \in Handle, k # h PROVE View(k)'
    <2>1. View(k) /\ dirty'[k] = dirty[k] /\ cache'[k] = cache[k] /\ inTxn'[k] = inTxn[k] /\ ~inTxn[k]
      BY <1>1, <1>2, <1>6 DEF VInv, View
    <2>2. Current(k)' <=> Current(k)
      BY <1>1, <2>1 DEF Current, Committed
    <2>3. NeedsLatest(k)' => NeedsLatest(k)
      BY <1>1, <2>1 DEF NeedsLatest, Fixed
    <2>4. (Changing(k)' <=> Changing(k)) /\ (Writes(k)' <=> Writes(k))
      BY <1>1, <2>1 DEF Changing, Writes
    <2> QED BY <1>1, <1>6, <2>1, <2>2, <2>3, <2>4 DEF View
  <1> QED BY <1>4, <1>5, <1>6 DEF VInv
LEMMA InitVInv == Init => VInv
  <1> SUFFICES ASSUME Init PROVE VInv
    OBVIOUS
  <1>1. gen = 0 /\ clock = Seed /\ seen = [h \in Handle |-> 0] /\ todo = [h \in Handle |-> {}]
    BY DEF Init
  <1>2. /\ file = [p \in Page |-> Seed] /\ published = <<[p \in Page |-> Seed]>>
        /\ cache = [h \in Handle |-> EmptyCache] /\ pre = [h \in Handle |-> EmptyCache]
    BY DEF Init
  <1>3. EmptyCache \in [Page -> Nat] /\ [p \in Page |-> Seed] \in [Page -> Nat]
    BY DEF EmptyCache, Miss, Seed
  <1>4. ViewTypes
    <2>1. gen \in Nat /\ clock \in Nat /\ seen \in [Handle -> Nat] /\ todo \in [Handle -> SUBSET Page]
      BY <1>1 DEF Seed
    <2>2. file \in [Page -> Nat] /\ cache \in [Handle -> [Page -> Nat]] /\ pre \in [Handle -> [Page -> Nat]]
      BY <1>2, <1>3
    <2>3. published \in Seq([Page -> Nat]) /\ published # <<>>
      BY <1>2, <1>3
    <2> QED BY <2>1, <2>2, <2>3 DEF ViewTypes
  <1>5. ASSUME NEW h \in Handle
        PROVE  pc[h] = "idle" /\ ~inTxn[h] /\ dirty[h] = {} /\ h \notin open
    BY DEF Init
  <1>6. \A h \in Handle : View(h)
    BY <1>5 DEF View, NeedsLatest, Fixed, ScopeStages, Writes, Flushing
  <1>7. FileShows
    <2>1. Committed = file
      BY <1>2 DEF Committed
    <2> QED BY <1>5, <2>1 DEF FileShows, Writes
  <1> QED BY <1>4, <1>6, <1>7 DEF VInv

LEMMA NextVInv == ASSUME Events = {}, IInv, SInv, VInv, [Next]_vars PROVE VInv'
  <1>0. ViewTypes'
    BY ViewTypesStep
  <1>1. CASE UNCHANGED vars
    <2>1. Committed' = Committed
      BY <1>1 DEF vars, Committed
    <2>2. FileShows'
      BY <1>1, <2>1 DEF vars, VInv, FileShows, Writes
    <2>3. ASSUME NEW h \in Handle PROVE View(h)'
      <3>1. (Current(h)' <=> Current(h)) /\ (NeedsLatest(h)' <=> NeedsLatest(h)) /\ (Changing(h)' <=> Changing(h))
        BY <1>1, <2>1 DEF vars, Current, NeedsLatest, Fixed, Changing
      <3> QED BY <1>1, <3>1 DEF vars, VInv, View, Writes
    <2> QED BY <1>0, <2>2, <2>3 DEF VInv
  <1>2. ASSUME NEW h \in Handle, HandleStep(h) PROVE VInv'
    <2>1. ASSUME Still(h) PROVE VInv'
      BY <1>0, <2>1, StillVInv
    <2>2. CASE \/ \E o \in Statements : Start(h, o)
               \/ Publish(h) \/ RefuseLease(h) \/ TakeExclusive(h)
               \/ EnterScope(h) \/ RefuseScope(h)
               \/ EndRead(h) \/ EndWrite(h) \/ Begin(h) \/ Commit(h)
               \/ FlushBegin(h) \/ CommitAsk(h) \/ CommitEnter(h) \/ CheckView(h) \/ CommitExit(h)
               \/ LeaveScope(h) \/ CloseCursor(h)
      BY <2>1, <2>2, StillSteps
    <2>3. CASE Open(h) \/ Close(h)
      BY <1>0, <2>3, OpenVInv, CloseVInv
    <2>4. CASE TakeLease(h) \/ EnterView(h)
      BY <1>0, <2>4, TakeLeaseVInv, EnterViewVInv
    <2>5. CASE \E p \in Page : Load(h, p) \/ Store(h, p)
      BY <1>0, <2>5, LoadVInv, StoreVInv
    <2>6. CASE Rollback(h) \/ FlushRefused(h) \/ CommitExpires(h)
      BY <1>0, <2>6, UndoSteps
    <2>7. CASE WritePage(h) \/ Bump(h) \/ Exit(h)
      BY <1>0, <2>7, WritePageVInv, BumpVInv, ExitVInv
    <2> QED BY <1>2, <2>2, <2>3, <2>4, <2>5, <2>6, <2>7 DEF HandleStep
  <1> QED BY <1>1, <1>2 DEF Next

-----------------------------------------------------------------------------
(* The theorems.                                                           *)

\* The three invariants together.
PInv == IInv /\ SInv /\ VInv

LEMMA InitPInv == Init => PInv
  BY InitIInv, InitSInv, InitVInv DEF PInv

LEMMA NextPInv == ASSUME Events = {} PROVE PInv /\ [Next]_vars => PInv'
  BY NextIInv, NextSInv, NextVInv DEF PInv

\* Who writes pages started from the last commit.
LEMMA WriterIsCurrent == ASSUME PInv, NEW h \in Handle, Writes(h) PROVE Current(h)
  <1>1. View(h) /\ h \in open
    BY DEF PInv, VInv, IInv, RoleShown, Writes
  <1>2. dirty[h] # {}
    BY <1>1 DEF View, Writes, Flushing
  <1> QED BY <1>1, <1>2 DEF View, NeedsLatest

\* peer.rs, "fails ... instead of overwriting": a commit replaces no page that
\* another handle committed after this one had read it, for any handles, pages
\* and statements, where handles come and go between statements.
THEOREM NoUpdateIsLost == ASSUME Events = {} PROVE Spec => NoLostUpdate
  <1>1. ASSUME PInv, [Next]_vars
        PROVE  [\A h \in Handle : Bump(h) => \A p \in dirty[h] : pre[h][p] = Committed[p]]_vars
    <2> SUFFICES ASSUME NEW h \in Handle, Bump(h), NEW p \in dirty[h] PROVE pre[h][p] = Committed[p]
      OBVIOUS
    <2>1. Current(h) /\ p \in Page
      BY <1>1, WriterIsCurrent DEF Bump, Writes, PInv, IInv, RoleTypes
    <2> QED BY <2>1 DEF Current
  <1> QED BY <1>1, InitPInv, NextPInv, PTL DEF Spec, NoLostUpdate
\* A work that opens cursors opens no transactions.
CursorsApart ==
    \A w \in Works : "cursor" \in w => w \cap {"begin", "begin_immediate", "begin_exclusive"} = {}

TxnOps == {"begin", "begin_immediate", "begin_exclusive", "commit", "rollback"}

\* Then a cursor is never older than the last commit.
CursorView(h) ==
    /\ pc[h] # "idle" => op[h] \in work
    /\ cursor[h] # "none" => "cursor" \in work /\ seen[h] = gen
    /\ "cursor" \in work => ~inTxn[h] /\ (pc[h] # "idle" => op[h] \notin TxnOps)

CInv == work \in Works /\ \A h \in Handle : CursorView(h)

\* A step of h that opens no cursor and begins nothing.
Tame(h) ==
    /\ UNCHANGED <<work, gen, op>>
    /\ \A k \in Handle \ {h} :
          pc'[k] = pc[k] /\ cursor'[k] = cursor[k] /\ inTxn'[k] = inTxn[k] /\ seen'[k] = seen[k]
    /\ pc'[h] # "idle" => pc[h] # "idle"
    /\ cursor'[h] \in {cursor[h], "none"} /\ seen'[h] \in {seen[h], gen}
    /\ inTxn'[h] => inTxn[h] \/ (pc[h] # "idle" /\ op[h] \in TxnOps)

LEMMA TameCInv == ASSUME CInv, NEW h \in Handle, Tame(h) PROVE CInv'
  <1>1. CursorView(h)'
    BY DEF CInv, CursorView, Tame
  <1>2. ASSUME NEW k \in Handle, k # h PROVE CursorView(k)'
    BY <1>2 DEF CInv, CursorView, Tame
  <1>3. (work \in Works)'
    BY DEF CInv, Tame
  <1> QED BY <1>1, <1>2, <1>3 DEF CInv

LEMMA TameSteps ==
  ASSUME PInv, NEW h \in Handle
  PROVE  /\ Close(h) \/ Publish(h) \/ TakeLease(h) \/ RefuseLease(h) \/ TakeExclusive(h) => Tame(h)
         /\ EnterScope(h) \/ RefuseScope(h) \/ EnterView(h) => Tame(h)
         /\ \A p \in Page : Load(h, p) \/ Store(h, p) => Tame(h)
         /\ EndWrite(h) \/ Begin(h) \/ Commit(h) \/ Rollback(h) => Tame(h)
         /\ FlushBegin(h) \/ FlushRefused(h) \/ CommitAsk(h) \/ CommitEnter(h) \/ CommitExpires(h) => Tame(h)
         /\ CheckView(h) \/ WritePage(h) \/ CommitExit(h) => Tame(h)
         /\ LeaveScope(h) \/ CloseCursor(h) \/ Exit(h) => Tame(h)
  <1>0. /\ pc \in [Handle -> Stages] /\ inTxn \in [Handle -> BOOLEAN] /\ seen \in [Handle -> Nat]
        /\ cursor \in [Handle -> {"none", "bare", "guarded"}]
    BY DEF PInv, IInv, RoleTypes, SInv, ScopeTypes, VInv, ViewTypes
  <1> USE DEF Tame, sharedVars, TxnOps
  <1>1. CASE Close(h) \/ Publish(h) \/ RefuseLease(h) \/ TakeExclusive(h)
    BY <1>0, <1>1 DEF Close, Publish, RefuseLease, TakeExclusive
  <1>2. CASE TakeLease(h)
    BY <1>0, <1>2 DEF TakeLease, Refresh
  <1>3. CASE EnterScope(h) \/ RefuseScope(h)
    BY <1>0, <1>3 DEF EnterScope, RefuseScope
  <1>4. CASE EnterView(h)
    BY <1>0, <1>4 DEF EnterView, Refresh
  <1>5. ASSUME NEW p \in Page, Load(h, p) \/ Store(h, p) PROVE Tame(h)
    BY <1>0, <1>5 DEF Load, Store
  <1>6. CASE EndWrite(h) \/ Begin(h) \/ Commit(h) \/ Rollback(h)
    BY <1>0, <1>6 DEF EndWrite, Begin, Commit, Rollback
  <1>7. CASE FlushBegin(h) \/ FlushRefused(h)
    BY <1>0, <1>7 DEF FlushBegin, FlushRefused, FlushFails
  <1>8. CASE CommitAsk(h) \/ CommitEnter(h) \/ CommitExpires(h)
    BY <1>0, <1>8 DEF CommitAsk, CommitEnter, CommitExpires, FlushFails
  <1>9. CASE CheckView(h) \/ WritePage(h) \/ CommitExit(h)
    BY <1>0, <1>9 DEF CheckView, FlushFails, WritePage, CommitExit
  <1>10. CASE LeaveScope(h) \/ CloseCursor(h) \/ Exit(h)
    BY <1>0, <1>10 DEF LeaveScope, CloseCursor, Exit
  <1> QED BY <1>1, <1>2, <1>3, <1>4, <1>5, <1>6, <1>7, <1>8, <1>9, <1>10

LEMMA NextCInv == ASSUME Events = {}, CursorsApart, PInv, CInv, [Next]_vars PROVE CInv'
  <1>0. /\ pc \in [Handle -> Stages] /\ op \in [Handle -> Statements]
        /\ inTxn \in [Handle -> BOOLEAN] /\ seen \in [Handle -> Nat]
        /\ cursor \in [Handle -> {"none", "bare", "guarded"}]
    BY DEF PInv, IInv, RoleTypes, SInv, ScopeTypes, VInv, ViewTypes
  <1>1. CASE UNCHANGED vars
    BY <1>1 DEF vars, CInv, CursorView
  <1>2. ASSUME NEW h \in Handle, HandleStep(h) PROVE CInv'
    <2>1. ASSUME Tame(h) PROVE CInv'
      BY <2>1, TameCInv
    <2>2. ASSUME NEW o \in Statements, Start(h, o) PROVE CInv'
      <3>1. /\ UNCHANGED <<work, gen, cursor, inTxn, seen>> /\ o \in work
            /\ pc'[h] # "idle" /\ op'[h] = o
            /\ \A k \in Handle \ {h} : pc'[k] = pc[k] /\ op'[k] = op[k]
            /\ o \in {"commit", "rollback"} => inTxn[h]
        BY <1>0, <2>2 DEF Start, FirstStage, sharedVars
      <3>2. "cursor" \in work => o \notin TxnOps
        BY <3>1 DEF CInv, CursorView, CursorsApart, TxnOps
      <3>3. \A k \in Handle : CursorView(k)'
        BY <3>1, <3>2 DEF CInv, CursorView
      <3> QED BY <3>1, <3>3 DEF CInv
    <2>3. CASE EndRead(h)
      <3>1. /\ UNCHANGED <<work, gen, op, inTxn, seen>> /\ pc[h] = "run"
            /\ \A k \in Handle \ {h} : pc'[k] = pc[k] /\ cursor'[k] = cursor[k]
            /\ cursor'[h] # cursor[h] => op[h] = "cursor"
        BY <1>0, <2>3 DEF EndRead, sharedVars
      <3>2. op[h] = "cursor" => "cursor" \in work /\ seen[h] = gen
        <4>1. op[h] = "cursor" => "cursor" \in work /\ ~inTxn[h]
          BY <3>1 DEF CInv, CursorView
        <4> QED BY <3>1, <4>1 DEF PInv, VInv, View, NeedsLatest, Fixed, ScopeStages
      <3>3. CursorView(h)'
        BY <3>1, <3>2 DEF CInv, CursorView
      <3>4. \A k \in Handle \ {h} : CursorView(k)'
        BY <3>1 DEF CInv, CursorView
      <3> QED BY <3>1, <3>3, <3>4 DEF CInv
    <2>4. CASE Open(h)
      <3>1. /\ UNCHANGED <<work, pc, op, cursor, inTxn>>
            /\ \A k \in Handle \ {h} : seen'[k] = seen[k]
            /\ h \notin open /\ gen' = (IF open = {} THEN 0 ELSE gen)
        BY <1>0, <2>4 DEF Open
      <3>2. \A k \in Handle : cursor[k] # "none" => k \in open /\ k # h /\ gen' = gen
        BY <3>1 DEF PInv, SInv, Accounts
      <3> QED BY <3>1, <3>2 DEF CInv, CursorView
    <2>5. CASE Bump(h)
      <3>1. /\ UNCHANGED <<work, op, cursor, inTxn>> /\ pc[h] # "idle" /\ Writes(h)
            /\ seen'[h] = gen' /\ \A k \in Handle \ {h} : pc'[k] = pc[k]
        BY <1>0, <2>5 DEF Bump, Writes
      <3>2. \A k \in Handle \ {h} : cursor[k] = "none"
        BY <3>1, OthersBehind DEF PInv
      <3> QED BY <3>1, <3>2 DEF CInv, CursorView
    <2>6. CASE \/ Close(h) \/ Publish(h) \/ TakeLease(h) \/ RefuseLease(h) \/ TakeExclusive(h)
               \/ EnterScope(h) \/ RefuseScope(h) \/ EnterView(h)
               \/ \E p \in Page : Load(h, p) \/ Store(h, p)
               \/ EndWrite(h) \/ Begin(h) \/ Commit(h) \/ Rollback(h)
               \/ FlushBegin(h) \/ FlushRefused(h) \/ CommitAsk(h) \/ CommitEnter(h) \/ CommitExpires(h)
               \/ CheckView(h) \/ WritePage(h) \/ CommitExit(h)
               \/ LeaveScope(h) \/ CloseCursor(h) \/ Exit(h)
      BY <2>1, <2>6, TameSteps
    <2> QED BY <1>2, <2>2, <2>3, <2>4, <2>5, <2>6 DEF HandleStep
  <1> QED BY <1>1, <1>2 DEF Next

\* peer.rs, "a commit excludes peers' in-flight statements": what a statement
\* or a cursor has read outside a transaction, and what a commit was built on,
\* is the last committed state, for any handles and pages, where handles come
\* and go between statements and no cursor is stepped past its transaction.
THEOREM StatementsSeeTheLatest == ASSUME Events = {}, CursorsApart PROVE Spec => []WorksOnLatest
  <1>1. Init => PInv /\ CInv
    BY InitPInv DEF Init, CInv, CursorView
  <1>2. PInv /\ CInv /\ [Next]_vars => (PInv /\ CInv)'
    BY NextPInv, NextCInv
  <1>3. ASSUME PInv, CInv PROVE WorksOnLatest
    <2> SUFFICES ASSUME NEW h \in open, (~inTxn[h] /\ Reads(h)) \/ pc[h] \in {"body", "alone"}
                 PROVE  Shows(h, Len(published))
      BY DEF WorksOnLatest
    <2>0. h \in Handle /\ View(h) /\ CursorView(h)
      BY <1>3 DEF PInv, IInv, RoleTypes, VInv, CInv
    <2>1. CASE pc[h] \in {"body", "alone"}
      BY <1>3, <2>0, <2>1, WriterIsCurrent DEF Writes, Current, Shows, Base, Committed
    <2>2. CASE ~inTxn[h] /\ Reads(h)
      <3>1. seen[h] = gen
        BY <2>0, <2>2 DEF Reads, View, NeedsLatest, Fixed, ScopeStages, CursorView
      <3>2. Current(h)
        BY <2>0, <3>1 DEF View
      <3> QED BY <3>2 DEF Current, Shows, Base, Committed
    <2> QED BY <2>1, <2>2
  <1> QED BY <1>1, <1>2, <1>3, PTL DEF Spec
=============================================================================
