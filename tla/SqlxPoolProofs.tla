--------------------------- MODULE SqlxPoolProofs ---------------------------
(***************************************************************************)
(* The sqlx driver's pool, for any number of connections and threads and   *)
(* any clients: types, regimes, whose rows are uncommitted, what is read,  *)
(* and on whom a thread may block.                                         *)
(***************************************************************************)
EXTENDS SqlxPool, TLAPS

\* A thread is inside the driver for one of its tasks only.
OneInside ==
    \A c, d \in Conn :
        c # d /\ ThreadOf[c] = ThreadOf[d] /\ pc[c] \in Inside => pc[d] \in Away

Opening == {"begun", "flagged", "list"}
Ending == {"ended", "last", "inactive", "unlist"}

\* Who opens a concurrent transaction is in the regime and who has ended one
\* is not; the driver lists nobody else.
RegimeListed ==
    \A c \in Conn :
        /\ pc[c] \in Opening => c \in regime
        /\ pc[c] \in Ending => c \notin regime
        /\ c \in concurrent => c \in regime \/ pc[c] \in Ending

\* The engine's flags say which regime it is in, and nobody opens or ends a
\* concurrent transaction while a plain one is open.
FlagsTell ==
    FlagsTrue =>
        /\ \A d \in regime : pc[d] # "begun" => concActive
        /\ plain # NoConn => regime = {} /\ inTransaction /\ ~concActive /\ ~ReadLocked

\* Past the gate, and not yet through with the statement.
Passed == {"exec", "wait", "parked", "open", "begun", "flagged", "list", "lock"}

\* While d has its transaction open, a statement of its thread is past the
\* gate only if it needs not wait for d.
GatePassed ==
    FlagsTrue =>
        \A c, d \in Conn :
            c # d /\ ThreadOf[c] = ThreadOf[d] /\ owner = d /\ plain = d
                /\ pc[c] \in Passed /\ Gated(stmt[c])
            => stmt[c] = "read" /\ pc[c] = "exec" /\ (~dirty \/ CommittedReads)

\* The driver's record is that of the engine's transaction, all uncommitted
\* rows are its own, and its owner is not about to reset the record.
RecordTrue ==
    stained = {} =>
        /\ plain # NoConn => owner = plain
        /\ \A c \in Conn : pc[c] \in {"reset", "clean"} => plain # c
        /\ \A c \in wrote : c = plain /\ dirty
        /\ \A c \in Conn : c \in wrote <=> mine[c]
        /\ ~exposed

\* The invariant of the induction.
IInv == TypeOK /\ OneInside /\ RegimeListed /\ FlagsTell /\ GatePassed /\ RecordTrue

-----------------------------------------------------------------------------
(* Types.                                                                  *)

TaskTypes ==
    /\ pc \in [Conn -> Away \cup Inside] /\ stmt \in [Conn -> Stmts]
    /\ late \in [Conn -> BOOLEAN]
    /\ entries \subseteq {c \in Conn : pc[c] = "pending"}
    /\ gateThread \in {"scan", "sleep"}

RecordTypes ==
    /\ active \in [Conn -> BOOLEAN] /\ raw \in [Conn -> BOOLEAN]
    /\ mine \in [Conn -> BOOLEAN]
    /\ owner \in Conn \cup {NoConn} /\ dirty \in BOOLEAN /\ concurrent \subseteq Conn

EngineTypes ==
    /\ plain \in Conn \cup {NoConn} /\ ddl \in BOOLEAN /\ inTransaction \in BOOLEAN
    /\ concActive \in BOOLEAN /\ pool \in Pools
    /\ regime \subseteq Conn /\ wrote \subseteq Conn
    /\ exposed \in BOOLEAN
    /\ stained \subseteq {"joined", "second_begin", "failed_commit", "late_reset", "switched_off"}

\* TypeOK by parts.
LEMMA TypeParts ==
  /\ TypeOK <=> TaskTypes /\ RecordTypes /\ EngineTypes
  /\ TypeOK' <=> TaskTypes' /\ RecordTypes' /\ EngineTypes'
  BY DEF TypeOK, TaskTypes, RecordTypes, EngineTypes

\* A step keeps the types.
LEMMA TypeNext == TypeOK /\ [Next]_vars => TypeOK'
  <1> SUFFICES ASSUME TypeOK, [Next]_vars PROVE TypeOK'
    OBVIOUS
  <1> USE DEF Away, Inside, Calls, Stmts, taskVars, clientVars, driverVars, engineVars,
              gateVars, histVars
  <1>1. ASSUME NEW c \in Conn, NEW k \in Calls, Call(c, k) PROVE TypeOK'
    BY <1>1 DEF Call, Enters, Goto, TypeOK
  <1>2. ASSUME NEW c \in Conn, Poll(c) PROVE TypeOK'
    BY <1>2 DEF Poll, Goto, Return, Enters, TypeOK
  <1>3. ASSUME NEW c \in Conn, Register(c) PROVE TypeOK'
    BY <1>3 DEF Register, Goto, TypeOK
  <1>4. ASSUME NEW c \in Conn, Cancel(c) PROVE TypeOK'
    BY <1>4 DEF Cancel, Goto, Return, Deregistered, TypeOK
  <1>5. ASSUME NEW c \in Conn, Expire(c) PROVE TypeOK'
    BY <1>5 DEF Expire, TypeOK
  <1>6. CASE GateScan
    BY <1>6 DEF GateScan, TypeOK
  <1>7. CASE GateTimer
    BY <1>7 DEF GateTimer, TypeOK
  <1>8. ASSUME NEW c \in Conn, Read(c) PROVE TypeOK'
    <2>1. TaskTypes'
      BY <1>8, TypeParts DEF Read, Goto, Return, TaskTypes
    <2>2. RecordTypes' /\ EngineTypes'
      BY <1>8, TypeParts DEF Read, RecordTypes, EngineTypes
    <2> QED BY <2>1, <2>2, TypeParts
  <1>9. ASSUME NEW c \in Conn, PreWait(c) PROVE TypeOK'
    BY <1>9 DEF PreWait, Goto, TypeOK
  <1>10. ASSUME NEW c \in Conn, Wait(c) PROVE TypeOK'
    BY <1>10 DEF Wait, Goto, TypeOK
  <1>11. ASSUME NEW c \in Conn, Busy(c) PROVE TypeOK'
    <2>1. TaskTypes'
      BY <1>11, TypeParts DEF Busy, GiveUp, Goto, Return, TaskTypes
    <2>2. RecordTypes' /\ EngineTypes'
      BY <1>11, TypeParts DEF Busy, RecordTypes, EngineTypes
    <2> QED BY <2>1, <2>2, TypeParts
  <1>12. ASSUME NEW c \in Conn, LockRefused(c) PROVE TypeOK'
    BY <1>12 DEF LockRefused, Goto, TypeOK
  <1>13. ASSUME NEW c \in Conn, StartRefused(c) PROVE TypeOK'
    BY <1>13 DEF StartRefused, Goto, Return, TypeOK
  <1>14. ASSUME NEW c \in Conn, NEW ok \in BOOLEAN, Dml(c, ok) PROVE TypeOK'
    <2>1. TaskTypes'
      BY <1>14, TypeParts DEF Dml, WriteLock, Goto, Return, TaskTypes
    <2>2. RecordTypes'
      BY <1>14, TypeParts DEF Dml, Start, DirtyRaised, RecordTypes
    <2>3. EngineTypes'
      BY <1>14, TypeParts DEF Dml, Start, EngineTypes
    <2> QED BY <2>1, <2>2, <2>3, TypeParts
  <1>15. ASSUME NEW c \in Conn, NEW ok \in BOOLEAN, Ddl(c, ok) PROVE TypeOK'
    <2>1. TaskTypes'
      BY <1>15, TypeParts DEF Ddl, WriteLock, Goto, Return, TaskTypes
    <2>2. RecordTypes'
      BY <1>15, TypeParts DEF Ddl, Start, DirtyRaised, RecordTypes
    <2>3. EngineTypes'
      BY <1>15, TypeParts DEF Ddl, Start, EngineTypes
    <2> QED BY <2>1, <2>2, <2>3, TypeParts
  <1>16. ASSUME NEW c \in Conn, RawBegin(c) PROVE TypeOK'
    BY <1>16 DEF RawBegin, WriteLock, Notified, TypeOK
  <1>17. ASSUME NEW c \in Conn, NEW ok \in BOOLEAN, RawCommit(c, ok) PROVE TypeOK'
    <2>1. TaskTypes'
      BY <1>17, TypeParts DEF RawCommit, WriteLock, Goto, Return, TaskTypes
    <2>2. RecordTypes'
      BY <1>17, TypeParts DEF RawCommit, RecordTypes
    <2>3. EngineTypes'
      BY <1>17, TypeParts DEF RawCommit, EngineEnds, EngineTypes
    <2> QED BY <2>1, <2>2, <2>3, TypeParts
  <1>18. ASSUME NEW c \in Conn, NEW ok \in BOOLEAN, EngineCommit(c, ok) PROVE TypeOK'
    <2>1. TaskTypes'
      BY <1>18, TypeParts DEF EngineCommit, WriteLock, GiveUp, Goto, Return, TaskTypes
    <2>2. RecordTypes'
      BY <1>18, TypeParts DEF EngineCommit, RecordTypes
    <2>3. EngineTypes'
      BY <1>18, TypeParts DEF EngineCommit, EngineEnds, EngineTypes
    <2> QED BY <2>1, <2>2, <2>3, TypeParts
  <1>19. ASSUME NEW c \in Conn, EngineRollback(c) PROVE TypeOK'
    BY <1>19 DEF EngineRollback, WriteLock, EngineEnds, Goto, TypeOK
  <1>20. ASSUME NEW c \in Conn, Begin(c) PROVE TypeOK'
    BY <1>20 DEF Begin, Enters, TypeOK
  <1>21. ASSUME NEW c \in Conn, NEW k \in {"COMMIT", "ROLLBACK"}, End(c, k) PROVE TypeOK'
    <2>1. TaskTypes'
      BY <1>21, TypeParts DEF End, Enters, ConcurrentEnds, Goto, TaskTypes
    <2>2. RecordTypes' /\ EngineTypes'
      BY <1>21, TypeParts DEF End, ConcurrentEnds, RecordTypes, EngineTypes
    <2> QED BY <2>1, <2>2, TypeParts
  <1>22. ASSUME NEW c \in Conn, Release(c) PROVE TypeOK'
    BY <1>22 DEF Release, Enters, EngineEnds, Goto, TypeOK
  <1>23. ASSUME NEW c \in Conn, ResetOwner(c) PROVE TypeOK'
    BY <1>23 DEF ResetOwner, Goto, TypeOK
  <1>24. ASSUME NEW c \in Conn, ResetDirty(c) PROVE TypeOK'
    BY <1>24 DEF ResetDirty, Goto, TypeOK
  <1>25. ASSUME NEW c \in Conn, Notify(c) PROVE TypeOK'
    BY <1>25 DEF Notify, Notified, TypeOK
  <1>26. ASSUME NEW c \in Conn, OpenConcurrent(c) PROVE TypeOK'
    BY <1>26 DEF OpenConcurrent, Goto, Return, ForeignTx, PlainOpen, TypeOK
  <1>27. ASSUME NEW c \in Conn, FlagActive(c) PROVE TypeOK'
    BY <1>27 DEF FlagActive, Goto, TypeOK
  <1>28. ASSUME NEW c \in Conn, FlagTransaction(c) PROVE TypeOK'
    BY <1>28 DEF FlagTransaction, Goto, TypeOK
  <1>29. ASSUME NEW c \in Conn, FinishConcurrent(c) PROVE TypeOK'
    BY <1>29 DEF FinishConcurrent, Goto, TypeOK
  <1>30. ASSUME NEW c \in Conn, ClearActive(c) PROVE TypeOK'
    BY <1>30 DEF ClearActive, Goto, SwitchedOff, TypeOK
  <1>31. ASSUME NEW c \in Conn, ClearTransaction(c) PROVE TypeOK'
    BY <1>31 DEF ClearTransaction, Goto, SwitchedOff, TypeOK
  <1>32. ASSUME NEW c \in Conn, List(c) PROVE TypeOK'
    BY <1>32 DEF List, Notified, TypeOK
  <1>33. ASSUME NEW c \in Conn, Unlist(c) PROVE TypeOK'
    BY <1>33 DEF Unlist, Goto, TypeOK
  <1>34. CASE UNCHANGED vars
    BY <1>34 DEF vars, TypeOK
  <1> QED
    BY <1>1, <1>2, <1>3, <1>4, <1>5, <1>6, <1>7, <1>8, <1>9, <1>10, <1>11,
       <1>12, <1>13, <1>14, <1>15, <1>16, <1>17, <1>18, <1>19, <1>20, <1>21,
       <1>22, <1>23, <1>24, <1>25, <1>26, <1>27, <1>28, <1>29, <1>30, <1>31,
       <1>32, <1>33, <1>34 DEF Next, Progress

-----------------------------------------------------------------------------
(* What a step of a task does to the others.                               *)

\* A step of c moves no other task, but for waking the parked, takes back no
\* stain, and starts from outside the driver only if the thread is free (or
\* is the passing of a deadline).
Moves(c) ==
    /\ \A d \in Conn \ {c} :
          /\ stmt'[d] = stmt[d]
          /\ pc'[d] = pc[d] \/ (pc[d] = "parked" /\ pc'[d] = "wait")
    /\ pc[c] \in Away =>
          ThreadFree(c) \/ UNCHANGED <<pc, stmt, driverVars, engineVars, stained>>
    /\ stained \subseteq stained'

\* A step of c gives no other connection the engine's transaction, nor makes
\* readers wait for it.
Bystander(c) ==
    FlagsTrue' =>
        \A d \in Conn \ {c} :
            owner' = d /\ plain' = d
                => /\ owner = d /\ plain = d
                   /\ dirty' => dirty
                   /\ CommittedReads => CommittedReads'

\* The statement of c, after its own step, does not wait for a neighbour.
OwnGate(c) ==
    FlagsTrue' =>
        \A d \in Conn \ {c} :
            ThreadOf[c] = ThreadOf[d] /\ owner' = d /\ plain' = d
                /\ pc'[c] \in Passed /\ Gated(stmt'[c])
            => stmt'[c] = "read" /\ pc'[c] = "exec" /\ (~dirty' \/ CommittedReads')

\* The stains only grow.
LEMMA Unstained ==
  ASSUME NEW c \in Conn, Moves(c)
  PROVE  (FlagsTrue' => FlagsTrue) /\ (stained' = {} => stained = {})
  BY DEF Moves, FlagsTrue

\* Threads stay with one task.
LEMMA OneInsideKept ==
  ASSUME TypeOK, TypeOK', OneInside, NEW c \in Conn, Moves(c)
  PROVE  OneInside'
  <1> SUFFICES ASSUME NEW a \in Conn, NEW b \in Conn, a # b, ThreadOf[a] = ThreadOf[b],
                      pc'[a] \in Inside
               PROVE  pc'[b] \in Away
    BY DEF OneInside
  <1>1. /\ pc[a] \in Inside => pc[b] \in Away
        /\ pc[b] \in Inside => pc[a] \in Away
    BY DEF OneInside
  <1>2. pc[a] \in Away \cup Inside /\ pc[b] \in Away \cup Inside /\ pc'[b] \in Away \cup Inside
    BY DEF TypeOK
  <1>3. CASE a = c
    <2>1. pc'[b] \in Away <=> pc[b] \in Away
      BY <1>3 DEF Moves, Away
    <2>2. pc[a] \in Inside => pc'[b] \in Away
      BY <1>1, <2>1
    <2>3. pc[a] \in Away => pc'[b] \in Away
      BY <1>1, <1>2, <1>3, <2>1 DEF Moves, ThreadFree, Away, Inside
    <2> QED BY <1>2, <2>2, <2>3
  <1>4. CASE b = c
    <2>1. pc[a] \in Inside
      BY <1>4, <1>2 DEF Moves, Away, Inside
    <2>2. pc[b] \in Away /\ ~ThreadFree(b)
      BY <1>1, <2>1 DEF ThreadFree, Away, Inside
    <2> QED BY <1>4, <2>2 DEF Moves
  <1>5. CASE a # c /\ b # c
    BY <1>1, <1>2, <1>5 DEF Moves, Away, Inside
  <1> QED BY <1>3, <1>4, <1>5

\* Nobody past the gate comes to wait for a neighbour.
LEMMA GatePassedKept ==
  ASSUME IInv, TypeOK', NEW c \in Conn, Moves(c), Bystander(c), OwnGate(c)
  PROVE  GatePassed'
  <1> SUFFICES ASSUME FlagsTrue', NEW a \in Conn, NEW b \in Conn, a # b,
                      ThreadOf[a] = ThreadOf[b], owner' = b, plain' = b,
                      pc'[a] \in Passed, Gated(stmt'[a])
               PROVE  stmt'[a] = "read" /\ pc'[a] = "exec" /\ (~dirty' \/ CommittedReads')
    BY DEF GatePassed, Gated
  <1>1. CASE a = c
    BY <1>1 DEF OwnGate
  <1>2. CASE a # c
    <2>1. /\ stmt'[a] = stmt[a] /\ pc[a] \in Passed /\ Passed \subseteq Inside
          /\ pc'[a] = pc[a] \/ (pc[a] = "parked" /\ pc'[a] = "wait")
      BY <1>2 DEF Moves, Passed, Inside
    <2>2. /\ owner = b /\ plain = b
          /\ dirty' => dirty
          /\ CommittedReads => CommittedReads'
      <3>1. CASE b # c
        BY <3>1 DEF Bystander
      <3>2. CASE b = c
        <4>1. pc[b] \in Away /\ ~ThreadFree(b)
          BY <2>1 DEF IInv, OneInside, ThreadFree, Away, Inside
        <4>2. UNCHANGED <<driverVars, engineVars>>
          BY <3>2, <4>1 DEF Moves
        <4> QED BY <4>2 DEF driverVars, engineVars, CommittedReads
      <3> QED BY <3>1, <3>2
    <2>3. FlagsTrue
      BY Unstained
    <2>4. stmt[a] = "read" /\ pc[a] = "exec" /\ (~dirty \/ CommittedReads)
      BY <2>1, <2>2, <2>3 DEF IInv, GatePassed, Gated
    <2> QED BY <2>1, <2>2, <2>4
  <1> QED BY <1>1, <1>2

-----------------------------------------------------------------------------
(* Steps that leave engine and record alone.                               *)

\* What the shared part of the invariant says is kept.
Shared == RegimeListed /\ FlagsTell /\ RecordTrue

\* A step of c that changes neither the engine nor the driver's record, and
\* reads no uncommitted row.
Quiet(c) ==
    /\ UNCHANGED <<driverVars, engineVars, mine, stained>>
    /\ stained = {} => exposed' = exposed
    /\ pc[c] \notin Opening \cup Ending
    /\ pc'[c] \notin Opening \cup Ending \cup {"reset", "clean"}

\* Such a step keeps the shared part.
LEMMA QuietKeeps ==
  ASSUME IInv, TypeOK', NEW c \in Conn, Moves(c), Quiet(c)
  PROVE  Shared' /\ Bystander(c)
  <1> USE DEF Quiet, Moves, driverVars, engineVars
  <1>1. RegimeListed'
    BY DEF IInv, RegimeListed, Opening, Ending
  <1>2. FlagsTell'
    <2>1. ReadLocked' => ReadLocked
      BY DEF ReadLocked, Opening, Ending
    <2>2. \A d \in regime : pc'[d] = "begun" => pc[d] = "begun"
      BY DEF Opening, IInv, TypeOK
    <2>3. \A d \in regime : pc[d] = "begun" => pc'[d] = "begun"
      BY DEF Opening, IInv, TypeOK
    <2> QED BY <2>1, <2>2, <2>3 DEF IInv, FlagsTell, FlagsTrue
  <1>3. RecordTrue'
    BY DEF IInv, RecordTrue
  <1>4. Bystander(c)
    BY DEF Bystander, CommittedReads
  <1> QED BY <1>1, <1>2, <1>3, <1>4 DEF Shared

\* A statement past the gate goes on; a read comes from its lock's wait.
LEMMA StaysPassed ==
  ASSUME IInv, NEW c \in Conn, owner' = owner, plain' = plain, FlagsTrue' => FlagsTrue,
         stmt'[c] = stmt[c], pc[c] \in Passed, stmt[c] # "read" \/ pc[c] # "exec"
  PROVE  OwnGate(c)
  BY DEF IInv, OwnGate, GatePassed, Gated

\* A statement that is through, or not yet through the gate.
LEMMA NotPassed == ASSUME NEW c \in Conn, pc'[c] \notin Passed PROVE OwnGate(c)
  BY DEF OwnGate

\* What a quiet action of c keeps.
QuietStep(c) == Moves(c) /\ Quiet(c) /\ OwnGate(c)

\* The statements' way to the locks, and what leaves no trace.
LEMMA QuietSteps ==
  ASSUME IInv, NEW c \in Conn
  PROVE  /\ \A k \in Calls : Call(c, k) => QuietStep(c)
         /\ Poll(c) \/ Register(c) \/ Cancel(c) \/ Expire(c) => QuietStep(c)
         /\ Read(c) \/ PreWait(c) \/ Wait(c) \/ Busy(c) \/ LockRefused(c) => QuietStep(c)
         /\ StartRefused(c) \/ Begin(c) \/ Notify(c) => QuietStep(c)
  <1> TypeOK
    BY DEF IInv
  <1> USE DEF TypeOK, QuietStep, Moves, Quiet, Passed, Opening, Ending, Away, Goto, Return,
              taskVars, clientVars, driverVars, engineVars, histVars
  <1>1. ASSUME NEW k \in Calls, Call(c, k) PROVE QuietStep(c)
    <2>1. Moves(c) /\ Quiet(c)
      BY <1>1 DEF Call, Enters
    <2>2. OwnGate(c)
      BY <1>1, SqlxAssumption DEF Call, OwnGate, PassesGate, ForeignTxBlocked, ForeignTx, CommittedReads, Gated
    <2> QED BY <2>1, <2>2
  <1>2. CASE Poll(c)
    <2>1. Moves(c) /\ Quiet(c)
      BY <1>2 DEF Poll, Enters
    <2>2. OwnGate(c)
      BY <1>2, SqlxAssumption DEF Poll, OwnGate, Blocked, OnlyDirty, ForeignTxBlocked, ForeignTx
    <2> QED BY <2>1, <2>2
  <1>3. CASE Register(c)
    BY <1>3, NotPassed DEF Register
  <1>4. CASE Cancel(c)
    BY <1>4, NotPassed DEF Cancel
  <1>5. CASE Expire(c)
    BY <1>5, NotPassed DEF Expire
  <1>6. CASE Read(c)
    <2>1. Moves(c) /\ pc[c] = "exec" /\ pc'[c] \in {"idle", "wait"}
          /\ UNCHANGED <<driverVars, engineVars, mine, stained>>
      BY <1>6 DEF Read
    <2>2. ASSUME stained = {} PROVE exposed' = exposed
      <3>1. ~ForeignTxBlocked(c, TRUE) => wrote \ {c} = {}
        BY <2>2, SqlxAssumption DEF IInv, RecordTrue, ForeignTxBlocked, ForeignTx
      <3> QED BY <1>6, <3>1 DEF Read
    <2>3. OwnGate(c)
      <3>1. CASE pc'[c] = "idle"
        BY <3>1, NotPassed
      <3>2. CASE pc'[c] = "wait"
        BY <1>6, <2>1, <3>2
           DEF Read, IInv, OwnGate, GatePassed, FlagsTrue, ForeignTxBlocked, CommittedReads, Gated
      <3> QED BY <2>1, <3>1, <3>2
    <2> QED BY <2>1, <2>2, <2>3
  <1>7. CASE PreWait(c)
    <2>1. Moves(c) /\ Quiet(c)
      BY <1>7 DEF PreWait
    <2> QED BY <1>7, <2>1, StaysPassed DEF PreWait, UnderReadLock, FlagsTrue
  <1>8. CASE Wait(c)
    <2>1. Moves(c) /\ Quiet(c)
      BY <1>8 DEF Wait
    <2> QED BY <1>8, <2>1, StaysPassed DEF Wait, FlagsTrue
  <1>9. CASE Busy(c)
    <2>1. Moves(c) /\ Quiet(c)
      BY <1>9 DEF Busy, GiveUp
    <2>2. OwnGate(c)
      BY <1>9, SqlxAssumption DEF Busy, GiveUp, OwnGate
    <2> QED BY <2>1, <2>2
  <1>10. CASE LockRefused(c)
    <2>1. Moves(c) /\ Quiet(c)
      BY <1>10 DEF LockRefused
    <2> QED BY <1>10, <2>1, StaysPassed DEF LockRefused, FlagsTrue
  <1>11. CASE StartRefused(c)
    BY <1>11, NotPassed DEF StartRefused
  <1>12. CASE Begin(c)
    BY <1>12, NotPassed DEF Begin, Enters
  <1>13. CASE Notify(c)
    BY <1>13, NotPassed DEF Notify, Notified
  <1> QED
    BY <1>1, <1>2, <1>3, <1>4, <1>5, <1>6, <1>7, <1>8, <1>9, <1>10, <1>11, <1>12, <1>13

-----------------------------------------------------------------------------
(* Steps under the write lock.                                             *)

\* What every other action of c keeps.
LoudStep(c) == Moves(c) /\ Shared' /\ Bystander(c) /\ OwnGate(c)

\* Who has the write lock meets no transaction but its own, and no regime
\* that the flags do not show.
LEMMA WriterFacts ==
  ASSUME IInv, NEW c \in Conn, ~ReadLocked, GateWrite(c)
  PROVE  /\ FlagsTrue /\ plain # NoConn => owner \in {NoConn, c} /\ inTransaction
         /\ FlagsTrue /\ ~concActive => regime = {}
         /\ stained = {} => FlagsTrue
         /\ stained = {} => plain \in {NoConn, c} /\ wrote \subseteq {c}
         /\ stained = {} => \A d \in Conn : mine[d] => d = c
  <1>1. FlagsTrue /\ plain # NoConn => owner \in {NoConn, c} /\ inTransaction
    BY DEF IInv, FlagsTell, GateWrite, ForeignTx
  <1>2. FlagsTrue /\ ~concActive => regime = {}
    BY DEF IInv, TypeOK, FlagsTell, ReadLocked
  <1>3. stained = {} => FlagsTrue
    BY DEF FlagsTrue
  <1>4. stained = {} => plain \in {NoConn, c} /\ wrote \subseteq {c}
    BY <1>1, <1>3, SqlxAssumption DEF IInv, TypeOK, RecordTrue
  <1>5. stained = {} => \A d \in Conn : mine[d] => d = c
    BY <1>4 DEF IInv, RecordTrue
  <1> QED BY <1>1, <1>2, <1>3, <1>4, <1>5

\* The writer gives the transaction to nobody else.
LEMMA WriterBystander ==
  ASSUME IInv, NEW c \in Conn, ~ReadLocked, GateWrite(c), FlagsTrue' => FlagsTrue,
         plain' \in {plain, c, NoConn}, owner' \in {owner, c, NoConn}
  PROVE  Bystander(c)
  BY WriterFacts, SqlxAssumption DEF Bystander

\* A DML or DDL statement, its transaction's start included.
LEMMA WriteKeeps ==
  ASSUME IInv, TypeOK', NEW c \in Conn, Moves(c), pc[c] = "lock", pc'[c] = "idle",
         ~ReadLocked, GateWrite(c), Start(c), Starts(c) => ~concActive,
         UNCHANGED <<concurrent, regime, concActive, exposed>>,
         \/ UNCHANGED <<wrote, mine>>
         \/ stained' = {} => /\ plain' # NoConn /\ wrote' = wrote \cup {c}
                             /\ mine' = [mine EXCEPT ![c] = active[c] \/ plain' = c]
  PROVE  LoudStep(c)
  <1> USE DEF Start, Starts, DirtyRaised
  <1>1. RegimeListed'
    BY DEF IInv, RegimeListed, Moves, Opening, Ending
  <1>2. ~ReadLocked'
    BY DEF ReadLocked, Moves
  <1>3. FlagsTell'
    BY <1>2, WriterFacts, Unstained DEF IInv, TypeOK, FlagsTell, Moves
  <1>4. RecordTrue'
    <2> SUFFICES ASSUME stained' = {} PROVE RecordTrue'
      BY DEF RecordTrue
    <2>1. stained = {} /\ FlagsTrue
      BY Unstained, WriterFacts
    <2>2. Starts(c) => plain = NoConn /\ wrote = {}
      BY <2>1, SqlxAssumption DEF IInv, TypeOK, FlagsTell, RecordTrue
    <2>3. plain' # NoConn => owner' = plain' /\ plain' = c
      BY <2>1, <2>2, WriterFacts DEF IInv, RecordTrue
    <2>4. \A d \in Conn : pc'[d] \in {"reset", "clean"} => plain' # d
      BY <2>1, <2>2, <2>3 DEF IInv, RecordTrue, Moves
    <2>5. CASE UNCHANGED <<wrote, mine>>
      BY <2>1, <2>2, <2>3, <2>4, <2>5 DEF IInv, RecordTrue
    <2>6. CASE ~UNCHANGED <<wrote, mine>>
      <3>1. plain' = c /\ wrote' = wrote \cup {c} /\ mine' = [mine EXCEPT ![c] = TRUE]
        BY <2>3, <2>6
      <3>2. \A d \in wrote' : d = plain' /\ dirty'
        BY <2>1, <3>1, WriterFacts
      <3>3. \A d \in Conn : d \in wrote' <=> mine'[d]
        BY <2>1, <3>1 DEF IInv, RecordTrue, TypeOK
      <3> QED BY <2>1, <2>3, <2>4, <3>2, <3>3 DEF IInv, RecordTrue
    <2> QED BY <2>5, <2>6
  <1>5. Bystander(c)
    BY WriterBystander, Unstained
  <1>6. OwnGate(c)
    BY NotPassed DEF Passed
  <1> QED BY <1>1, <1>3, <1>4, <1>5, <1>6 DEF LoudStep, Shared

\* The engine's transaction ends, by a COMMIT, a ROLLBACK or with its
\* connection.
LEMMA EndKeeps ==
  ASSUME IInv, TypeOK', NEW c \in Conn, Moves(c), pc[c] \in {"lock", "idle"},
         pc'[c] \in {"reset", "idle"}, ~ReadLocked, GateWrite(c), EngineEnds(c),
         mine' = [mine EXCEPT ![c] = FALSE], dirty' \in {dirty, TRUE},
         UNCHANGED <<owner, concurrent, regime, concActive, exposed>>
  PROVE  LoudStep(c)
  <1> USE DEF EngineEnds
  <1>1. RegimeListed'
    BY DEF IInv, RegimeListed, Moves, Opening, Ending
  <1>2. ~ReadLocked'
    BY DEF ReadLocked, Moves
  <1>3. FlagsTell'
    BY <1>2, Unstained DEF IInv, TypeOK, FlagsTell, Moves
  <1>4. RecordTrue'
    <2> SUFFICES ASSUME stained' = {} PROVE RecordTrue'
      BY DEF RecordTrue
    <2>1. stained = {} /\ FlagsTrue
      BY Unstained, WriterFacts
    <2>2. plain' = NoConn /\ wrote' = {}
      BY <2>1, SqlxAssumption DEF IInv, TypeOK, FlagsTell, RecordTrue
    <2>3. \A d \in Conn : ~mine'[d]
      BY <2>1, WriterFacts DEF IInv, TypeOK
    <2> QED BY <2>1, <2>2, <2>3, SqlxAssumption DEF IInv, RecordTrue
  <1>5. Bystander(c)
    BY WriterBystander, Unstained
  <1>6. OwnGate(c)
    BY NotPassed DEF Passed
  <1> QED BY <1>1, <1>3, <1>4, <1>5, <1>6 DEF LoudStep, Shared

\* The statements.
LEMMA WriterSteps ==
  ASSUME IInv, TypeOK', NEW c \in Conn
  PROVE  /\ \A ok \in BOOLEAN : Dml(c, ok) \/ Ddl(c, ok) => LoudStep(c)
         /\ \A ok \in BOOLEAN : RawCommit(c, ok) \/ EngineCommit(c, ok) => LoudStep(c)
         /\ RawBegin(c) \/ EngineRollback(c) \/ Release(c) => LoudStep(c)
  <1> TypeOK
    BY DEF IInv
  <1> USE DEF WriteLock, Goto, Return, clientVars, driverVars, engineVars, histVars
  <1>1. ASSUME NEW ok \in BOOLEAN, Dml(c, ok) PROVE LoudStep(c)
    <2>1. Moves(c) /\ pc[c] = "lock" /\ pc'[c] = "idle"
      BY <1>1 DEF Dml, TypeOK, Moves, Away
    <2>2. \/ UNCHANGED <<wrote, mine>>
          \/ stained' = {} => /\ plain' # NoConn /\ wrote' = wrote \cup {c}
                              /\ mine' = [mine EXCEPT ![c] = active[c] \/ plain' = c]
      BY <1>1 DEF Dml
    <2> QED BY <1>1, <2>1, <2>2, WriteKeeps DEF Dml
  <1>2. ASSUME NEW ok \in BOOLEAN, Ddl(c, ok) PROVE LoudStep(c)
    <2>1. Moves(c) /\ pc[c] = "lock" /\ pc'[c] = "idle"
      BY <1>2 DEF Ddl, TypeOK, Moves, Away
    <2>2. \/ UNCHANGED <<wrote, mine>>
          \/ stained' = {} => /\ plain' # NoConn /\ wrote' = wrote \cup {c}
                              /\ mine' = [mine EXCEPT ![c] = active[c] \/ plain' = c]
      BY <1>2 DEF Ddl
    <2> QED BY <1>2, <2>1, <2>2, WriteKeeps DEF Ddl
  <1>3. ASSUME NEW ok \in BOOLEAN, RawCommit(c, ok) PROVE LoudStep(c)
    <2>1. Moves(c) /\ pc[c] = "lock" /\ pc'[c] \in {"reset", "idle"}
      BY <1>3 DEF RawCommit, TypeOK, Moves, Away
    <2>2. CASE ok
      BY <1>3, <2>1, <2>2, EndKeeps DEF RawCommit
    <2>3. CASE ~ok
      <3>1. /\ UNCHANGED <<plain, inTransaction, concActive, regime, concurrent, owner>>
            /\ stained' # {} /\ ~ReadLocked /\ GateWrite(c)
        BY <1>3, <2>3 DEF RawCommit
      <3>2. RegimeListed'
        BY <2>1, <3>1 DEF IInv, RegimeListed, Moves, Opening, Ending
      <3>3. FlagsTell'
        BY <2>1, <3>1, Unstained DEF IInv, TypeOK, FlagsTell, Moves, ReadLocked
      <3>4. RecordTrue'
        BY <3>1 DEF RecordTrue
      <3>5. Bystander(c)
        BY <2>1, <3>1, WriterBystander, Unstained
      <3> QED BY <2>1, <3>2, <3>3, <3>4, <3>5, NotPassed DEF LoudStep, Shared, Passed
    <2> QED BY <2>2, <2>3
  <1>4. ASSUME NEW ok \in BOOLEAN, EngineCommit(c, ok) PROVE LoudStep(c)
    <2>1. Moves(c) /\ pc[c] = "lock" /\ pc'[c] \in {"reset", "exec", "idle"}
      BY <1>4 DEF EngineCommit, GiveUp, TypeOK, Moves, Away
    <2>2. CASE ok
      <3>1. pc'[c] = "reset"
        BY <1>4, <2>2 DEF EngineCommit, TypeOK
      <3> QED BY <1>4, <2>1, <2>2, <3>1, EndKeeps DEF EngineCommit
    <2>3. CASE ~ok
      <3>1. Quiet(c) /\ (pc'[c] = "exec" => owner' = c)
        BY <1>4, <2>3 DEF EngineCommit, GiveUp, Quiet, TypeOK, Opening, Ending
      <3>2. OwnGate(c)
        BY <2>1, <3>1 DEF OwnGate, Passed
      <3> QED BY <2>1, <3>1, <3>2, QuietKeeps DEF LoudStep
    <2> QED BY <2>2, <2>3
  <1>5. CASE RawBegin(c)
    <2>1. Moves(c) /\ pc[c] = "lock" /\ pc'[c] = "idle" /\ ~ReadLocked /\ GateWrite(c)
      BY <1>5 DEF RawBegin, Notified, TypeOK, Moves, Away
    <2>2. /\ owner' = c /\ plain' \in {plain, c} /\ wrote' = wrote /\ mine' = mine
          /\ UNCHANGED <<regime, concActive, concurrent, exposed>>
          /\ wrote # {} => stained' # {}
      BY <1>5 DEF RawBegin
    <2>3. \/ plain' = plain /\ inTransaction' = inTransaction
          \/ plain' = c /\ inTransaction' = TRUE /\ ~concActive
      BY <1>5 DEF RawBegin
    <2>4. RegimeListed'
      BY <2>1, <2>2 DEF IInv, RegimeListed, Moves, Opening, Ending
    <2>5. ~ReadLocked'
      BY <2>1 DEF Moves, ReadLocked
    <2>6. FlagsTell'
      BY <2>1, <2>2, <2>3, <2>5, Unstained, WriterFacts DEF IInv, TypeOK, FlagsTell, Moves
    <2>7. RecordTrue'
      BY <2>1, <2>2, Unstained, WriterFacts DEF IInv, RecordTrue, Moves
    <2>8. Bystander(c)
      BY <2>1, <2>2, WriterBystander, Unstained
    <2> QED BY <2>1, <2>4, <2>6, <2>7, <2>8, NotPassed DEF LoudStep, Shared, Passed
  <1>6. CASE EngineRollback(c)
    <2>1. Moves(c) /\ pc[c] = "lock" /\ pc'[c] = "reset"
      BY <1>6 DEF EngineRollback, TypeOK, Moves, Away
    <2> QED BY <1>6, <2>1, EndKeeps DEF EngineRollback
  <1>7. CASE Release(c)
    <2>1. Moves(c) /\ pc[c] = "idle" /\ pc'[c] = "reset"
      BY <1>7 DEF Release, Enters, TypeOK, Moves, Away
    <2> QED BY <1>7, <2>1, EndKeeps DEF Release
  <1> QED BY <1>1, <1>2, <1>3, <1>4, <1>5, <1>6, <1>7

-----------------------------------------------------------------------------
(* The record, and the steps of concurrent transactions.                   *)

\* A step that changes nothing of the plain transaction keeps the record.
LEMMA RecordKept ==
  ASSUME IInv, NEW c \in Conn, Moves(c), pc'[c] \notin {"reset", "clean"},
         UNCHANGED <<plain, owner, dirty, wrote, mine, exposed>>
  PROVE  RecordTrue'
  BY Unstained DEF IInv, RecordTrue, Moves

\* Begin and end of a concurrent transaction meet no plain one.
LEMMA NoPlain ==
  ASSUME IInv, NEW c \in Conn, FlagsTrue,
         pc[c] \in {"begun", "flagged", "ended", "last", "inactive"}
  PROVE  plain = NoConn
  BY DEF IInv, FlagsTell, ReadLocked

\* The flags' stores, and the list.
LEMMA RegimeSteps ==
  ASSUME IInv, TypeOK', NEW c \in Conn
  PROVE  /\ OpenConcurrent(c) \/ FlagActive(c) \/ FlagTransaction(c) => LoudStep(c)
         /\ FinishConcurrent(c) \/ ClearActive(c) \/ ClearTransaction(c) => LoudStep(c)
         /\ List(c) \/ Unlist(c) => LoudStep(c)
         /\ \A k \in {"COMMIT", "ROLLBACK"} : End(c, k) => LoudStep(c)
         /\ ResetOwner(c) \/ ResetDirty(c) => LoudStep(c)
  <1> TypeOK
    BY DEF IInv
  <1> USE DEF Goto, Return, clientVars, driverVars, engineVars, histVars, Opening, Ending
  <1>1. CASE OpenConcurrent(c)
    <2>1. Moves(c) /\ pc[c] = "open"
      BY <1>1 DEF OpenConcurrent, TypeOK, Moves, Away
    <2>2. CASE ~PlainOpen /\ regime' = regime \cup {c} /\ pc'[c] = "begun" /\ stmt'[c] = stmt[c]
      <3>1. UNCHANGED <<plain, owner, dirty, wrote, mine, exposed, concurrent, concActive,
                        inTransaction, ddl>>
        BY <1>1 DEF OpenConcurrent
      <3>2. RegimeListed'
        BY <2>1, <2>2, <3>1 DEF IInv, RegimeListed, Moves
      <3>3. FlagsTell'
        BY <2>1, <2>2, <3>1, Unstained DEF IInv, TypeOK, FlagsTell, Moves, PlainOpen
      <3>4. RecordTrue' /\ OwnGate(c)
        BY <2>1, <2>2, <3>1, RecordKept, StaysPassed, Unstained DEF Passed
      <3>5. Bystander(c)
        BY <3>1 DEF Bystander, CommittedReads
      <3> QED BY <2>1, <3>2, <3>3, <3>4, <3>5 DEF LoudStep, Shared
    <2>3. CASE Quiet(c) /\ pc'[c] \in {"exec", "idle"} /\ (pc'[c] = "exec" => stmt'[c] = stmt[c])
      <3>1. OwnGate(c)
        <4>1. CASE pc'[c] = "idle"
          BY <4>1, NotPassed DEF Passed
        <4>2. CASE pc'[c] = "exec"
          BY <2>1, <2>3, <4>2, StaysPassed, Unstained DEF Quiet, Passed
        <4> QED BY <2>3, <4>1, <4>2
      <3> QED BY <2>1, <2>3, <3>1, QuietKeeps DEF LoudStep
    <2> QED BY <1>1, <2>2, <2>3 DEF OpenConcurrent, Quiet, TypeOK
  <1>2. CASE FlagActive(c)
    <2>1. Moves(c) /\ pc[c] = "begun" /\ pc'[c] = "flagged" /\ stmt'[c] = stmt[c]
      BY <1>2 DEF FlagActive, TypeOK, Moves, Away
    <2>2. /\ UNCHANGED <<plain, owner, dirty, wrote, mine, exposed, concurrent, regime,
                         inTransaction, ddl>>
          /\ concActive'
      BY <1>2 DEF FlagActive
    <2>3. RegimeListed'
      BY <2>1, <2>2 DEF IInv, RegimeListed, Moves
    <2>4. FlagsTell'
      BY <2>1, <2>2, NoPlain, Unstained DEF FlagsTell
    <2>5. RecordTrue' /\ OwnGate(c)
      BY <2>1, <2>2, RecordKept, StaysPassed, Unstained DEF Passed
    <2>6. Bystander(c)
      BY <2>1, <2>2, NoPlain, Unstained, SqlxAssumption DEF Bystander
    <2> QED BY <2>1, <2>3, <2>4, <2>5, <2>6 DEF LoudStep, Shared
  <1>3. CASE FlagTransaction(c)
    <2>1. Moves(c) /\ pc[c] = "flagged" /\ pc'[c] = "list" /\ stmt'[c] = stmt[c]
      BY <1>3 DEF FlagTransaction, TypeOK, Moves, Away
    <2>2. UNCHANGED <<plain, owner, dirty, wrote, mine, exposed, concurrent, regime, concActive>>
      BY <1>3 DEF FlagTransaction
    <2>3. RegimeListed'
      BY <2>1, <2>2 DEF IInv, RegimeListed, Moves
    <2>4. FlagsTell'
      BY <2>1, <2>2, NoPlain, Unstained DEF IInv, TypeOK, FlagsTell, Moves
    <2>5. RecordTrue' /\ OwnGate(c)
      BY <2>1, <2>2, RecordKept, StaysPassed, Unstained DEF Passed
    <2>6. Bystander(c)
      BY <2>1, <2>2, NoPlain, Unstained, SqlxAssumption DEF Bystander
    <2> QED BY <2>1, <2>3, <2>4, <2>5, <2>6 DEF LoudStep, Shared
  <1>4. CASE FinishConcurrent(c)
    <2>1. Moves(c) /\ pc[c] = "ended" /\ pc'[c] \in {"last", "unlist"} /\ stmt'[c] = stmt[c]
      BY <1>4 DEF FinishConcurrent, TypeOK, Moves, Away
    <2>2. UNCHANGED <<plain, owner, dirty, wrote, mine, exposed, concurrent, regime, concActive>>
      BY <1>4 DEF FinishConcurrent
    <2>3. RegimeListed'
      BY <2>1, <2>2 DEF IInv, RegimeListed, Moves
    <2>4. FlagsTell'
      BY <2>1, <2>2, NoPlain, Unstained DEF IInv, TypeOK, FlagsTell, Moves
    <2>5. RecordTrue' /\ OwnGate(c)
      BY <2>1, <2>2, RecordKept, NotPassed DEF Passed
    <2>6. Bystander(c)
      BY <2>1, <2>2, NoPlain, Unstained, SqlxAssumption DEF Bystander
    <2> QED BY <2>1, <2>3, <2>4, <2>5, <2>6 DEF LoudStep, Shared
  <1>5. CASE ClearActive(c)
    <2>1. Moves(c) /\ pc[c] = "last" /\ pc'[c] = "inactive"
      BY <1>5 DEF ClearActive, SwitchedOff, TypeOK, Moves, Away
    <2>2. /\ UNCHANGED <<plain, owner, dirty, wrote, mine, exposed, concurrent, regime>>
          /\ FlagsTrue' => \A d \in regime : pc[d] = "begun"
      BY <1>5 DEF ClearActive, SwitchedOff, FlagsTrue
    <2>3. RegimeListed'
      BY <2>1, <2>2 DEF IInv, RegimeListed, Moves
    <2>4. FlagsTell'
      BY <2>1, <2>2, NoPlain, Unstained DEF IInv, TypeOK, FlagsTell, Moves
    <2>5. RecordTrue' /\ OwnGate(c)
      BY <2>1, <2>2, RecordKept, NotPassed DEF Passed
    <2>6. Bystander(c)
      BY <2>1, <2>2, NoPlain, Unstained, SqlxAssumption DEF Bystander
    <2> QED BY <2>1, <2>3, <2>4, <2>5, <2>6 DEF LoudStep, Shared
  <1>6. CASE ClearTransaction(c)
    <2>1. Moves(c) /\ pc[c] = "inactive" /\ pc'[c] = "unlist"
      BY <1>6 DEF ClearTransaction, SwitchedOff, TypeOK, Moves, Away
    <2>2. UNCHANGED <<plain, owner, dirty, wrote, mine, exposed, concurrent, regime, concActive>>
      BY <1>6 DEF ClearTransaction
    <2>3. RegimeListed'
      BY <2>1, <2>2 DEF IInv, RegimeListed, Moves
    <2>4. FlagsTell'
      BY <2>1, <2>2, NoPlain, Unstained DEF IInv, TypeOK, FlagsTell, Moves
    <2>5. RecordTrue' /\ OwnGate(c)
      BY <2>1, <2>2, RecordKept, NotPassed DEF Passed
    <2>6. Bystander(c)
      BY <2>1, <2>2, NoPlain, Unstained, SqlxAssumption DEF Bystander
    <2> QED BY <2>1, <2>3, <2>4, <2>5, <2>6 DEF LoudStep, Shared
  <1>7. CASE List(c)
    <2>1. Moves(c) /\ pc[c] = "list" /\ pc'[c] = "exec" /\ stmt'[c] = stmt[c]
      BY <1>7 DEF List, Notified, TypeOK, Moves, Away
    <2>2. UNCHANGED <<plain, owner, dirty, wrote, mine, exposed, inTransaction, ddl, regime,
                      concActive>> /\ concurrent' = concurrent \cup {c}
      BY <1>7 DEF List
    <2>3. RegimeListed'
      BY <2>1, <2>2 DEF IInv, RegimeListed, Moves
    <2>4. FlagsTell'
      BY <2>1, <2>2, Unstained DEF IInv, TypeOK, FlagsTell, Moves, ReadLocked
    <2>5. RecordTrue' /\ OwnGate(c)
      BY <2>1, <2>2, RecordKept, StaysPassed, Unstained DEF Passed
    <2>6. Bystander(c)
      BY <2>2 DEF Bystander, CommittedReads
    <2> QED BY <2>1, <2>3, <2>4, <2>5, <2>6 DEF LoudStep, Shared
  <1>8. CASE Unlist(c)
    <2>1. Moves(c) /\ pc[c] = "unlist" /\ pc'[c] = "notify"
      BY <1>8 DEF Unlist, TypeOK, Moves, Away
    <2>2. UNCHANGED <<plain, owner, dirty, wrote, mine, exposed, inTransaction, ddl, regime,
                      concActive>> /\ concurrent' = concurrent \ {c}
      BY <1>8 DEF Unlist
    <2>3. RegimeListed'
      BY <2>1, <2>2 DEF IInv, RegimeListed, Moves
    <2>4. FlagsTell'
      BY <2>1, <2>2, Unstained DEF IInv, TypeOK, FlagsTell, Moves, ReadLocked
    <2>5. RecordTrue' /\ OwnGate(c)
      BY <2>1, <2>2, RecordKept, NotPassed DEF Passed
    <2>6. Bystander(c)
      BY <2>2 DEF Bystander, CommittedReads
    <2> QED BY <2>1, <2>3, <2>4, <2>5, <2>6 DEF LoudStep, Shared
  <1>9. ASSUME NEW k \in {"COMMIT", "ROLLBACK"}, End(c, k) PROVE LoudStep(c)
    <2>1. /\ Moves(c) /\ pc[c] = "idle" /\ pc'[c] \in {"ended", "exec", "idle"}
          /\ pc'[c] = "exec" => owner = c
      BY <1>9 DEF End, ConcurrentEnds, Enters, TypeOK, Moves, Away
    <2>2. UNCHANGED <<plain, owner, dirty, wrote, exposed, concurrent, inTransaction, ddl,
                      concActive, stained>>
      BY <1>9 DEF End
    <2>3. \/ c \in concurrent /\ pc'[c] = "ended" /\ regime' = regime \ {c} /\ mine' = mine
          \/ c \notin concurrent /\ pc'[c] # "ended" /\ regime' = regime
               /\ (mine' = mine \/ (owner # c /\ mine' = [mine EXCEPT ![c] = FALSE]))
      BY <1>9, <2>1 DEF End, ConcurrentEnds, TypeOK
    <2>4. RegimeListed'
      BY <2>1, <2>2, <2>3 DEF IInv, RegimeListed, Moves
    <2>5. FlagsTell'
      <3>1. FlagsTrue' /\ plain' # NoConn => pc'[c] # "ended" /\ regime' = regime
        BY <2>1, <2>2, <2>3 DEF IInv, FlagsTell, FlagsTrue, RegimeListed
      <3>2. FlagsTrue' => \A d \in regime' : pc'[d] # "begun" => concActive'
        BY <2>1, <2>2, <2>3 DEF IInv, TypeOK, FlagsTell, FlagsTrue, Moves
      <3> QED BY <2>1, <2>2, <3>1, <3>2 DEF IInv, FlagsTell, FlagsTrue, Moves, ReadLocked
    <2>6. RecordTrue'
      <3>1. stained = {} => mine' = mine
        <4>1. stained = {} /\ owner # c => mine[c] = FALSE
          BY SqlxAssumption DEF IInv, TypeOK, RecordTrue
        <4>2. mine[c] = FALSE => [mine EXCEPT ![c] = FALSE] = mine
          BY DEF TypeOK
        <4> QED BY <2>3, <4>1, <4>2
      <3> QED BY <2>1, <2>2, <3>1 DEF IInv, RecordTrue, Moves
    <2>7. Bystander(c) /\ OwnGate(c)
      BY <2>1, <2>2 DEF Bystander, CommittedReads, OwnGate, Passed
    <2> QED BY <2>1, <2>4, <2>5, <2>6, <2>7 DEF LoudStep, Shared
  <1>10. CASE ResetOwner(c)
    <2>1. Moves(c) /\ pc[c] = "reset" /\ pc'[c] = "clean"
      BY <1>10 DEF ResetOwner, TypeOK, Moves, Away
    <2>2. /\ UNCHANGED <<plain, dirty, wrote, mine, exposed, concurrent, inTransaction, ddl,
                         regime, concActive>>
          /\ owner' = NoConn
          /\ stained' = {} => owner \in {NoConn, c}
      BY <1>10 DEF ResetOwner, ForeignTx
    <2>3. RegimeListed'
      BY <2>1, <2>2 DEF IInv, RegimeListed, Moves
    <2>4. FlagsTell'
      BY <2>1, <2>2, Unstained DEF IInv, TypeOK, FlagsTell, Moves, ReadLocked
    <2>5. RecordTrue'
      BY <2>1, <2>2, Unstained, SqlxAssumption DEF IInv, TypeOK, RecordTrue, Moves
    <2>6. Bystander(c) /\ OwnGate(c)
      BY <2>2, <2>1, SqlxAssumption, NotPassed DEF Bystander, Passed
    <2> QED BY <2>1, <2>3, <2>4, <2>5, <2>6 DEF LoudStep, Shared
  <1>11. CASE ResetDirty(c)
    <2>1. Moves(c) /\ pc[c] = "clean" /\ pc'[c] = "notify"
      BY <1>11 DEF ResetDirty, TypeOK, Moves, Away
    <2>2. /\ UNCHANGED <<plain, owner, wrote, mine, exposed, concurrent, inTransaction, ddl,
                         regime, concActive>>
          /\ ~dirty'
          /\ stained' = {} => owner = NoConn
      BY <1>11 DEF ResetDirty
    <2>3. RegimeListed'
      BY <2>1, <2>2 DEF IInv, RegimeListed, Moves
    <2>4. FlagsTell'
      BY <2>1, <2>2, Unstained DEF IInv, TypeOK, FlagsTell, Moves, ReadLocked
    <2>5. RecordTrue'
      BY <2>1, <2>2, Unstained, SqlxAssumption DEF IInv, TypeOK, RecordTrue, Moves
    <2>6. Bystander(c) /\ OwnGate(c)
      BY <2>2, <2>1, NotPassed DEF Bystander, CommittedReads, Passed
    <2> QED BY <2>1, <2>3, <2>4, <2>5, <2>6 DEF LoudStep, Shared
  <1> QED BY <1>1, <1>2, <1>3, <1>4, <1>5, <1>6, <1>7, <1>8, <1>9, <1>10, <1>11

-----------------------------------------------------------------------------
(* The theorems.                                                           *)

\* The pool starts idle.
LEMMA InitIInv == Init => IInv
  <1> SUFFICES ASSUME Init PROVE IInv
    OBVIOUS
  <1> USE DEF Init
  <1>1. TypeOK
    BY DEF TypeOK, Away, Inside, Stmts, Calls
  <1>2. OneInside /\ RegimeListed
    BY DEF OneInside, RegimeListed, Away, Opening, Ending
  <1>3. FlagsTell /\ GatePassed /\ RecordTrue
    BY DEF FlagsTell, GatePassed, RecordTrue, Passed
  <1> QED BY <1>1, <1>2, <1>3 DEF IInv

\* A step of one task keeps the invariant.
LEMMA TaskKeeps ==
  ASSUME IInv, TypeOK', NEW c \in Conn, LoudStep(c) PROVE IInv'
  BY OneInsideKept, GatePassedKept DEF LoudStep, Shared, IInv

\* Every step does.
LEMMA NextIInv == IInv /\ [Next]_vars => IInv'
  <1> SUFFICES ASSUME IInv, [Next]_vars PROVE IInv'
    OBVIOUS
  <1>1. TypeOK'
    BY TypeNext DEF IInv
  <1>2. ASSUME NEW c \in Conn, QuietStep(c) PROVE LoudStep(c)
    BY <1>1, <1>2, QuietKeeps DEF QuietStep, LoudStep
  <1>3. CASE GateScan \/ GateTimer \/ UNCHANGED vars
    <2>1. /\ UNCHANGED <<stmt, driverVars, engineVars, mine, exposed, stained>>
          /\ \A d \in Conn : pc'[d] = pc[d] \/ (pc[d] = "pending" /\ pc'[d] = "woken")
      BY <1>3 DEF GateScan, GateTimer, vars, taskVars, clientVars, histVars, IInv, TypeOK
    <2> USE <2>1 DEF driverVars, engineVars
    <2>2. OneInside'
      BY DEF IInv, OneInside, Away, Inside
    <2>3. RegimeListed'
      BY DEF IInv, RegimeListed, Opening, Ending
    <2>4. FlagsTell'
      BY DEF IInv, TypeOK, FlagsTell, FlagsTrue, ReadLocked
    <2>5. GatePassed'
      BY DEF IInv, GatePassed, FlagsTrue, Passed, CommittedReads, Gated
    <2>6. RecordTrue'
      BY DEF IInv, RecordTrue
    <2> QED BY <1>1, <2>2, <2>3, <2>4, <2>5, <2>6 DEF IInv
  <1>4. ASSUME NEW c \in Conn,
               \/ \E k \in Calls : Call(c, k)
               \/ Begin(c) \/ (\E k \in {"COMMIT", "ROLLBACK"} : End(c, k)) \/ Release(c)
               \/ Cancel(c) \/ Expire(c)
               \/ Progress(c)
        PROVE  IInv'
    <2>1. QuietStep(c) \/ LoudStep(c)
      BY <1>1, <1>4, QuietSteps, WriterSteps, RegimeSteps DEF Progress
    <2> QED BY <1>1, <1>2, <2>1, TaskKeeps
  <1> QED BY <1>3, <1>4 DEF Next

\* The types, and that the gate keeps no waiter that has gone.
THEOREM TypesHold == Spec => []TypeOK
  BY InitIInv, TypeNext, PTL DEF Spec, IInv

\* The invariant holds in every behaviour.
LEMMA Inductive == Spec => []IInv
  BY InitIInv, NextIInv, PTL DEF Spec

\* A plain transaction and a concurrent one are never open together, unless
\* the end of an old regime switched off a new one.
THEOREM RegimesNeverMix == Spec => []RegimesExclude
  <1>1. IInv => RegimesExclude
    BY DEF IInv, FlagsTell, RegimesExclude
  <1> QED BY <1>1, Inductive, PTL

\* No statement that passed the async gate blocks its thread on a neighbour's
\* transaction.
THEOREM GateFreesTheThread == Spec => []OwnerKeepsItsThread
  <1>1. IInv => OwnerKeepsItsThread
    BY DEF IInv, GatePassed, OwnerKeepsItsThread, Passed
  <1> QED BY <1>1, Inductive, PTL

\* Nobody reads another connection's uncommitted rows while the record is
\* that of the engine.
THEOREM ReadsAreCommitted == Spec => []NoDirtyRead
  <1>1. IInv => NoDirtyRead
    BY DEF IInv, RecordTrue, NoDirtyRead
  <1> QED BY <1>1, Inductive, PTL

\* The engine's uncommitted rows are those of the clients that still think so.
THEOREM RowsStayWithTheirOwner == Spec => []TransactionsKeepTheirRows
  <1>1. IInv => TransactionsKeepTheirRows
    BY DEF IInv, TypeOK, RecordTrue, TransactionsKeepTheirRows
  <1> QED BY <1>1, Inductive, PTL
=============================================================================
