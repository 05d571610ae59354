------------------------------ MODULE SqlxPool ------------------------------
(***************************************************************************)
(* The sqlx driver: a pool of connections on one engine.  The engine has   *)
(* one plain transaction at a time behind one read-write lock; whose it is *)
(* the driver records beside the engine (tx_owner, tx_dirty, the set of    *)
(* concurrent transactions), and a statement that a transaction of another *)
(* connection excludes waits: first in the async gate (GateWait and the    *)
(* gate thread), then, where the gate was too early, on a condition        *)
(* variable.                                                               *)
(*                                                                         *)
(* Statements run under the engine's lock and are one step.  What the      *)
(* driver does before and after the lock is a step of its own: that is     *)
(* where the record and the engine can disagree.  A concurrent transaction *)
(* begins and ends under the read lock, so the switches of its regime are  *)
(* stored between the steps of others.                                     *)
(*                                                                         *)
(* Savepoints, raw BEGIN CONCURRENT scripts and I/O errors are left out;   *)
(* what two concurrent transactions do to each other is module Concurrent. *)
(***************************************************************************)
EXTENDS Naturals, FiniteSets

CONSTANTS
    Conn,        \* connections of the pool
    NoConn,      \* the driver's connection id 0
    ThreadOf,    \* the runtime thread each connection's task runs on
    Pools        \* pools: which connections have the option concurrent_transactions
                 \* (optimistic), what each one's client does (work)

ASSUME SqlxAssumption ==
    /\ NoConn \notin Conn
    /\ DOMAIN ThreadOf = Conn
    /\ \A p \in Pools : p.optimistic \subseteq Conn /\ DOMAIN p.work = Conn

Calls == {"read", "prepare", "dml", "ddl", "begin", "commit"}
Stmts == Calls \cup {"none", "COMMIT", "ROLLBACK"}

\* A task that is here leaves its thread to the other tasks of the runtime.
Away == {"idle", "pending", "woken"}
Inside == {"poll", "register", "exec", "wait", "parked", "open", "list", "lock",
           "reset", "clean", "unlist", "notify"} \cup {"begun", "flagged"}
          \cup {"ended", "last", "inactive"}

VARIABLES
    pc, stmt, late,              \* each task: where it is, its statement, deadline passed
    active, raw,                 \* sqlx transaction open, BEGIN script open
    owner, dirty, concurrent,    \* SharedDb: tx_owner, tx_dirty, concurrent
    plain, ddl, inTransaction,   \* engine: whose transaction, txn_has_ddl, in_transaction
    regime, concActive,          \* engine: open concurrent transactions, concurrent_active
    entries, gateThread,         \* the gate: registered waiters, its thread
    wrote, mine,                 \* whose rows are uncommitted in the engine; who thinks so
    exposed, stained,            \* a row was read before its commit; why nothing is promised
    pool                         \* one of Pools

taskVars == <<pc, stmt, late>>
clientVars == <<active, raw, mine>>
driverVars == <<owner, dirty, concurrent>>
engineVars == <<plain, ddl, inTransaction, regime, concActive, wrote>>
gateVars == <<entries, gateThread>>
histVars == <<exposed, stained, pool>>
vars == <<taskVars, clientVars, driverVars, engineVars, gateVars, histVars>>

(***************************************************************************)
(* What the driver asks of its record.                                     *)
(***************************************************************************)
ForeignTx(c) == owner \notin {NoConn, c}
ForeignConcurrent(c) == concurrent \ {c} # {}

\* foreign_tx_blocked: readers wait only for a transaction that has written.
ForeignTxBlocked(c, onlyDirty) == ForeignTx(c) /\ (onlyDirty => dirty)

OnlyDirty(c) == stmt[c] = "read"
Blocked(c) == ForeignTxBlocked(c, OnlyDirty(c))

\* Mutant: the wait before the lock is trusted.
GateWriteTrusting(c) == c \in Conn

\* gate_write, under the engine's lock.
GateWrite(c) == inTransaction => ~ForeignTx(c)

\* committed_reads_available: the state at BEGIN can be rebuilt for a reader.
CommittedReads == inTransaction /\ ~concActive /\ ~ddl

\* A statement of a concurrent transaction runs under the read lock.
UnderReadLock(c) == stmt[c] \in {"read", "prepare"} \/ (stmt[c] = "dml" /\ c \in concurrent)

\* The first DML of an optimistic sqlx transaction opens a concurrent one.
Opens(c) ==
    stmt[c] = "dml" /\ active[c] /\ c \in pool.optimistic \ concurrent /\ owner # c

\* A DML statement outside any transaction joins a concurrent regime.
Joins(c) == stmt[c] = "dml" /\ ~active[c]

\* What a statement parked on the condition variable waits for.
Excluded(c) ==
    IF UnderReadLock(c) THEN ForeignTxBlocked(c, TRUE)
    ELSE ForeignTx(c) \/ (~Opens(c) /\ c \notin concurrent /\ ForeignConcurrent(c))

(***************************************************************************)
(* Threads.                                                                *)
(***************************************************************************)
ThreadFree(c) == \A d \in Conn \ {c} : ThreadOf[d] = ThreadOf[c] => pc[d] \in Away
Enters(c, where) == pc[c] = where /\ ThreadFree(c)

Goto(c, where) == pc' = [pc EXCEPT ![c] = where]
Return(c) == Goto(c, "idle") /\ stmt' = [stmt EXCEPT ![c] = "none"]

\* A statement that gives up.  The Transaction whose COMMIT failed is dropped,
\* and start_rollback rolls back what its connection still owns.
GiveUp(c) ==
    IF stmt[c] = "COMMIT" /\ owner = c
    THEN Goto(c, "exec") /\ stmt' = [stmt EXCEPT ![c] = "ROLLBACK"]
    ELSE Return(c)

\* notify_tx_change: the parked look again, the gate thread scans.
Notified(pcs) == [c \in Conn |-> IF pcs[c] = "parked" THEN "wait" ELSE pcs[c]]

(***************************************************************************)
(* A statement is called: wait_gate_for.                                   *)
(***************************************************************************)
\* The statements that ask the gate; prepare_with takes the read lock at once.
Gated(k) == k # "prepare"

\* Mutant: waiting is left to the condition variable.
PassesAlways(c, k) == c \in Conn /\ k \in Calls

PassesGate(c, k) ==
    \/ ~Gated(k)
    \/ ~ForeignTxBlocked(c, k = "read")
    \/ k = "read" /\ CommittedReads

Call(c, k) ==
    /\ Enters(c, "idle") /\ k \in pool.work[c]
    /\ k = "commit" => raw[c]
    /\ c \in concurrent => k \in {"read", "dml"}
    /\ stmt' = [stmt EXCEPT ![c] = k]
    /\ Goto(c, IF PassesGate(c, k) THEN "exec" ELSE "poll")
    /\ UNCHANGED <<late, clientVars, driverVars, engineVars, gateVars, histVars>>

(***************************************************************************)
(* The async gate.                                                         *)
(***************************************************************************)
\* GateWait::poll.  The gate thread has removed the entry of a woken task.
Poll(c) ==
    /\ pc[c] = "poll" \/ Enters(c, "woken")
    /\ \/ ~Blocked(c) /\ Goto(c, "exec") /\ UNCHANGED stmt
       \/ Blocked(c) /\ late[c] /\ Return(c)
       \/ Blocked(c) /\ ~late[c] /\ Goto(c, "register") /\ UNCHANGED stmt
    /\ late' = [late EXCEPT ![c] = FALSE]
    /\ UNCHANGED <<clientVars, driverVars, engineVars, gateVars, histVars>>

\* Mutant: the gate thread is not told of the new entry.
RegisterSilently(c) ==
    /\ pc[c] = "register"
    /\ entries' = entries \cup {c}
    /\ Goto(c, "pending")
    /\ UNCHANGED <<stmt, late, clientVars, driverVars, engineVars, gateThread, histVars>>

\* gate_register, and the future returns Pending.
Register(c) ==
    /\ pc[c] = "register"
    /\ entries' = entries \cup {c}
    /\ gateThread' = "scan"
    /\ Goto(c, "pending")
    /\ UNCHANGED <<stmt, late, clientVars, driverVars, engineVars, histVars>>

\* Mutant: a dropped future stays registered.
LeaveEntry(c) == entries

\* gate_deregister.
Deregistered(c) == entries \ {c}

\* The caller drops the statement's future, and GateWait's Drop runs.
Cancel(c) ==
    /\ pc[c] \in {"pending", "woken"} /\ ThreadFree(c)
    /\ entries' = Deregistered(c)
    /\ late' = [late EXCEPT ![c] = FALSE]
    /\ Return(c)
    /\ UNCHANGED <<clientVars, driverVars, engineVars, gateThread, histVars>>

\* The busy timeout passes.
Expire(c) ==
    /\ pc[c] \in {"poll", "register", "pending", "woken"} /\ ~late[c]
    /\ late' = [late EXCEPT ![c] = TRUE]
    /\ UNCHANGED <<pc, stmt, clientVars, driverVars, engineVars, gateVars, histVars>>

\* gate_thread_main: one pass over the entries, then it sleeps.
GateScan ==
    LET done == {c \in entries : ~Blocked(c) \/ late[c]} IN
    /\ gateThread = "scan"
    /\ entries' = entries \ done
    /\ pc' = [c \in Conn |-> IF c \in done THEN "woken" ELSE pc[c]]
    /\ gateThread' = "sleep"
    /\ UNCHANGED <<stmt, late, clientVars, driverVars, engineVars, histVars>>

\* It sleeps no longer than to the nearest deadline.
GateTimer ==
    /\ gateThread = "sleep" /\ \E c \in entries : late[c]
    /\ gateThread' = "scan"
    /\ UNCHANGED <<taskVars, clientVars, driverVars, engineVars, entries, histVars>>

(***************************************************************************)
(* execute_sync: the locks.                                                *)
(***************************************************************************)
\* acquire_read and the statement under it.  A connection that no transaction
\* excludes reads the live pages.
Read(c) ==
    /\ pc[c] = "exec" /\ UnderReadLock(c)
    /\ \/ /\ ~ForeignTxBlocked(c, TRUE)
          /\ exposed' = (exposed \/ (stmt[c] # "prepare" /\ wrote \ {c} # {}))
          /\ Return(c)
       \/ ForeignTxBlocked(c, TRUE) /\ CommittedReads /\ Return(c) /\ UNCHANGED exposed
       \/ /\ ForeignTxBlocked(c, TRUE) /\ ~CommittedReads
          /\ Goto(c, "wait")
          /\ UNCHANGED <<stmt, exposed>>
    /\ UNCHANGED <<late, clientVars, driverVars, engineVars, gateVars, stained, pool>>

\* acquire_write_inner and open_concurrent_tx, before the lock.
PreWait(c) ==
    /\ pc[c] = "exec" /\ ~UnderReadLock(c)
    /\ Goto(c, IF ForeignTx(c) \/ (Excluded(c) /\ ~Joins(c)) THEN "wait"
               ELSE IF Opens(c) THEN "open" ELSE "lock")
    /\ UNCHANGED <<stmt, late, clientVars, driverVars, engineVars, gateVars, histVars>>

\* wait_tx_clear and wait_plain_write_clear look again under tx_gate.
Wait(c) ==
    /\ pc[c] = "wait"
    /\ Goto(c, IF Excluded(c) THEN "parked"
               ELSE IF UnderReadLock(c) THEN "exec"
               ELSE IF Opens(c) THEN "open" ELSE "lock")
    /\ UNCHANGED <<stmt, late, clientVars, driverVars, engineVars, gateVars, histVars>>

\* The condition variable's deadline.
Busy(c) ==
    /\ pc[c] = "parked"
    /\ GiveUp(c)
    /\ UNCHANGED <<late, clientVars, driverVars, engineVars, gateVars, histVars>>

\* Begin and end of a concurrent transaction hold the read lock.
ReadLocked == \E d \in Conn : pc[d] \in {"begun", "flagged", "ended", "last", "inactive"}

\* A transaction came between the wait and the lock: once more.
LockRefused(c) ==
    /\ pc[c] = "lock" /\ ~ReadLocked /\ ~GateWrite(c)
    /\ Goto(c, "exec")
    /\ UNCHANGED <<stmt, late, clientVars, driverVars, engineVars, gateVars, histVars>>

WriteLock(c, k) == pc[c] = "lock" /\ stmt[c] = k /\ ~ReadLocked /\ GateWrite(c)

(***************************************************************************)
(* Statements under the write lock.                                        *)
(***************************************************************************)
\* The deferred transaction of the sqlx API starts at its first write.
Starts(c) == active[c] /\ ~inTransaction

\* The engine refuses that BEGIN in a concurrent regime whose flag a stray
\* ROLLBACK has cleared, and the statement fails.
StartRefused(c) ==
    /\ pc[c] = "lock" /\ stmt[c] \in {"dml", "ddl"} /\ ~ReadLocked /\ GateWrite(c)
    /\ Starts(c) /\ concActive
    /\ Return(c)
    /\ UNCHANGED <<late, clientVars, driverVars, engineVars, gateVars, histVars>>

\* Mutant: the flag is not raised before the write.
DirtyKept == dirty

DirtyRaised == TRUE

Start(c) ==
    /\ plain' = IF Starts(c) THEN c ELSE plain
    /\ owner' = IF Starts(c) THEN c ELSE owner
    /\ dirty' = DirtyRaised
    /\ inTransaction' = (inTransaction \/ active[c])

\* The statement's rows are in the open transaction if there is one; else it
\* commits, as itself or as a concurrent transaction of one statement.
Dml(c, ok) ==
    /\ WriteLock(c, "dml") /\ (Starts(c) => ~concActive)
    /\ Start(c)
    /\ ddl' = (ddl /\ ~Starts(c))
    /\ IF ok /\ (plain' # NoConn \/ active[c])
       THEN /\ wrote' = IF plain' # NoConn THEN wrote \cup {c} ELSE wrote
            /\ mine' = [mine EXCEPT ![c] = active[c] \/ plain' = c]
            /\ stained' = IF plain' = NoConn THEN stained \cup {"joined"} ELSE stained
       ELSE UNCHANGED <<wrote, mine, stained>>
    /\ Return(c)
    /\ UNCHANGED <<late, active, raw, concurrent, regime, concActive, gateVars, exposed, pool>>

\* DDL: refused in a concurrent regime.
Ddl(c, ok) ==
    LET runs == ok /\ ~concActive IN
    /\ WriteLock(c, "ddl") /\ (Starts(c) => ~concActive)
    /\ Start(c)
    /\ ddl' = IF runs /\ plain' # NoConn THEN TRUE ELSE ddl /\ ~Starts(c)
    /\ IF runs /\ plain' # NoConn
       THEN /\ wrote' = wrote \cup {c}
            /\ mine' = [mine EXCEPT ![c] = active[c] \/ plain' = c]
       ELSE UNCHANGED <<wrote, mine>>
    /\ Return(c)
    /\ UNCHANGED <<late, active, raw, concurrent, regime, concActive, gateVars, histVars>>

\* A BEGIN script.  The engine refuses it in a transaction; the record is
\* written either way, and the flag of the open transaction cleared with it.
RawBegin(c) ==
    LET runs == ~inTransaction /\ ~concActive IN
    /\ WriteLock(c, "begin")
    /\ owner' = c
    /\ dirty' = FALSE
    /\ pc' = [Notified(pc) EXCEPT ![c] = "idle"]
    /\ stmt' = [stmt EXCEPT ![c] = "none"]
    /\ gateThread' = "scan"
    /\ IF runs
       THEN /\ plain' = c /\ ddl' = FALSE /\ inTransaction' = TRUE
            /\ raw' = [raw EXCEPT ![c] = TRUE]
       ELSE UNCHANGED <<plain, ddl, inTransaction, raw>>
    /\ stained' = IF wrote # {} THEN stained \cup {"second_begin"} ELSE stained
    /\ UNCHANGED <<late, active, mine, concurrent, regime, concActive, wrote, entries, exposed, pool>>

\* The engine ends the transaction it is in, whoever asks.
EngineEnds(c) ==
    IF inTransaction \/ regime # {}
    THEN /\ plain' = NoConn /\ ddl' = FALSE /\ inTransaction' = FALSE /\ wrote' = {}
    ELSE UNCHANGED <<plain, ddl, inTransaction, wrote>>

\* A COMMIT script.  A deferred foreign key can fail it, and the engine keeps
\* its transaction; the record is reset all the same.
RawCommit(c, ok) ==
    /\ WriteLock(c, "commit")
    /\ dirty' = TRUE
    /\ IF ok
       THEN /\ EngineEnds(c)
            /\ raw' = [raw EXCEPT ![c] = FALSE]
            /\ mine' = [mine EXCEPT ![c] = FALSE]
            /\ UNCHANGED stained
       ELSE /\ stained' = stained \cup {"failed_commit"}
            /\ UNCHANGED <<plain, ddl, inTransaction, wrote, raw, mine>>
    /\ IF owner = c THEN Goto(c, "reset") /\ UNCHANGED stmt ELSE Return(c)
    /\ UNCHANGED <<late, active, owner, concurrent, regime, concActive, gateVars, exposed, pool>>

\* COMMIT of the sqlx API.  The Transaction whose COMMIT fails is dropped.
EngineCommit(c, ok) ==
    /\ WriteLock(c, "COMMIT")
    /\ IF ok
       THEN /\ EngineEnds(c)
            /\ mine' = [mine EXCEPT ![c] = FALSE]
            /\ Goto(c, "reset") /\ UNCHANGED stmt
       ELSE GiveUp(c) /\ UNCHANGED <<plain, ddl, inTransaction, wrote, mine>>
    /\ UNCHANGED <<late, active, raw, driverVars, regime, concActive, gateVars, histVars>>

EngineRollback(c) ==
    /\ WriteLock(c, "ROLLBACK")
    /\ EngineEnds(c)
    /\ mine' = [mine EXCEPT ![c] = FALSE]
    /\ Goto(c, "reset")
    /\ UNCHANGED <<stmt, late, active, raw, driverVars, regime, concActive, gateVars, histVars>>

(***************************************************************************)
(* Transaction control, not gated: run_control.                            *)
(***************************************************************************)
Begin(c) ==
    /\ Enters(c, "idle") /\ "transaction" \in pool.work[c] /\ ~active[c] /\ ~raw[c]
    /\ active' = [active EXCEPT ![c] = TRUE]
    /\ UNCHANGED <<taskVars, raw, mine, driverVars, engineVars, gateVars, histVars>>

\* COMMIT or ROLLBACK of a concurrent transaction, under the read lock.
ConcurrentEnds(c) ==
    /\ regime' = regime \ {c}
    /\ Goto(c, "ended")

\* COMMIT, ROLLBACK and a dropped Transaction.
End(c, k) ==
    /\ Enters(c, "idle") /\ active[c]
    /\ active' = [active EXCEPT ![c] = FALSE]
    /\ \/ /\ c \in concurrent /\ ConcurrentEnds(c) /\ UNCHANGED <<stmt, mine>>
       \/ /\ c \notin concurrent /\ owner = c
          /\ stmt' = [stmt EXCEPT ![c] = k]
          /\ Goto(c, "exec")
          /\ UNCHANGED <<mine, regime>>
       \/ /\ c \notin concurrent /\ owner # c
          /\ mine' = [mine EXCEPT ![c] = FALSE]
          /\ UNCHANGED <<pc, stmt, regime>>
    /\ UNCHANGED <<late, raw, driverVars, plain, ddl, inTransaction, concActive, wrote,
                   gateVars, histVars>>

\* A connection goes back to the pool (ping) or is closed (finalize).
Release(c) ==
    /\ Enters(c, "idle") /\ ~active[c] /\ owner = c
    /\ ~ReadLocked /\ GateWrite(c)
    /\ EngineEnds(c)
    /\ raw' = [raw EXCEPT ![c] = FALSE]
    /\ mine' = [mine EXCEPT ![c] = FALSE]
    /\ Goto(c, "reset")
    /\ UNCHANGED <<stmt, late, active, driverVars, regime, concActive, gateVars, histVars>>

(***************************************************************************)
(* The record after the lock.                                              *)
(***************************************************************************)
\* tx_reset: two stores and the notification.
ResetOwner(c) ==
    /\ pc[c] = "reset"
    /\ owner' = NoConn
    /\ stained' = IF ForeignTx(c) THEN stained \cup {"late_reset"} ELSE stained
    /\ Goto(c, "clean")
    /\ UNCHANGED <<stmt, late, clientVars, dirty, concurrent, engineVars, gateVars, exposed, pool>>

ResetDirty(c) ==
    /\ pc[c] = "clean"
    /\ dirty' = FALSE
    /\ stained' = IF owner # NoConn THEN stained \cup {"late_reset"} ELSE stained
    /\ Goto(c, "notify")
    /\ UNCHANGED <<stmt, late, clientVars, owner, concurrent, engineVars, gateVars, exposed, pool>>

Notify(c) ==
    /\ pc[c] = "notify"
    /\ pc' = [Notified(pc) EXCEPT ![c] = "idle"]
    /\ stmt' = [stmt EXCEPT ![c] = "none"]
    /\ gateThread' = "scan"
    /\ UNCHANGED <<late, clientVars, driverVars, engineVars, entries, histVars>>

(***************************************************************************)
(* Concurrent transactions: open_concurrent_tx and their end.              *)
(***************************************************************************)
\* Mutant: the regimes are left to the driver.
PlainOpenMissed == FALSE

\* begin_concurrent_txn_shared refuses while a plain transaction is open.
PlainOpen == inTransaction /\ ~concActive

OpenConcurrent(c) ==
    /\ pc[c] = "open"
    /\ \/ ~PlainOpen /\ regime' = regime \cup {c} /\ Goto(c, "begun") /\ UNCHANGED stmt
       \/ /\ PlainOpen
          /\ IF ForeignTx(c) THEN Goto(c, "exec") /\ UNCHANGED stmt ELSE Return(c)
          /\ UNCHANGED regime
    /\ UNCHANGED <<late, clientVars, driverVars, plain, ddl, inTransaction, concActive, wrote,
                   gateVars, histVars>>

\* Its stores: concurrent_active, then in_transaction and txn_has_ddl.
FlagActive(c) ==
    /\ pc[c] = "begun"
    /\ concActive' = TRUE
    /\ Goto(c, "flagged")
    /\ UNCHANGED <<stmt, late, clientVars, driverVars, plain, ddl, inTransaction, regime, wrote,
                   gateVars, histVars>>

FlagTransaction(c) ==
    /\ pc[c] = "flagged"
    /\ inTransaction' = TRUE /\ ddl' = FALSE
    /\ Goto(c, "list")
    /\ UNCHANGED <<stmt, late, clientVars, driverVars, plain, regime, concActive, wrote,
                   gateVars, histVars>>

\* finish_concurrent_txn_shared: is it the last one?
FinishConcurrent(c) ==
    /\ pc[c] = "ended"
    /\ Goto(c, IF regime = {} THEN "last" ELSE "unlist")
    /\ UNCHANGED <<stmt, late, clientVars, driverVars, engineVars, gateVars, histVars>>

\* Another transaction that has stored its flags since is switched off.
SwitchedOff(begun) ==
    IF \E d \in regime : pc[d] \notin begun THEN stained \cup {"switched_off"} ELSE stained

ClearActive(c) ==
    /\ pc[c] = "last"
    /\ concActive' = FALSE
    /\ stained' = SwitchedOff({"begun"})
    /\ Goto(c, "inactive")
    /\ UNCHANGED <<stmt, late, clientVars, driverVars, plain, ddl, inTransaction, regime, wrote,
                   gateVars, exposed, pool>>

ClearTransaction(c) ==
    /\ pc[c] = "inactive"
    /\ inTransaction' = FALSE
    /\ stained' = SwitchedOff({"begun", "flagged"})
    /\ Goto(c, "unlist")
    /\ UNCHANGED <<stmt, late, clientVars, driverVars, plain, ddl, regime, concActive, wrote,
                   gateVars, exposed, pool>>

\* concurrent_begin.
List(c) ==
    /\ pc[c] = "list"
    /\ concurrent' = concurrent \cup {c}
    /\ pc' = [Notified(pc) EXCEPT ![c] = "exec"]
    /\ gateThread' = "scan"
    /\ UNCHANGED <<stmt, late, clientVars, owner, dirty, engineVars, entries, histVars>>

\* concurrent_end.
Unlist(c) ==
    /\ pc[c] = "unlist"
    /\ concurrent' = concurrent \ {c}
    /\ Goto(c, "notify")
    /\ UNCHANGED <<stmt, late, clientVars, owner, dirty, engineVars, gateVars, histVars>>

(***************************************************************************)
(* The pool.                                                               *)
(***************************************************************************)
Init ==
    /\ pool \in Pools
    /\ pc = [c \in Conn |-> "idle"] /\ stmt = [c \in Conn |-> "none"]
    /\ late = [c \in Conn |-> FALSE]
    /\ active = [c \in Conn |-> FALSE] /\ raw = [c \in Conn |-> FALSE]
    /\ mine = [c \in Conn |-> FALSE]
    /\ owner = NoConn /\ dirty = FALSE /\ concurrent = {}
    /\ plain = NoConn /\ ddl = FALSE /\ inTransaction = FALSE /\ wrote = {}
    /\ regime = {} /\ concActive = FALSE
    /\ entries = {} /\ gateThread = "scan"
    /\ exposed = FALSE /\ stained = {}

\* What a thread that is inside the driver does next.
Progress(c) ==
    \/ Poll(c) \/ Register(c)
    \/ Read(c) \/ PreWait(c) \/ Wait(c) \/ Busy(c) \/ LockRefused(c)
    \/ \E ok \in BOOLEAN : Dml(c, ok) \/ Ddl(c, ok) \/ RawCommit(c, ok) \/ EngineCommit(c, ok)
    \/ StartRefused(c) \/ RawBegin(c) \/ EngineRollback(c)
    \/ ResetOwner(c) \/ ResetDirty(c) \/ Notify(c)
    \/ OpenConcurrent(c) \/ FlagActive(c) \/ FlagTransaction(c) \/ List(c)
    \/ FinishConcurrent(c) \/ ClearActive(c) \/ ClearTransaction(c) \/ Unlist(c)

Next ==
    \/ \E c \in Conn :
          \/ \E k \in Calls : Call(c, k)
          \/ Begin(c) \/ (\E k \in {"COMMIT", "ROLLBACK"} : End(c, k)) \/ Release(c)
          \/ Cancel(c) \/ Expire(c)
          \/ Progress(c)
    \/ GateScan
    \/ GateTimer

\* Threads run, the gate thread among them; when a client calls, cancels or
\* ends a transaction, and when a deadline passes, is its own affair.
Spec ==
    /\ Init /\ [][Next]_vars
    /\ \A c \in Conn : WF_vars(Progress(c))
    /\ WF_vars(GateScan) /\ WF_vars(GateTimer)

-----------------------------------------------------------------------------
\* The types, and that the gate keeps no waiter that has gone: a task is
\* registered (gate_register, gate_deregister) only while its future waits.
TypeOK ==
    /\ pc \in [Conn -> Away \cup Inside] /\ stmt \in [Conn -> Stmts]
    /\ late \in [Conn -> BOOLEAN]
    /\ active \in [Conn -> BOOLEAN] /\ raw \in [Conn -> BOOLEAN]
    /\ mine \in [Conn -> BOOLEAN]
    /\ owner \in Conn \cup {NoConn} /\ dirty \in BOOLEAN /\ concurrent \subseteq Conn
    /\ plain \in Conn \cup {NoConn} /\ ddl \in BOOLEAN /\ inTransaction \in BOOLEAN
    /\ concActive \in BOOLEAN /\ pool \in Pools
    /\ regime \subseteq Conn /\ wrote \subseteq Conn
    /\ entries \subseteq {c \in Conn : pc[c] = "pending"}
    /\ gateThread \in {"scan", "sleep"}
    /\ exposed \in BOOLEAN
    /\ stained \subseteq {"joined", "second_begin", "failed_commit", "late_reset", "switched_off"}

\* No connection reads rows another has not committed: acquire_read takes the
\* live pages only where no dirty foreign transaction is recorded, and the
\* record lags the engine in the known ways (stained) only.
NoDirtyRead == stained = {} => ~exposed

\* The uncommitted rows of the engine are those of the transactions whose
\* connections have not ended them: what a client was told is committed or
\* rolled back has left the engine's transaction, no other connection's COMMIT
\* or ROLLBACK took it along, and no stranger wrote into it.
TransactionsKeepTheirRows == stained = {} => wrote = {c \in Conn : mine[c]}

\* The last of an old concurrent regime has switched off a new one: what the
\* engine's flags say of its regime is then wrong.
FlagsTrue == "switched_off" \notin stained

\* The engine's two regimes exclude each other: while a plain transaction has
\* its rows in the live pages no concurrent transaction is open
\* (begin_concurrent_txn_shared and the refusals of BEGIN), whatever the
\* driver's record says.
RegimesExclude == FlagsTrue => (plain # NoConn => regime = {})

\* A statement that went through the async gate never blocks its thread on
\* the plain transaction of a task of that same thread, which could then not
\* end it (the reason gate.rs exists).  A BEGIN the engine refused leaves a
\* record without a transaction, and that one can block it.
OwnerKeepsItsThread ==
    FlagsTrue =>
        \A c, d \in Conn :
            c # d /\ pc[c] = "parked" /\ Gated(stmt[c]) /\ ThreadOf[c] = ThreadOf[d]
                => ~(owner = d /\ plain = d)

\* The gate loses no wake-up: a registered waiter whose way is clear, or whose
\* deadline has passed, is woken (gate_register, notify_tx_change and the
\* sleep of gate_thread_main).
GateAnswers ==
    \A c \in Conn : []<>~(pc[c] = "pending" /\ (~Blocked(c) \/ late[c]))
=============================================================================
