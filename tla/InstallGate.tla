----------------------------- MODULE InstallGate -----------------------------
(***************************************************************************)
(* The install gate of the BEGIN CONCURRENT regime                         *)
(* (storage/concurrent.rs): a many-readers / one-writer lock whose readers *)
(* increment a shared word optimistically and back out when a writer is    *)
(* pending or active, whose waiters spin and then park on a condition      *)
(* variable, and which is made re-entrant by a per-thread ledger of the    *)
(* sides the thread holds.                                                 *)
(*                                                                         *)
(* One step is one atomic access of the code: a fetch_add, a fetch_sub, a  *)
(* successful compare_exchange, a load that decides, a critical section of *)
(* the parking mutex.  A compare_exchange that fails because another       *)
(* thread changed the reader count in between only loops back to the wait  *)
(* in front of it and is not a step.  The spin budget and the reader grace *)
(* are timers: the model lets them expire at any moment.                   *)
(***************************************************************************)
EXTENDS Naturals, FiniteSets

CONSTANTS
    Main,      \* threads that run statements and commits
    Worker,    \* scan workers a gated statement spawns and joins
    NoThread,  \* the value of "nobody"
    MaxDepth   \* bound: nested read guards of one thread

Thread == Main \cup Worker

ASSUME GateAssumption ==
    /\ Main \cap Worker = {}
    /\ NoThread \notin Main \cup Worker
    /\ IsFiniteSet(Main) /\ IsFiniteSet(Worker)
    /\ MaxDepth \in Nat \ {0}

VARIABLES
    count,    \* state, bits 0..29: reader count, transient increments included
    pending,  \* state, bit 30: a writer waits for the readers to drain
    active,   \* state, bit 31: a writer holds the gate
    waiting,  \* waiting_readers: readers in the slow path
    parked,   \* threads between the two updates of `parked` in wait_while
    mutex,    \* owner of the parking mutex across a step, or NoThread
    pc,       \* where each thread is in the gate's code
    ret,      \* where a thread goes once it has finished waking the others
    park,     \* progress of a thread inside the parking half of wait_while
    mask,     \* which bits block the read a thread is attempting
    reads,    \* GateReadGuards the thread holds
    ledger,   \* GATES_HELD: the side this thread recorded
    body,     \* what the write being acquired is for: "run", a recorded
              \* statement or resync, or "install", a commit's unrecorded one
    boss      \* the statement thread a worker was spawned by

state == <<count, pending, active>>
wait  == <<parked, mutex, park>>
local == <<mask, reads, ledger, body, boss>>
vars  == <<state, waiting, wait, pc, ret, local>>

AllBits    == "pending_or_active"   \* GATE_PENDING | GATE_ACTIVE
ActiveBit  == "active"              \* GATE_ACTIVE

Init ==
    /\ count = 0 /\ pending = FALSE /\ active = FALSE
    /\ waiting = 0 /\ parked = 0 /\ mutex = NoThread
    /\ pc = [t \in Thread |-> "run"]
    /\ ret = [t \in Thread |-> "run"]
    /\ park = [t \in Thread |-> "no"]
    /\ mask = [t \in Thread |-> AllBits]
    /\ reads = [t \in Thread |-> 0]
    /\ ledger = [t \in Thread |-> "none"]
    /\ body = [t \in Thread |-> "run"]
    /\ boss = [w \in Worker |-> NoThread]

-----------------------------------------------------------------------------
(* Helpers *)

Goto(t, l) == pc' = [pc EXCEPT ![t] = l]

\* Mutant: only a pending writer holds readers back, not an active one.
ReadBlocked_PendingOnly(m) == m = AllBits /\ pending

\* s & mask != 0
ReadBlocked(m) == active \/ (m = AllBits /\ pending)

\* Mutant: the last leaver is looked for after the subtraction.
ReleaseRead_WakesLate(t, next) ==
    /\ count' = count - 1
    /\ IF pending /\ count = 0
       THEN Goto(t, "wake") /\ ret' = [ret EXCEPT ![t] = next]
       ELSE Goto(t, next) /\ UNCHANGED ret

\* release_read: one count is given back; the last reader to leave while a
\* writer waits for the drain wakes the parked threads before going on.
ReleaseRead(t, next) ==
    /\ count' = count - 1
    /\ IF pending /\ count = 1
       THEN Goto(t, "wake") /\ ret' = [ret EXCEPT ![t] = next]
       ELSE Goto(t, next) /\ UNCHANGED ret

\* The condition a thread inside wait_while waits out.
Blocked(t) ==
    \/ pc[t] = "rwait" /\ ReadBlocked(mask[t])
    \/ pc[t] = "claimwait" /\ (pending \/ active)
    \/ pc[t] = "drainwait" /\ count # 0

AfterWait(t) ==
    CASE pc[t] = "rwait"     -> "retry"
      [] pc[t] = "claimwait" -> "claim"
      [] pc[t] = "drainwait" -> "drain"
      [] OTHER               -> pc[t]

InWait(t) == pc[t] \in {"rwait", "claimwait", "drainwait"}

\* A reader got its guard; the statement threads record it in the ledger.
Admit(t) ==
    /\ reads' = [reads EXCEPT ![t] = @ + 1]
    /\ ledger' = IF t \in Main THEN [ledger EXCEPT ![t] = "read"] ELSE ledger

-----------------------------------------------------------------------------
(* Readers *)

\* The optimistic increment of read / read_recursive under bits m.
ReadBlockedBy(t, m) ==
    /\ reads[t] < MaxDepth
    /\ mask' = [mask EXCEPT ![t] = m]
    /\ count' = count + 1
    /\ IF ReadBlocked(m)
       THEN Goto(t, "backout") /\ UNCHANGED <<reads, ledger>>
       ELSE Admit(t) /\ UNCHANGED pc
    /\ UNCHANGED <<pending, active, waiting, wait, ret, body, boss>>

\* Mutant: a nested read queues behind the pending writer.
PlainReaderGate_NotRecursive(t) ==
    /\ pc[t] = "run"
    /\ ledger[t] # "write"
    /\ ReadBlockedBy(t, AllBits)

\* plain_reader_gate: nothing for a thread that holds the write side,
\* read_recursive for one that already reads, read otherwise.
PlainReaderGate(t) ==
    /\ pc[t] = "run"
    /\ ledger[t] # "write"
    /\ ReadBlockedBy(t, IF ledger[t] = "read" THEN ActiveBit ELSE AllBits)

\* A gated statement spawns scan workers and waits for them.
SpawnWorkers(t, ws) ==
    /\ pc[t] = "run"
    /\ ledger[t] # "none"
    /\ ws # {} /\ \A w \in ws : boss[w] = NoThread /\ pc[w] = "run"
    /\ boss' = [w \in Worker |-> IF w \in ws THEN t ELSE boss[w]]
    /\ pc' = [u \in Thread |-> IF u = t THEN "join"
                               ELSE IF u \in ws THEN "start" ELSE pc[u]]
    /\ UNCHANGED <<state, waiting, wait, ret, mask, reads, ledger, body>>

JoinWorkers(t) ==
    /\ pc[t] = "join"
    /\ \A w \in Worker : boss[w] # t
    /\ Goto(t, "run")
    /\ UNCHANGED <<state, waiting, wait, ret, local>>

\* plain_reader_gate_child: nothing under a spawner that owns the write
\* side, read_recursive otherwise.
PlainReaderGateChild(w) ==
    /\ pc[w] = "start"
    /\ mask' = [mask EXCEPT ![w] = ActiveBit]
    /\ IF ledger[boss[w]] = "write"
       THEN Goto(w, "run") /\ UNCHANGED <<count, reads, ledger>>
       ELSE /\ count' = count + 1
            /\ IF ReadBlocked(ActiveBit)
               THEN Goto(w, "backout") /\ UNCHANGED <<reads, ledger>>
               ELSE Goto(w, "run") /\ Admit(w)
    /\ UNCHANGED <<pending, active, waiting, wait, ret, body, boss>>

\* The worker's scan is over: its guard, if any, is dropped and it exits.
WorkerDone(w) ==
    /\ pc[w] = "run" /\ boss[w] # NoThread
    /\ boss' = [boss EXCEPT ![w] = NoThread]
    /\ IF reads[w] > 0
       THEN /\ reads' = [reads EXCEPT ![w] = @ - 1]
            /\ ReleaseRead(w, "run")
       ELSE UNCHANGED <<reads, count, pc, ret>>
    /\ UNCHANGED <<pending, active, waiting, wait, mask, ledger, body>>

\* read_slow, first half: the optimistic increment is given back ...
BackOut(t) ==
    /\ pc[t] = "backout"
    /\ ReleaseRead(t, "enqueue")
    /\ UNCHANGED <<pending, active, waiting, wait, local>>

\* ... and the reader registers itself as waiting.
Enqueue(t) ==
    /\ pc[t] = "enqueue"
    /\ waiting' = waiting + 1
    /\ Goto(t, "rwait")
    /\ UNCHANGED <<state, wait, ret, local>>

\* Mutant: a failed retry also leaves the queue of waiting readers.
Retry_LeavesQueueEarly(t) ==
    /\ pc[t] = "retry"
    /\ count' = count + 1
    /\ waiting' = waiting - 1
    /\ IF ReadBlocked(mask[t])
       THEN Goto(t, "rebackout") /\ UNCHANGED <<reads, ledger>>
       ELSE Goto(t, "run") /\ Admit(t)
    /\ UNCHANGED <<pending, active, wait, ret, mask, body, boss>>

\* read_slow, the loop body after wait_while: try again, or back out again.
Retry(t) ==
    /\ pc[t] = "retry"
    /\ count' = count + 1
    /\ IF ReadBlocked(mask[t])
       THEN Goto(t, "rebackout") /\ UNCHANGED <<waiting, reads, ledger>>
       ELSE Goto(t, "run") /\ waiting' = waiting - 1 /\ Admit(t)
    /\ UNCHANGED <<pending, active, wait, ret, mask, body, boss>>

ReBackOut(t) ==
    /\ pc[t] = "rebackout"
    /\ ReleaseRead(t, "rwait")
    /\ UNCHANGED <<pending, active, waiting, wait, local>>

\* Drop of a PlainReadGate: the ledger entry goes with the last guard.
ReadExit(t) ==
    /\ pc[t] = "run" /\ t \in Main /\ reads[t] > 0
    /\ reads' = [reads EXCEPT ![t] = @ - 1]
    /\ ledger' = IF reads[t] = 1 THEN [ledger EXCEPT ![t] = "none"] ELSE ledger
    /\ ReleaseRead(t, "run")
    /\ UNCHANGED <<pending, active, waiting, wait, mask, body, boss>>

-----------------------------------------------------------------------------
(* Writers *)

\* plain_writer_gate and install_gate_write take the gate and record it;
\* a commit's install takes it directly, without a ledger entry.  Nested
\* under a side the thread already holds they take nothing, which is no step
\* of the gate; the one nesting the code does not resolve, install_gate_write
\* under a read guard, is assumed away: a resync runs at statement start.
WriteEnter(t, b) ==
    /\ pc[t] = "run" /\ ledger[t] = "none"
    /\ body' = [body EXCEPT ![t] = b]
    /\ Goto(t, "grace")
    /\ UNCHANGED <<state, waiting, wait, ret, mask, reads, ledger, boss>>

\* write, step 0: spin while waiting_readers # 0 and the grace lasts.
Grace(t) ==
    /\ pc[t] = "grace"
    /\ Goto(t, "claimwait")
    /\ UNCHANGED <<state, waiting, wait, ret, local>>

\* write, step 1: claim the single writer slot.
Claim(t) ==
    /\ pc[t] = "claim"
    /\ IF pending \/ active
       THEN Goto(t, "claimwait") /\ UNCHANGED pending
       ELSE Goto(t, "drainwait") /\ pending' = TRUE
    /\ UNCHANGED <<count, active, waiting, wait, ret, local>>

\* Mutant: the flip sets ACTIVE and leaves PENDING set.
Drain_KeepsPending(t) ==
    /\ pc[t] = "drain" /\ count = 0
    /\ active' = TRUE
    /\ Goto(t, body[t])
    /\ ledger' = IF body[t] = "run" THEN [ledger EXCEPT ![t] = "write"] ELSE ledger
    /\ UNCHANGED <<count, pending, waiting, wait, ret, mask, reads, body, boss>>

\* write, step 2: no reader is left, flip pending to active.
Drain(t) ==
    /\ pc[t] = "drain"
    /\ IF count # 0
       THEN /\ Goto(t, "drainwait")
            /\ UNCHANGED <<pending, active, ledger>>
       ELSE /\ pending' = FALSE /\ active' = TRUE
            /\ Goto(t, body[t])
            /\ ledger' = IF body[t] = "run" THEN [ledger EXCEPT ![t] = "write"] ELSE ledger
    /\ UNCHANGED <<count, waiting, wait, ret, mask, reads, body, boss>>

\* Drop of a GateWriteGuard: clear ACTIVE, wake the parked threads.
WriteExit(t) ==
    /\ \/ pc[t] = "install"
       \/ pc[t] = "run" /\ ledger[t] = "write"
    /\ active' = FALSE
    /\ ledger' = [ledger EXCEPT ![t] = "none"]
    /\ Goto(t, "wake") /\ ret' = [ret EXCEPT ![t] = "run"]
    /\ UNCHANGED <<count, pending, waiting, wait, mask, reads, body, boss>>

-----------------------------------------------------------------------------
(* wait_while and wake_parked *)

\* The spin loop sees the condition clear.
SpinPass(t) ==
    /\ InWait(t) /\ park[t] = "no" /\ ~Blocked(t)
    /\ Goto(t, AfterWait(t))
    /\ UNCHANGED <<state, waiting, wait, ret, local>>

\* The spin budget is over: take the mutex and announce the park.
Park(t) ==
    /\ InWait(t) /\ park[t] = "no" /\ mutex = NoThread
    /\ mutex' = t
    /\ parked' = parked + 1
    /\ park' = [park EXCEPT ![t] = "locked"]
    /\ UNCHANGED <<state, waiting, pc, ret, local>>

\* The re-check under the mutex: sleep, which releases it, or leave.
ParkCheck(t) ==
    /\ park[t] = "locked" /\ mutex = t
    /\ mutex' = NoThread
    /\ IF Blocked(t)
       THEN /\ park' = [park EXCEPT ![t] = "asleep"]
            /\ UNCHANGED <<parked, pc>>
       ELSE /\ park' = [park EXCEPT ![t] = "no"]
            /\ parked' = parked - 1
            /\ Goto(t, AfterWait(t))
    /\ UNCHANGED <<state, waiting, ret, local>>

\* The 1 ms timed wait runs out, or the wait wakes spuriously.
Timeout(t) ==
    /\ park[t] = "asleep"
    /\ park' = [park EXCEPT ![t] = "relock"]
    /\ UNCHANGED <<state, waiting, parked, mutex, pc, ret, local>>

\* wait_for returns with the mutex held again.
Relock(t) ==
    /\ park[t] = "relock" /\ mutex = NoThread
    /\ mutex' = t
    /\ park' = [park EXCEPT ![t] = "locked"]
    /\ UNCHANGED <<state, waiting, parked, pc, ret, local>>

\* wake_parked: a load of `parked` decides whether to notify ...
WakeParked(t) ==
    /\ pc[t] = "wake"
    /\ Goto(t, IF parked = 0 THEN ret[t] ELSE "notify")
    /\ UNCHANGED <<state, waiting, wait, ret, local>>

\* ... and notify_all runs under the mutex.
NotifyAll(t) ==
    /\ pc[t] = "notify" /\ mutex = NoThread
    /\ park' = [u \in Thread |-> IF park[u] = "asleep" THEN "relock" ELSE park[u]]
    /\ Goto(t, ret[t])
    /\ UNCHANGED <<state, waiting, parked, mutex, ret, local>>

-----------------------------------------------------------------------------

\* The steps a thread takes on its own once it is inside the gate's code.
GateStep(t) ==
    \/ BackOut(t) \/ Enqueue(t) \/ Retry(t) \/ ReBackOut(t)
    \/ Grace(t) \/ Claim(t) \/ Drain(t)
    \/ SpinPass(t) \/ Park(t) \/ ParkCheck(t) \/ Relock(t)
    \/ WakeParked(t) \/ NotifyAll(t)

WorkerStep(w) == PlainReaderGateChild(w) \/ WorkerDone(w)

Next ==
    \/ \E t \in Thread : GateStep(t) \/ Timeout(t)
    \/ \E w \in Worker : WorkerStep(w)
    \/ \E t \in Main : \/ PlainReaderGate(t) \/ ReadExit(t)
                       \/ \E b \in {"run", "install"} : WriteEnter(t, b)
                       \/ WriteExit(t)
                       \/ JoinWorkers(t)
                       \/ \E ws \in SUBSET Worker : SpawnWorkers(t, ws)

Spec == Init /\ [][Next]_vars

(* Every thread inside the gate keeps running, workers finish their scan,  *)
(* a write-side critical section ends, and a statement makes finitely many *)
(* nested calls, so each of its guards is dropped in the end.  The parking *)
(* mutex is eventually fair (parking_lot), hence SF on the steps that need *)
(* it.  No fairness on Timeout: the wake-ups must not depend on the timed  *)
(* wait.                                                                   *)
Fairness ==
    /\ \A t \in Thread : SF_vars(GateStep(t))
    /\ \A w \in Worker : WF_vars(WorkerStep(w))
    /\ \A t \in Main : /\ WF_vars(WriteExit(t))
                       /\ WF_vars(JoinWorkers(t))
                       /\ \A d \in 1..MaxDepth :
                              SF_vars(ReadExit(t) /\ reads[t] = d)

FairSpec == Spec /\ Fairness

-----------------------------------------------------------------------------
(* Properties *)

Label == {"run", "start", "join", "backout", "enqueue", "rwait", "retry",
          "rebackout", "grace", "claimwait", "claim", "drainwait", "drain",
          "install", "wake", "notify"}

\* Every variable has its type (the words and lists of InstallGate and
\* GATES_HELD).
TypeOK ==
    /\ count \in Nat /\ waiting \in Nat /\ parked \in Nat
    /\ pending \in BOOLEAN /\ active \in BOOLEAN
    /\ mutex \in Thread \cup {NoThread}
    /\ pc \in [Thread -> Label]
    /\ ret \in [Thread -> {"run", "enqueue", "rwait"}]
    /\ park \in [Thread -> {"no", "locked", "asleep", "relock"}]
    /\ mask \in [Thread -> {AllBits, ActiveBit}]
    /\ reads \in [Thread -> 0..MaxDepth]
    /\ ledger \in [Thread -> {"none", "read", "write"}]
    /\ body \in [Thread -> {"run", "install"}]
    /\ boss \in [Worker -> Main \cup {NoThread}]

Writing(t) == pc[t] = "install" \/ ledger[t] = "write"

\* "readers share; the writer is exclusive" (InstallGate): a thread inside
\* the write side is alone in it and no thread holds a read guard, whatever
\* optimistic increments, back-outs and recursive reads are in flight.
Exclusion ==
    \A t \in Thread : Writing(t) =>
        \A u \in Thread : reads[u] = 0 /\ (Writing(u) => u = t)

\* wake_parked: "either we see the waiter parked, or it sees our state
\* change and never sleeps".  A thread asleep on a condition that no longer
\* holds always has a waker under way.
NoLostWakeup ==
    \A t \in Thread : park[t] = "asleep" /\ ~Blocked(t) =>
        \E u \in Thread : pc[u] \in {"wake", "notify"}

\* A quiescent gate is a free gate: when no thread is inside the gate's code
\* or holds a side of it, no count, flag, waiter or parked thread is left
\* over in the words read by the next caller (read_slow, write, wait_while).
NothingLeaks ==
    (\A t \in Thread : pc[t] \in {"run", "join"} /\ reads[t] = 0 /\ ~Writing(t))
        => count = 0 /\ ~pending /\ ~active /\ waiting = 0 /\ parked = 0

\* "a PENDING writer blocks NEW plain readers (no writer starvation under a
\* steady reader stream) but not read_recursive (... which would otherwise
\* deadlock against the writer waiting for their parent)": once it has
\* claimed the slot a writer gets in, nested reads and workers included.
WriterGetsIn ==
    \A t \in Main : pc[t] = "drainwait" ~> Writing(t)

=============================================================================
