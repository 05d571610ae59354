-------------------------- MODULE InstallGateProofs --------------------------
(***************************************************************************)
(* Exclusion of the install gate, for every number of threads, workers and *)
(* every nesting depth.                                                    *)
(*                                                                         *)
(* The reader count is a number that optimistic increments and back-outs   *)
(* move up and down; the argument is that it never loses track of who is   *)
(* inside.  Tokens lists the increments that have not been given back, one *)
(* per guard and one per increment about to be backed out, and CountExact  *)
(* says the word counts exactly those.  A writer that finds the count 0    *)
(* therefore finds no guard, and SlotInv says it is the only one to look.  *)
(***************************************************************************)
EXTENDS InstallGate, FiniteSetTheorems, TLAPS

Shape ==
    /\ pending \in BOOLEAN /\ active \in BOOLEAN
    /\ mutex \in Thread \cup {NoThread}
    /\ pc \in [Thread -> Label]
    /\ ret \in [Thread -> {"run", "enqueue", "rwait"}]
    /\ park \in [Thread -> {"no", "locked", "asleep", "relock"}]
    /\ mask \in [Thread -> {AllBits, ActiveBit}]
    /\ reads \in [Thread -> 0..MaxDepth]
    /\ ledger \in [Thread -> {"none", "read", "write"}]
    /\ body \in [Thread -> {"run", "install"}]
    /\ boss \in [Worker -> Main \cup {NoThread}]

\* The increments of the reader count that have not been given back.
Transient(t) == pc[t] \in {"backout", "rebackout"}

Tokens == {x \in Thread \X (0..MaxDepth) :
              \/ x[2] < reads[x[1]]
              \/ x[2] = MaxDepth /\ Transient(x[1])}

\* The readers in the loop of read_slow.
InQueue(t) == \/ pc[t] \in {"rwait", "retry", "rebackout"}
              \/ pc[t] \in {"wake", "notify"} /\ ret[t] = "rwait"

Queue == {t \in Thread : InQueue(t)}

Parking == {t \in Thread : park[t] # "no"}

CountsExact ==
    /\ count = Cardinality(Tokens)
    /\ waiting = Cardinality(Queue)
    /\ parked = Cardinality(Parking)

\* At most one writer is past the claim, and no reader is inside with it.
Claimed(t) == pc[t] \in {"drainwait", "drain"}

SlotInv ==
    /\ ~(pending /\ active)
    /\ pending <=> \E t \in Thread : Claimed(t)
    /\ active <=> \E t \in Thread : Writing(t)
    /\ \A t, u \in Thread : Claimed(t) /\ Claimed(u) => t = u
    /\ \A t, u \in Thread : Writing(t) /\ Writing(u) => t = u
    /\ active => \A t \in Thread : reads[t] = 0

\* Between the call of a read and its admission.
Entering(t) ==
    \/ pc[t] \in {"start", "backout", "enqueue", "rwait", "retry", "rebackout"}
    \/ pc[t] \in {"wake", "notify"} /\ ret[t] # "run"

DepthInv ==
    /\ \A t \in Thread : /\ Entering(t) => reads[t] < MaxDepth /\ ledger[t] # "write"
                         /\ park[t] # "no" => InWait(t)
    /\ \A w \in Worker : /\ ledger[w] = "none"
                         /\ pc[w] \notin {"grace", "claimwait", "claim",
                                          "drainwait", "drain", "install"}
                         /\ reads[w] <= 1
                         /\ boss[w] = NoThread => reads[w] = 0
                         /\ Entering(w) => reads[w] = 0 /\ boss[w] # NoThread

IInv == Shape /\ CountsExact /\ SlotInv /\ DepthInv

-----------------------------------------------------------------------------
(* Counting *)

\* There are finitely many threads.
LEMMA ThreadFinite == IsFiniteSet(Thread)
BY FS_Union, GateAssumption DEF Thread

\* The reader tokens, one per guard held, are finitely many.
LEMMA TokensFinite == IsFiniteSet(Tokens)
<1>1. IsFiniteSet(0..MaxDepth)
  BY FS_Interval, GateAssumption
<1>2. IsFiniteSet(Thread \X (0..MaxDepth))
  BY <1>1, ThreadFinite, FS_Product
<1> QED BY <1>2, FS_Subset DEF Tokens

\* The threads in the queue are finitely many.
LEMMA QueueFinite == IsFiniteSet(Queue)
BY ThreadFinite, FS_Subset DEF Queue

\* The threads that wait or are about to are finitely many.
LEMMA ParkingFinite == IsFiniteSet(Parking)
BY ThreadFinite, FS_Subset DEF Parking

\* A counter that goes up by one when an element joins the counted set.
LEMMA CardAdd ==
    ASSUME NEW S, IsFiniteSet(S), NEW x, x \notin S
    PROVE  Cardinality(S \cup {x}) = Cardinality(S) + 1
BY FS_AddElement

\* A counter that goes down by one when an element leaves the counted set.
LEMMA CardRemove ==
    ASSUME NEW S, IsFiniteSet(S), NEW x, x \in S
    PROVE  Cardinality(S \ {x}) = Cardinality(S) - 1
BY FS_RemoveElement

\* The counters are naturals because they are cardinalities.
LEMMA TypeFromCounts == Shape /\ CountsExact => TypeOK
BY TokensFinite, QueueFinite, ParkingFinite, FS_CardinalityType
   DEF Shape, CountsExact, TypeOK

\* No guard is held where the count is zero.
LEMMA ZeroCount ==
    ASSUME Shape, CountsExact, count = 0
    PROVE  \A t \in Thread : reads[t] = 0
<1> SUFFICES ASSUME NEW t \in Thread, reads[t] # 0
             PROVE  FALSE
  OBVIOUS
<1>1. <<t, 0>> \in Tokens
  BY GateAssumption DEF Shape, Tokens
<1>2. Tokens = {}
  BY TokensFinite, FS_EmptySet DEF CountsExact
<1> QED BY <1>1, <1>2

\* The gate opens free, with nobody in it and every counter zero.
LEMMA InitIInv == Init => IInv
<1> SUFFICES ASSUME Init PROVE IInv
  OBVIOUS
<1>1. Shape
  <2>1. /\ pending \in BOOLEAN /\ active \in BOOLEAN
        /\ mutex \in Thread \cup {NoThread}
    BY DEF Init
  <2>2. reads \in [Thread -> 0..MaxDepth]
    BY GateAssumption DEF Init
  <2>3. /\ pc \in [Thread -> Label]
        /\ boss \in [Worker -> Main \cup {NoThread}]
    BY DEF Init, Label
  <2> QED BY <2>1, <2>2, <2>3 DEF Init, Shape, AllBits, ActiveBit
<1>2. Tokens = {} /\ Queue = {} /\ Parking = {}
  BY GateAssumption DEF Init, Tokens, Transient, Queue, InQueue, Parking
<1>3. CountsExact
  BY <1>2, FS_EmptySet DEF Init, CountsExact
<1>4. SlotInv
  BY DEF Init, SlotInv, Claimed, Writing
<1>5. DepthInv
  BY GateAssumption DEF Init, DepthInv, Entering, Thread
<1> QED BY <1>1, <1>3, <1>4, <1>5 DEF IInv

-----------------------------------------------------------------------------
(* One lemma per action *)

\* Steps that move no counter: every token, queued reader and parked thread
\* stays what it was.
LEMMA QuietStep ==
    ASSUME IInv, NEW t \in Thread,
           \/ Grace(t) \/ Claim(t) \/ SpinPass(t)
           \/ Relock(t) \/ Timeout(t) \/ WakeParked(t) \/ NotifyAll(t)
    PROVE  IInv'
<1> USE DEF IInv, Shape, Grace, Claim, SpinPass, Relock, Timeout, WakeParked,
            NotifyAll, Goto, InWait, AfterWait, state, wait, local
<1>1. Shape'
  <2>1. CASE Claim(t)
    <3>1. pending' \in BOOLEAN /\ active' \in BOOLEAN
      BY <2>1
    <3> QED BY <2>1, <3>1 DEF Label
  <2>2. CASE Grace(t) \/ SpinPass(t) \/ WakeParked(t)
    BY <2>2 DEF Label
  <2>3. CASE Relock(t) \/ Timeout(t)
    BY <2>3
  <2>4. CASE NotifyAll(t)
    BY <2>4 DEF Label
  <2> QED BY <2>1, <2>2, <2>3, <2>4
<1>2. Tokens' = Tokens /\ Queue' = Queue /\ Parking' = Parking
  BY DEF Tokens, Transient, Queue, InQueue, Parking
<1>3. CountsExact'
  BY <1>2 DEF CountsExact
<1>4. SlotInv'
  BY DEF SlotInv, Claimed, Writing
<1>5. DepthInv'
  BY DEF DepthInv, Entering, Thread
<1> QED BY <1>1, <1>3, <1>4, <1>5

\* The flip of pending to active: the count it found is zero, so no guard is
\* held, and only the thread that claimed the slot gets this far.
LEMMA DrainStep ==
    ASSUME IInv, NEW t \in Thread, Drain(t)
    PROVE  IInv'
<1> USE DEF IInv, Shape, Drain, Goto, wait
<1>1. Shape'
  <2>1. pending' \in BOOLEAN /\ active' \in BOOLEAN
    OBVIOUS
  <2>2. pc' \in [Thread -> Label] /\ ledger' \in [Thread -> {"none", "read", "write"}]
    BY DEF Label
  <2> QED BY <2>1, <2>2
<1>2. Tokens' = Tokens /\ Queue' = Queue /\ Parking' = Parking
  BY DEF Tokens, Transient, Queue, InQueue, Parking
<1>3. CountsExact'
  BY <1>2 DEF CountsExact
<1>4. SlotInv'
  BY ZeroCount DEF SlotInv, Claimed, Writing
<1>5. DepthInv'
  BY DEF DepthInv, Entering, InWait, Thread
<1> QED BY <1>1, <1>3, <1>4, <1>5

\* Taking the write side keeps the invariant.
LEMMA WriteEnterStep ==
    ASSUME IInv, NEW t \in Main, NEW b \in {"run", "install"}, WriteEnter(t, b)
    PROVE  IInv'
<1> USE DEF IInv, Shape, WriteEnter, Goto, state, wait, Thread
<1>1. Shape'
  BY DEF Label
<1>2. Tokens' = Tokens /\ Queue' = Queue /\ Parking' = Parking
  BY DEF Tokens, Transient, Queue, InQueue, Parking
<1>3. CountsExact'
  BY <1>2 DEF CountsExact
<1>4. SlotInv'
  BY DEF SlotInv, Claimed, Writing
<1>5. DepthInv'
  BY GateAssumption DEF DepthInv, Entering, InWait
<1> QED BY <1>1, <1>3, <1>4, <1>5

\* Giving the write side up keeps the invariant.
LEMMA WriteExitStep ==
    ASSUME IInv, NEW t \in Main, WriteExit(t)
    PROVE  IInv'
<1> USE DEF IInv, Shape, WriteExit, Goto, wait, Thread
<1>1. Shape'
  BY DEF Label
<1>2. Tokens' = Tokens /\ Queue' = Queue /\ Parking' = Parking
  BY DEF Tokens, Transient, Queue, InQueue, Parking
<1>3. CountsExact'
  BY <1>2 DEF CountsExact
<1>4. SlotInv'
  BY DEF SlotInv, Claimed, Writing
<1>5. DepthInv'
  BY DEF DepthInv, Entering, InWait
<1> QED BY <1>1, <1>3, <1>4, <1>5

\* Starting and joining the scan workers keeps the invariant.
LEMMA WorkersStep ==
    ASSUME IInv, NEW t \in Main,
           \/ JoinWorkers(t)
           \/ \E ws \in SUBSET Worker : SpawnWorkers(t, ws)
    PROVE  IInv'
<1> USE GateAssumption DEF IInv, Shape, JoinWorkers, SpawnWorkers, Goto, state, wait, local, Thread
<1>1. Shape'
  BY DEF Label
<1>2. Tokens' = Tokens /\ Queue' = Queue /\ Parking' = Parking
  BY DEF Tokens, Transient, Queue, InQueue, Parking
<1>3. CountsExact'
  BY <1>2 DEF CountsExact
<1>4. SlotInv'
  BY DEF SlotInv, Claimed, Writing
<1>5. DepthInv'
  BY DEF DepthInv, Entering, InWait
<1> QED BY <1>1, <1>3, <1>4, <1>5

\* A parked thread comes and goes.
LEMMA ParkStep ==
    ASSUME IInv, NEW t \in Thread, Park(t) \/ ParkCheck(t)
    PROVE  IInv'
<1> USE DEF IInv, Shape, Park, ParkCheck, Goto, InWait, AfterWait, state, local
<1>1. Shape'
  BY DEF Label
<1>2. Tokens' = Tokens /\ Queue' = Queue
  BY DEF Tokens, Transient, Queue, InQueue, DepthInv
<1>3. parked' = Cardinality(Parking')
  <2>1. CASE Park(t)
    <3>1. Parking' = Parking \cup {t} /\ t \notin Parking
      BY <2>1 DEF Parking
    <3> QED BY <2>1, <3>1, ParkingFinite, CardAdd DEF CountsExact
  <2>2. CASE ParkCheck(t) /\ Blocked(t)
    <3>1. Parking' = Parking
      BY <2>2 DEF Parking
    <3> QED BY <2>2, <3>1 DEF CountsExact
  <2>3. CASE ParkCheck(t) /\ ~Blocked(t)
    <3>1. Parking' = Parking \ {t} /\ t \in Parking
      BY <2>3 DEF Parking
    <3> QED BY <2>3, <3>1, ParkingFinite, CardRemove DEF CountsExact
  <2> QED BY <2>1, <2>2, <2>3
<1>4. CountsExact'
  BY <1>2, <1>3 DEF CountsExact
<1>5. SlotInv'
  BY DEF SlotInv, Claimed, Writing
<1>6. DepthInv'
  BY DEF DepthInv, Entering, Thread
<1> QED BY <1>1, <1>4, <1>5, <1>6

\* What taking and dropping a guard, and an increment and its back-out, do
\* to the set the reader count counts.
LEMMA GuardTaken ==
    ASSUME Shape, CountsExact, NEW t \in Thread, reads[t] < MaxDepth,
           reads' = [reads EXCEPT ![t] = @ + 1],
           \A u \in Thread : Transient(u)' <=> Transient(u),
           count' = count + 1
    PROVE  count' = Cardinality(Tokens')
<1>1. Tokens' = Tokens \cup {<<t, reads[t]>>} /\ <<t, reads[t]>> \notin Tokens
  BY GateAssumption DEF Shape, Tokens
<1> QED BY <1>1, TokensFinite, CardAdd DEF CountsExact

\* What the drop of a read guard does to the set of tokens.
LEMMA GuardDropped ==
    ASSUME Shape, CountsExact, NEW t \in Thread, reads[t] > 0,
           reads' = [reads EXCEPT ![t] = @ - 1],
           \A u \in Thread : Transient(u)' <=> Transient(u),
           count' = count - 1
    PROVE  count' = Cardinality(Tokens')
<1>1. Tokens' = Tokens \ {<<t, reads[t] - 1>>} /\ <<t, reads[t] - 1>> \in Tokens
  BY GateAssumption DEF Shape, Tokens
<1> QED BY <1>1, TokensFinite, CardRemove DEF CountsExact

\* What the increment of the reader count does to the set of tokens.
LEMMA Incremented ==
    ASSUME Shape, CountsExact, NEW t \in Thread, reads' = reads,
           ~Transient(t), Transient(t)',
           \A u \in Thread \ {t} : Transient(u)' <=> Transient(u),
           count' = count + 1
    PROVE  count' = Cardinality(Tokens')
<1>1. Tokens' = Tokens \cup {<<t, MaxDepth>>} /\ <<t, MaxDepth>> \notin Tokens
  BY GateAssumption DEF Shape, Tokens
<1> QED BY <1>1, TokensFinite, CardAdd DEF CountsExact

\* What backing out of an increment does to the set of tokens.
LEMMA BackedOut ==
    ASSUME Shape, CountsExact, NEW t \in Thread, reads' = reads,
           Transient(t), ~Transient(t)',
           \A u \in Thread \ {t} : Transient(u)' <=> Transient(u),
           reads[t] < MaxDepth,
           count' = count - 1
    PROVE  count' = Cardinality(Tokens')
<1>1. Tokens' = Tokens \ {<<t, MaxDepth>>} /\ <<t, MaxDepth>> \in Tokens
  BY GateAssumption DEF Shape, Tokens
<1> QED BY <1>1, TokensFinite, CardRemove DEF CountsExact

\* A reader that finds a writer and backs out keeps the invariant.
LEMMA BackOutStep ==
    ASSUME IInv, NEW t \in Thread, BackOut(t) \/ ReBackOut(t)
    PROVE  IInv'
<1> USE DEF IInv, Shape, BackOut, ReBackOut, ReleaseRead, Goto, wait, local
<1>1. Shape'
  BY DEF Label
<1>2. Queue' = Queue /\ Parking' = Parking
  BY DEF Queue, InQueue, Parking
<1>3. count' = Cardinality(Tokens')
  BY BackedOut DEF Transient, DepthInv, Entering
<1>4. CountsExact'
  BY <1>2, <1>3 DEF CountsExact
<1>5. SlotInv'
  BY DEF SlotInv, Claimed, Writing
<1>6. DepthInv'
  BY DEF DepthInv, Entering, InWait, Thread
<1> QED BY <1>1, <1>4, <1>5, <1>6

\* A reader that registers as a waiter keeps the invariant.
LEMMA EnqueueStep ==
    ASSUME IInv, NEW t \in Thread, Enqueue(t)
    PROVE  IInv'
<1> USE DEF IInv, Shape, Enqueue, Goto, state, wait, local
<1>1. Shape'
  BY DEF Label
<1>2. Tokens' = Tokens /\ Parking' = Parking
  BY DEF Tokens, Transient, Parking
<1>3. Queue' = Queue \cup {t} /\ t \notin Queue
  BY DEF Queue, InQueue
<1>4. CountsExact'
  BY <1>2, <1>3, QueueFinite, CardAdd DEF CountsExact
<1>5. SlotInv'
  BY DEF SlotInv, Claimed, Writing
<1>6. DepthInv'
  BY DEF DepthInv, Entering, InWait, Thread
<1> QED BY <1>1, <1>4, <1>5, <1>6

\* A waiter that wakes and tries again keeps the invariant.
LEMMA RetryStep ==
    ASSUME IInv, NEW t \in Thread, Retry(t)
    PROVE  IInv'
<1> USE DEF IInv, Shape, Retry, Goto, Admit, wait
<1>1. reads[t] < MaxDepth
  BY DEF DepthInv, Entering
<1>2. Shape'
  BY <1>1, GateAssumption DEF Label
<1>3. Parking' = Parking
  BY DEF Parking
<1>4. CASE ReadBlocked(mask[t])
  <2>1. Queue' = Queue
    BY <1>4 DEF Queue, InQueue
  <2>2. count' = Cardinality(Tokens')
    BY <1>4, Incremented DEF Transient
  <2>3. CountsExact'
    BY <1>3, <1>4, <2>1, <2>2 DEF CountsExact
  <2>4. SlotInv'
    BY <1>4 DEF SlotInv, Claimed, Writing
  <2>5. DepthInv'
    BY <1>4 DEF DepthInv, Entering, InWait, Thread
  <2> QED BY <1>2, <2>3, <2>4, <2>5
<1>5. CASE ~ReadBlocked(mask[t])
  <2>1. Queue' = Queue \ {t} /\ t \in Queue
    BY <1>5 DEF Queue, InQueue
  <2>2. count' = Cardinality(Tokens')
    BY <1>1, <1>5, GuardTaken DEF Transient
  <2>3. CountsExact'
    BY <1>3, <1>5, <2>1, <2>2, QueueFinite, CardRemove DEF CountsExact
  <2>4. SlotInv'
    BY <1>5 DEF SlotInv, Claimed, Writing, ReadBlocked
  <2>5. DepthInv'
    BY <1>5, GateAssumption DEF DepthInv, Entering, InWait, Thread
  <2> QED BY <1>2, <2>3, <2>4, <2>5
<1> QED BY <1>4, <1>5

\* A thread that asks for the read side keeps the invariant.
LEMMA PlainReaderGateStep ==
    ASSUME IInv, NEW t \in Main, PlainReaderGate(t)
    PROVE  IInv'
<1> USE DEF IInv, Shape, PlainReaderGate, ReadBlockedBy, Goto, Admit, wait, Thread
<1> DEFINE m == IF ledger[t] = "read" THEN ActiveBit ELSE AllBits
<1>1. reads[t] < MaxDepth
  OBVIOUS
<1>2. Shape'
  BY <1>1, GateAssumption DEF Label
<1>3. Queue' = Queue /\ Parking' = Parking
  BY DEF Queue, InQueue, Parking
<1>4. CASE ReadBlocked(m)
  <2>1. count' = Cardinality(Tokens')
    BY <1>4, Incremented DEF Transient
  <2>2. CountsExact'
    BY <1>3, <2>1 DEF CountsExact
  <2>3. SlotInv'
    BY <1>4 DEF SlotInv, Claimed, Writing
  <2>4. DepthInv'
    BY <1>4, GateAssumption DEF DepthInv, Entering, InWait
  <2> QED BY <1>2, <2>2, <2>3, <2>4
<1>5. CASE ~ReadBlocked(m)
  <2>1. count' = Cardinality(Tokens')
    BY <1>1, <1>5, GuardTaken DEF Transient
  <2>2. CountsExact'
    BY <1>3, <2>1 DEF CountsExact
  <2>3. SlotInv'
    BY <1>5 DEF SlotInv, Claimed, Writing, ReadBlocked
  <2>4. DepthInv'
    BY <1>5, GateAssumption DEF DepthInv, Entering, InWait
  <2> QED BY <1>2, <2>2, <2>3, <2>4
<1> QED BY <1>4, <1>5

\* A worker that enters under its boss keeps the invariant.
LEMMA PlainReaderGateChildStep ==
    ASSUME IInv, NEW t \in Worker, PlainReaderGateChild(t)
    PROVE  IInv'
<1> USE DEF IInv, Shape, PlainReaderGateChild, Goto, Admit, wait, Thread
<1>1. reads[t] < MaxDepth
  BY DEF DepthInv, Entering
<1>2. Shape'
  BY <1>1, GateAssumption DEF Label
<1>3. Queue' = Queue /\ Parking' = Parking
  BY DEF Queue, InQueue, Parking
<1>4. CASE ledger[boss[t]] = "write"
  <2>1. Tokens' = Tokens
    BY <1>4 DEF Tokens, Transient
  <2>2. CountsExact'
    BY <1>3, <1>4, <2>1 DEF CountsExact
  <2>3. SlotInv' /\ DepthInv'
    BY <1>4 DEF SlotInv, Claimed, Writing, DepthInv, Entering, InWait
  <2> QED BY <1>2, <2>2, <2>3
<1>5. CASE ledger[boss[t]] # "write" /\ ReadBlocked(ActiveBit)
  <2>1. count' = Cardinality(Tokens')
    BY <1>5, Incremented DEF Transient
  <2>2. CountsExact'
    BY <1>3, <2>1 DEF CountsExact
  <2>3. SlotInv' /\ DepthInv'
    BY <1>5 DEF SlotInv, Claimed, Writing, DepthInv, Entering, InWait
  <2> QED BY <1>2, <2>2, <2>3
<1>6. CASE ledger[boss[t]] # "write" /\ ~ReadBlocked(ActiveBit)
  <2>1. count' = Cardinality(Tokens')
    BY <1>1, <1>6, GuardTaken DEF Transient
  <2>2. CountsExact'
    BY <1>3, <2>1 DEF CountsExact
  <2>3. SlotInv'
    BY <1>6 DEF SlotInv, Claimed, Writing, ReadBlocked
  <2>4. DepthInv'
    BY <1>6, GateAssumption DEF DepthInv, Entering, InWait
  <2> QED BY <1>2, <2>2, <2>3, <2>4
<1> QED BY <1>4, <1>5, <1>6

\* A worker that finishes keeps the invariant.
LEMMA WorkerDoneStep ==
    ASSUME IInv, NEW t \in Worker, WorkerDone(t)
    PROVE  IInv'
<1> USE DEF IInv, Shape, WorkerDone, ReleaseRead, Goto, wait, Thread
<1>1. Shape'
  BY GateAssumption DEF Label
<1>2. Queue' = Queue /\ Parking' = Parking
  BY DEF Queue, InQueue, Parking
<1>3. count' = Cardinality(Tokens')
  <2>1. CASE reads[t] > 0
    <3>1. \A u \in Thread : Transient(u)' <=> Transient(u)
      BY <2>1 DEF Transient
    <3>2. /\ t \in Thread /\ reads' = [reads EXCEPT ![t] = @ - 1] /\ count' = count - 1
          /\ Shape /\ CountsExact
      BY <2>1
    <3> QED BY ONLY <2>1, <3>1, <3>2, GuardDropped
  <2>2. CASE ~(reads[t] > 0)
    <3>1. Tokens' = Tokens
      BY <2>2 DEF Tokens, Transient
    <3> QED BY <2>2, <3>1 DEF CountsExact
  <2> QED BY <2>1, <2>2
<1>4. CountsExact'
  BY <1>2, <1>3 DEF CountsExact
<1>5. SlotInv'
  BY DEF SlotInv, Claimed, Writing
<1>6. DepthInv'
  BY GateAssumption DEF DepthInv, Entering, InWait
<1> QED BY <1>1, <1>4, <1>5, <1>6

\* The drop of a read guard keeps the invariant.
LEMMA ReadExitStep ==
    ASSUME IInv, NEW t \in Main, ReadExit(t)
    PROVE  IInv'
<1> USE DEF IInv, Shape, ReadExit, ReleaseRead, Goto, wait, Thread
<1>1. Shape'
  BY GateAssumption DEF Label
<1>2. Queue' = Queue /\ Parking' = Parking
  BY DEF Queue, InQueue, Parking
<1>3. count' = Cardinality(Tokens')
  <2>1. \A u \in Thread : Transient(u)' <=> Transient(u)
    BY DEF Transient
  <2>2. /\ t \in Thread /\ reads[t] > 0 /\ reads' = [reads EXCEPT ![t] = @ - 1] /\ count' = count - 1
        /\ Shape /\ CountsExact
    OBVIOUS
  <2> QED BY ONLY <2>1, <2>2, GuardDropped
<1>4. CountsExact'
  BY <1>2, <1>3 DEF CountsExact
<1>5. SlotInv'
  BY DEF SlotInv, Claimed, Writing
<1>6. DepthInv'
  BY GateAssumption DEF DepthInv, Entering, InWait
<1> QED BY <1>1, <1>4, <1>5, <1>6

-----------------------------------------------------------------------------

\* Every step keeps the invariant.
LEMMA StepIInv == IInv /\ [Next]_vars => IInv'
<1> SUFFICES ASSUME IInv, [Next]_vars PROVE IInv'
  OBVIOUS
<1>1. ASSUME NEW t \in Thread, GateStep(t) \/ Timeout(t) PROVE IInv'
  BY <1>1, QuietStep, DrainStep, ParkStep, BackOutStep, EnqueueStep, RetryStep
     DEF GateStep
<1>2. ASSUME NEW w \in Worker, WorkerStep(w) PROVE IInv'
  BY <1>2, PlainReaderGateChildStep, WorkerDoneStep DEF WorkerStep
<1>3. ASSUME NEW t \in Main,
             \/ PlainReaderGate(t) \/ ReadExit(t)
             \/ \E b \in {"run", "install"} : WriteEnter(t, b)
             \/ WriteExit(t)
             \/ JoinWorkers(t)
             \/ \E ws \in SUBSET Worker : SpawnWorkers(t, ws)
      PROVE  IInv'
  BY <1>3, PlainReaderGateStep, ReadExitStep, WriteEnterStep, WriteExitStep,
     WorkersStep
<1>4. CASE UNCHANGED vars
  <2> USE <1>4 DEF IInv, vars, state, wait, local
  <2>1. Shape'
    BY DEF Shape
  <2>2. Tokens' = Tokens /\ Queue' = Queue /\ Parking' = Parking
    BY DEF Tokens, Transient, Queue, InQueue, Parking
  <2>3. CountsExact'
    BY <2>2 DEF CountsExact
  <2>4. SlotInv' /\ DepthInv'
    BY DEF SlotInv, Claimed, Writing, DepthInv, Entering, InWait
  <2> QED BY <2>1, <2>3, <2>4
<1> QED BY <1>1, <1>2, <1>3, <1>4 DEF Next

\* The counters of the gate count what they claim to count, one writer at a
\* time is past the claim, in every reachable state.
THEOREM GateInvariant == Spec => []IInv
BY InitIInv, StepIInv, PTL DEF Spec

\* Every variable of the gate keeps its type; the counters never go below
\* zero although every back-out subtracts from them.
THEOREM GateTypes == Spec => []TypeOK
<1>1. IInv => TypeOK
  BY TypeFromCounts DEF IInv
<1> QED BY <1>1, GateInvariant, PTL

\* "readers share; the writer is exclusive", for any number of threads: no
\* thread holds a read guard while another is inside the write side, and no
\* two threads are inside the write side.
THEOREM GateExclusion == Spec => []Exclusion
<1>1. IInv => Exclusion
  BY DEF IInv, SlotInv, Exclusion
<1> QED BY <1>1, GateInvariant, PTL

\* A gate nobody is in is as good as new: no count, flag, queued reader or
\* parked thread survives the last thread that was inside.
THEOREM GateNothingLeaks == Spec => []NothingLeaks
<1>1. ASSUME IInv PROVE NothingLeaks
  <2> SUFFICES ASSUME \A t \in Thread : /\ pc[t] \in {"run", "join"}
                                        /\ reads[t] = 0 /\ ~Writing(t)
               PROVE  count = 0 /\ ~pending /\ ~active /\ waiting = 0 /\ parked = 0
    BY DEF NothingLeaks
  <2>1. Tokens = {} /\ Queue = {} /\ Parking = {}
    BY <1>1 DEF IInv, Tokens, Transient, Queue, InQueue, Parking, DepthInv, InWait
  <2>2. ~pending /\ ~active
    BY <1>1 DEF IInv, SlotInv, Claimed
  <2> QED BY <1>1, <2>1, <2>2, FS_EmptySet DEF IInv, CountsExact
<1> QED BY <1>1, GateInvariant, PTL

\* A sleeper that a release of a count unblocks is a writer waiting for the
\* drain, and the leaver that took the count to zero goes on to wake it.
LEMMA ReleaseWakes ==
    ASSUME IInv, NoLostWakeup, NEW t \in Thread, NEW l, ReleaseRead(t, l),
           pc[t] \notin {"rwait", "claimwait", "drainwait", "wake", "notify"},
           UNCHANGED <<pending, active, park>>,
           NEW s \in Thread, mask'[s] = mask[s], park[s] = "asleep", ~Blocked(s)'
    PROVE  \E u \in Thread : pc'[u] \in {"wake", "notify"}
<1> USE DEF IInv, Shape, ReleaseRead, Goto
<1>1. InWait(s) /\ pc'[s] = pc[s]
  BY DEF DepthInv, InWait
<1>2. CASE Blocked(s)
  <2>1. pc[s] = "drainwait" /\ count' = 0
    BY <1>1, <1>2 DEF Blocked, ReadBlocked
  <2>2. pending
    BY <2>1 DEF SlotInv, Claimed
  <2>3. count = 1
    BY <2>1, TypeFromCounts DEF TypeOK
  <2> QED BY <2>2, <2>3
<1>3. CASE ~Blocked(s)
  BY <1>1, <1>3 DEF NoLostWakeup
<1> QED BY <1>2, <1>3

\* A step keeps every sleeper either blocked or with a waker under way.
LEMMA WakeupStep == IInv /\ NoLostWakeup /\ [Next]_vars => NoLostWakeup'
<1> SUFFICES ASSUME IInv, NoLostWakeup, [Next]_vars,
                    NEW s \in Thread, park'[s] = "asleep", ~Blocked(s)'
             PROVE  \E u \in Thread : pc'[u] \in {"wake", "notify"}
  BY DEF NoLostWakeup
<1> DEFINE Waker == \E u \in Thread : pc'[u] \in {"wake", "notify"}
<1> USE DEF IInv, Shape, Goto, state, wait, local
<1>1. ASSUME NEW t \in Thread, BackOut(t) \/ ReBackOut(t) PROVE Waker
  BY <1>1, ReleaseWakes DEF BackOut, ReBackOut
<1>2. ASSUME NEW t \in Main, ReadExit(t) PROVE Waker
  BY <1>2, ReleaseWakes DEF ReadExit, Thread
<1>3. ASSUME NEW t \in Worker, WorkerDone(t) PROVE Waker
  <2>1. CASE reads[t] > 0
    BY <1>3, <2>1, ReleaseWakes DEF WorkerDone, Thread
  <2>2. CASE ~(reads[t] > 0)
    BY <1>3, <2>2 DEF WorkerDone, NoLostWakeup, Blocked, ReadBlocked, Thread
  <2> QED BY <2>1, <2>2
<1>4. ASSUME NEW t \in Main, WriteExit(t) PROVE Waker
  BY <1>4 DEF WriteExit, Thread
<1>5. ASSUME NEW t \in Thread, WakeParked(t) PROVE Waker
  <2>1. s \in Parking
    BY <1>5 DEF WakeParked, Parking
  <2>2. parked # 0
    BY <2>1, ParkingFinite, FS_EmptySet DEF CountsExact
  <2> QED BY <1>5, <2>2 DEF WakeParked
<1>6. ASSUME NEW t \in Thread, NotifyAll(t) PROVE Waker
  BY <1>6 DEF NotifyAll
<1>7. ASSUME NEW t \in Thread, Park(t) \/ ParkCheck(t) PROVE Waker
  BY <1>7 DEF Park, ParkCheck, NoLostWakeup, Blocked, ReadBlocked, AfterWait, InWait, DepthInv
<1>8. ASSUME NEW t \in Thread,
             Enqueue(t) \/ Grace(t) \/ SpinPass(t) \/ Relock(t) \/ Timeout(t)
      PROVE  Waker
  BY <1>8 DEF Enqueue, Grace, SpinPass, Relock, Timeout, NoLostWakeup, Blocked,
              ReadBlocked, AfterWait, InWait, DepthInv
<1>9. ASSUME NEW t \in Thread, Claim(t) \/ Drain(t) PROVE Waker
  BY <1>9 DEF Claim, Drain, NoLostWakeup, Blocked, ReadBlocked, InWait, DepthInv
<1>10. ASSUME NEW t \in Thread, Retry(t) PROVE Waker
  BY <1>10, TypeFromCounts DEF Retry, NoLostWakeup, Blocked, ReadBlocked, InWait,
              DepthInv, TypeOK
<1>11. ASSUME NEW t \in Main, PlainReaderGate(t) PROVE Waker
  BY <1>11, TypeFromCounts DEF PlainReaderGate, ReadBlockedBy, NoLostWakeup, Blocked,
              ReadBlocked, InWait, DepthInv, TypeOK, Thread
<1>12. ASSUME NEW t \in Worker, PlainReaderGateChild(t) PROVE Waker
  BY <1>12, TypeFromCounts DEF PlainReaderGateChild, NoLostWakeup, Blocked,
              ReadBlocked, InWait, DepthInv, TypeOK, Thread
<1>13. ASSUME NEW t \in Main,
              \/ \E b \in {"run", "install"} : WriteEnter(t, b)
              \/ JoinWorkers(t)
              \/ \E ws \in SUBSET Worker : SpawnWorkers(t, ws)
       PROVE  Waker
  BY <1>13 DEF WriteEnter, JoinWorkers, SpawnWorkers, NoLostWakeup, Blocked,
              ReadBlocked, InWait, DepthInv, Thread
<1>14. CASE UNCHANGED vars
  BY <1>14 DEF vars, NoLostWakeup, Blocked, ReadBlocked
<1> QED
  BY <1>1, <1>2, <1>3, <1>4, <1>5, <1>6, <1>7, <1>8, <1>9, <1>10, <1>11, <1>12,
     <1>13, <1>14 DEF Next, GateStep, WorkerStep

\* "either we see the waiter parked ... or it sees our state change and never
\* sleeps": no interleaving of the parking and the waking side loses a
\* wake-up, so the 1 ms timed wait is only a belt.
THEOREM GateNoLostWakeup == Spec => []NoLostWakeup
<1>1. Init => NoLostWakeup
  BY DEF Init, NoLostWakeup
<1> QED BY <1>1, WakeupStep, GateInvariant, PTL DEF Spec
=============================================================================
