-------------------------- MODULE WalDurableProofs --------------------------
(***************************************************************************)
(* Group commit, for any number of committers and commits, any page sets   *)
(* and any threshold: no committer sleeps without a leader, with every     *)
(* fault; a commit that returned Ok is in whatever a reopening recovers,   *)
(* and plain commits are recovered whole.                                  *)
(***************************************************************************)
EXTENDS WalCommit, Integers, FiniteSetTheorems, WellFoundedInduction, TLAPS

-----------------------------------------------------------------------------
(* The leader and the followers of group_sync. *)

\* The invariant of the induction: the labels are labels and the protocol
\* is in order.  Nothing about the log, the files or the locks is needed.
IInv ==
    /\ setup \in Setups
    /\ pc \in [Thread -> Label]
    /\ syncing \in BOOLEAN
    /\ SleepersHaveLeader

\* The database opens with nobody leading and nobody asleep.
LEMMA InitIInv == Init => IInv
  BY DEF Init, IInv, SleepersHaveLeader, Label, Leading

\* The steps a thread makes without becoming or ceasing to be the leader.
Keeps(t, l) ==
    /\ setup' = setup
    /\ pc' = [pc EXCEPT ![t] = l]
    /\ syncing' = syncing
    /\ pc[t] # "waiting" /\ l \in Label
    /\ Deferred /\ Full => (l \in Leading <=> pc[t] \in Leading)
    /\ Deferred /\ Full => (l = "waiting" => syncing)

\* Such a step keeps the invariant.
LEMMA KeepsIInv == ASSUME IInv, NEW t \in Thread, NEW l, Keeps(t, l) PROVE IInv'
  <1> USE DEF IInv, Keeps, SleepersHaveLeader, Deferred, Full
  <1>1. pc' \in [Thread -> Label] /\ syncing' \in BOOLEAN
    OBVIOUS
  <1>2. SUFFICES ASSUME Deferred, Full PROVE SleepersHaveLeader'
    BY <1>1
  <1>3. \A u \in Thread : pc'[u] \in Leading <=> pc[u] \in Leading
    BY <1>2
  <1>4. \A u \in Thread : pc'[u] = "waiting" => pc[u] = "waiting" \/ syncing
    BY <1>2
  <1> QED BY <1>1, <1>2, <1>3, <1>4

\* Every step of the committers keeps it.
LEMMA NextIInv == IInv /\ [Next]_vars => IInv'
  <1> SUFFICES ASSUME IInv, [Next]_vars PROVE IInv'
    OBVIOUS
  <1>1. CASE UNCHANGED vars
    BY <1>1 DEF IInv, SleepersHaveLeader, Deferred, Full, vars, group
  <1>2. ASSUME NEW t \in Thread, Step(t) \/ \E W \in Writes : Begin(t, W)
        PROVE IInv'
    <2> USE DEF Goto, Leading, Label, Deferred, Full
    <2>1. CASE \E W \in Writes : Begin(t, W)
      <3>1. Keeps(t, "install")
        BY <2>1 DEF Begin, Keeps, group
      <3> QED BY <3>1, KeepsIInv
    <2>2. CASE \E p \in Page : InstallPage(t, p) \/ FoldPage(t, p)
      BY <2>2 DEF InstallPage, FoldPage, IInv, SleepersHaveLeader, group
    <2>3. CASE WalAppend(t)
      <3>1. Keeps(t, IF Deferred THEN "sync" ELSE "due")
        BY <2>3, WalCommitAssumption DEF WalAppend, CanAppend, Keeps, group
      <3> QED BY <3>1, KeepsIInv
    <2>4. CASE AppendFails(t)
      <3>1. Keeps(t, "idle")
        BY <2>4 DEF AppendFails, CanAppend, Keeps, group
      <3> QED BY <3>1, KeepsIInv
    <2>5. CASE Covered(t)
      <3>1. Keeps(t, "idle")
        BY <2>5 DEF Covered, Keeps, group
      <3> QED BY <3>1, KeepsIInv
    <2>6. CASE Lead(t)
      BY <2>6 DEF Lead, IInv, SleepersHaveLeader
    <2>7. CASE Follow(t)
      <3>1. \E l \in Label : Keeps(t, l)
        BY <2>7 DEF Follow, Keeps, group
      <3> QED BY <3>1, KeepsIInv
    <2>8. CASE SkipSync(t)
      <3>1. Keeps(t, "due")
        BY <2>8 DEF SkipSync, Keeps, group
      <3> QED BY <3>1, KeepsIInv
    <2>9. CASE LoadTarget(t) \/ Fsync(t) \/ FsyncFails(t)
      <3>1. \E l \in Label : Keeps(t, l)
        BY <2>9 DEF LoadTarget, Fsync, FsyncFails, Keeps, group
      <3> QED BY <3>1, KeepsIInv
    <2>10. CASE Report(t)
      <3>1. pc' \in [Thread -> Label]
        BY <2>10 DEF Report, IInv
      <3>2. Deferred /\ Full /\ syncing' = FALSE /\ pc[t] \in Leading
        BY <2>10 DEF Report
      <3>3. \A u \in Thread : pc'[u] \notin Leading /\ pc'[u] # "waiting"
        BY <2>10, <3>2 DEF Report, IInv, SleepersHaveLeader
      <3>4. setup' \in Setups
        BY <2>10 DEF Report, IInv
      <3>5. SleepersHaveLeader'
        BY <3>2, <3>3 DEF SleepersHaveLeader
      <3> QED BY <3>1, <3>2, <3>4, <3>5 DEF IInv
    <2>11. CASE Return(t)
      <3>1. Keeps(t, "idle")
        BY <2>11 DEF Return, Keeps, group
      <3> QED BY <3>1, KeepsIInv
    <2>12. CASE Due(t) \/ DeferFold(t) \/ StartFold(t) \/ FoldSync(t) \/ Reset(t)
      <3>1. \E l \in Label : Keeps(t, l)
        BY <2>12 DEF Due, DeferFold, StartFold, FoldSync, Reset, Keeps, group
      <3> QED BY <3>1, KeepsIInv
    <2> QED BY <1>2, <2>1, <2>2, <2>3, <2>4, <2>5, <2>6, <2>7, <2>8, <2>9, <2>10,
               <2>11, <2>12 DEF Step
  <1> QED BY <1>1, <1>2 DEF Next

\* group_sync never has two leaders, `syncing` is the truth about whether it
\* has one, and a committer asleep on the condvar always has a leader that
\* will wake it, whatever fails and however many commit.
THEOREM GroupSyncLeader == Spec => []SleepersHaveLeader
  <1>1. IInv => SleepersHaveLeader
    BY DEF IInv
  <1> QED BY InitIInv, NextIInv, <1>1, PTL DEF Spec

-----------------------------------------------------------------------------
(* What a commit promises. *)

\* Nothing but an fsync fails, or commits are plain: their append cannot fail
\* with the lock given back, and they do not wait for a fold.
Harmless == Deferred => Faults \subseteq {"fsync"}

\* The commits in the log or in the main file, those only in the main file,
\* and those that a power failure cannot take away.
Installing == \E t \in Thread : pc[t] = "install"
Appended == IF Installing THEN Len(wrote) - 1 ELSE Len(wrote)
Folded == Appended - Len(log)
Secured == Folded + synced

\* A commit that is in the log and has not returned.
Pending(t) == pc[t] \notin {"idle", "install"}

Frames == [commit : Nat, pages : SUBSET Page, ok : BOOLEAN]

WTypes ==
    /\ setup \in Setups
    /\ cache \in [Page -> 0 .. MaxCommits] /\ main \in [Page -> 0 .. MaxCommits]
    /\ stable \in [Page -> 0 .. MaxCommits]
    /\ log \in Seq(Frames) /\ wrote \in Seq(Writes) /\ Len(wrote) <= MaxCommits
    /\ synced \in Nat /\ n_frames \in Nat /\ wal_frames_total \in Nat /\ durable \in Nat
    /\ syncing \in BOOLEAN /\ err \in BOOLEAN
    /\ commit_lock \in Thread \cup {None} /\ wal \in Thread \cup {None}
    /\ pc \in [Thread -> Label]
    /\ mine \in [Thread -> 0 .. MaxCommits] /\ todo \in [Thread -> SUBSET Page]
    /\ ticket \in [Thread -> Nat] /\ credit \in [Thread -> Nat]

\* Who holds which lock, and where a commit is.
LockOf(t) ==
    /\ pc[t] = "install" => /\ commit_lock = t /\ mine[t] = Len(wrote) /\ Len(wrote) > 0
                            /\ todo[t] \subseteq wrote[Len(wrote)]
    /\ ~Deferred /\ Pending(t) => commit_lock = t
    /\ wal = t <=> pc[t] \in {"fold", "reset"}
    /\ pc[t] = "fold" => todo[t] \subseteq Mapped
    /\ Pending(t) => mine[t] \in 1 .. Appended

Locks == acked \subseteq 1 .. Appended /\ \A t \in Thread : LockOf(t)

\* The log has the commits after the folded ones, each once, in their order.
FrameOf(i) ==
    /\ log[i].commit = Folded + i /\ log[i].pages = wrote[Folded + i]
    /\ Harmless => log[i].ok

LogOrder == Len(log) <= Appended /\ \A i \in 1 .. Len(log) : FrameOf(i)

\* A content of p that no commit up to k has overtaken.
Holds(v, p, k) == \A c \in 1 .. k : p \in wrote[c] => v >= c

\* The cache has every commit, the main file the folded ones, and the fold
\* leaves no page behind.
Contents ==
    /\ \A p \in Page : Holds(cache[p], p, Appended)
    /\ \A t \in Thread :
          pc[t] = "install" => \A p \in wrote[Len(wrote)] \ todo[t] : cache[p] = Len(wrote)
    /\ Harmless =>
          /\ \A p \in Page : Holds(main[p], p, Folded) /\ Holds(stable[p], p, Folded)
          /\ \A t \in Thread :
                /\ pc[t] = "fold" => \A p \in Page \ todo[t] : Holds(main[p], p, Appended)
                /\ pc[t] = "reset" => \A p \in Page : /\ Holds(main[p], p, Appended)
                                                      /\ Holds(stable[p], p, Appended)

\* Tickets count frames: what `durable` or a leader's credit covers is secured.
Tickets ==
    /\ synced <= Len(log)
    /\ durable <= wal_frames_total
    /\ \A t \in Thread : credit[t] <= wal_frames_total
    /\ Harmless /\ Full /\ Deferred =>
          \A u \in Thread : Pending(u) =>
              /\ ticket[u] <= durable => mine[u] <= Secured
              /\ \A t \in Thread :
                    pc[t] \in {"due", "report"} /\ ticket[u] <= credit[t] => mine[u] <= Secured
    /\ Full /\ ~Deferred => synced = Len(log)
    /\ Full /\ Harmless => \A c \in acked : c <= Secured

\* v is the content of p after the first k commits.
IsLast(v, p, k) == v \in 0 .. k /\ (v > 0 => p \in wrote[v]) /\ Holds(v, p, k)

\* With plain commits the cache and the files have no page of a later commit.
Exact ==
    ~Deferred =>
        /\ \A p \in Page :
              (\A t \in Thread : pc[t] = "install" => p \notin wrote[Len(wrote)] \ todo[t])
                  => IsLast(cache[p], p, Appended)
        /\ \A p \in Page \ Mapped : IsLast(main[p], p, Appended) /\ stable[p] = main[p]
        /\ \A t \in Thread :
              /\ pc[t] = "fold" => \A p \in Page \ todo[t] : IsLast(main[p], p, Appended)
              /\ pc[t] = "reset" => \A p \in Page : IsLast(main[p], p, Appended) /\ stable[p] = main[p]

DInv == WTypes /\ Locks /\ LogOrder /\ Contents /\ Tickets /\ Exact

-----------------------------------------------------------------------------
(* Greatest elements.                                                      *)

LEMMA Greatest ==
  ASSUME NEW n \in Nat, NEW S \in SUBSET (0 .. n), S # {}
  PROVE  \E m \in S : \A j \in S : j <= m
  <1> DEFINE T == {n - i : i \in S}
  <1>1. T \subseteq Nat /\ T # {}
    <2>1. ASSUME NEW i \in S PROVE n - i \in Nat
      BY <2>1
    <2>2. PICK i \in S : TRUE
      OBVIOUS
    <2>3. n - i \in T
      OBVIOUS
    <2> QED BY <2>1, <2>3
  <1>2. PICK x \in T : \A y \in T : ~(<<y, x>> \in OpToRel(<, Nat))
    <2> HIDE DEF T
    <2> QED BY <1>1, WFMin, NatLessThanWellFounded
  <1>3. \A y \in T : ~(y < x)
    BY <1>1, <1>2 DEF OpToRel
  <1>4. PICK m \in S : x = n - m
    OBVIOUS
  <1>5. ASSUME NEW j \in S PROVE j <= m
    BY <1>3, <1>4
  <1> QED BY <1>5

\* The frame that WalState::map points to.
LEMMA LatestFrameIs ==
  ASSUME WTypes, NEW p, p \in Mapped
  PROVE  \E i \in 1 .. Len(log) :
            /\ LatestFrame(p) = log[i].commit /\ log[i].ok /\ p \in log[i].pages
            /\ \A j \in 1 .. Len(log) : log[j].ok /\ p \in log[j].pages => j <= i
  <1> DEFINE at == {i \in DOMAIN log : log[i].ok /\ p \in log[i].pages}
             top == CHOOSE i \in at : \A j \in at : j <= i
  <1>1. Len(log) \in Nat /\ DOMAIN log = 1 .. Len(log)
    BY DEF WTypes
  <1>2. at \in SUBSET (0 .. Len(log)) /\ at # {}
    BY <1>1 DEF Mapped
  <1>3. \E i \in at : \A j \in at : j <= i
    <2> HIDE DEF at
    <2> QED BY <1>1, <1>2, Greatest
  <1>4. top \in at /\ \A j \in at : j <= top
    <2> HIDE DEF at
    <2> QED BY <1>3
  <1>5. LatestFrame(p) = log[top].commit
    BY DEF LatestFrame
  <1> HIDE DEF top
  <1> QED BY <1>1, <1>4, <1>5

\* The content after k commits is the one no commit up to k has overtaken.
LEMMA AfterIs ==
  ASSUME WTypes, NEW k \in 0 .. Len(wrote), NEW p \in Page, NEW v, IsLast(v, p, k)
  PROVE  After(k)[p] = v
  <1> DEFINE by == {c \in 1 .. k : p \in wrote[c]}
  <1>1. After(k)[p] = IF by = {} THEN 0 ELSE CHOOSE c \in by : \A d \in by : d <= c
    BY DEF After
  <1>2. v \in 0 .. k /\ (v > 0 => v \in by) /\ (\A c \in by : v >= c) /\ k \in Nat /\ by \subseteq Nat
    BY DEF IsLast, Holds, WTypes
  <1>3. CASE by = {}
    <2>1. v = 0
      BY <1>2, <1>3
    <2> QED BY <1>1, <1>3, <2>1
  <1>4. CASE by # {}
    <2> HIDE DEF by
    <2>1. v \in by /\ \A c \in by : c <= v
      <3>1. PICK c \in by : c > 0
        BY <1>4 DEF by
      <3> QED BY <1>2, <3>1
    <2>2. \A c \in by : (\A d \in by : d <= c) => c = v
      BY <1>2, <2>1
    <2> QED BY <1>1, <1>4, <2>1, <2>2
  <1> QED BY <1>3, <1>4
-----------------------------------------------------------------------------
(* Counting commits.                                                       *)

LEMMA Counts ==
  ASSUME WTypes, Locks, LogOrder, Tickets
  PROVE  /\ Len(wrote) \in Nat /\ Len(log) \in Nat
         /\ Appended \in Nat /\ Appended <= Len(wrote)
         /\ Folded \in Nat /\ Appended = Folded + Len(log)
         /\ Secured \in Nat /\ Folded <= Secured /\ Secured <= Appended
  <1>1. Len(wrote) \in Nat /\ Len(log) \in Nat /\ synced \in Nat
    BY DEF WTypes
  <1>2. Appended \in Nat /\ Appended <= Len(wrote)
    BY <1>1 DEF Appended, Installing, Locks, LockOf
  <1>3. Folded \in Nat /\ Appended = Folded + Len(log)
    BY <1>1, <1>2 DEF Folded, LogOrder
  <1>4. Secured \in Nat /\ Folded <= Secured /\ Secured <= Appended
    BY <1>1, <1>2, <1>3 DEF Secured, Tickets
  <1> QED BY <1>1, <1>2, <1>3, <1>4

\* What the counts depend on.
LEMMA SameCounts ==
  ASSUME UNCHANGED <<setup, log, wrote>>, \A u \in Thread : pc'[u] = "install" <=> pc[u] = "install"
  PROVE  /\ Appended' = Appended /\ Folded' = Folded /\ Mapped' = Mapped
         /\ Deferred' = Deferred /\ Full' = Full /\ (Harmless' <=> Harmless)
         /\ \A i : FrameOf(i)' <=> FrameOf(i)
  <1>1. Deferred' = Deferred /\ Full' = Full /\ (Harmless' <=> Harmless)
    BY DEF Deferred, Full, Harmless, Faults
  <1>2. Appended' = Appended
    BY DEF Appended, Installing
  <1>3. Folded' = Folded
    BY <1>2 DEF Folded
  <1>4. Mapped' = Mapped
    BY DEF Mapped
  <1>5. \A i : FrameOf(i)' <=> FrameOf(i)
    BY <1>1, <1>3 DEF FrameOf
  <1> QED BY <1>1, <1>2, <1>3, <1>4, <1>5

\* The database opens with an empty log.
LEMMA InitDInv == Init => DInv
  <1> SUFFICES ASSUME Init PROVE DInv
    OBVIOUS
  <1>0. \A t \in Thread : pc[t] = "idle" /\ credit[t] = 0
    BY DEF Init
  <1>1. /\ setup \in Setups /\ log = <<>> /\ wrote = <<>> /\ synced = 0 /\ acked = {} /\ wal = None
        /\ durable = 0 /\ wal_frames_total = 0
    BY DEF Init
  <1>2. WTypes
    <2>1. 0 \in 0 .. MaxCommits
      BY WalCommitAssumption
    <2>2. cache \in [Page -> 0 .. MaxCommits] /\ main = cache /\ stable = cache
      BY <2>1 DEF Init
    <2>3. mine \in [Thread -> 0 .. MaxCommits] /\ todo \in [Thread -> SUBSET Page]
      BY <2>1 DEF Init
    <2>4. ticket \in [Thread -> Nat] /\ credit \in [Thread -> Nat] /\ pc \in [Thread -> Label]
      BY DEF Init, Label
    <2>5. /\ n_frames \in Nat /\ syncing \in BOOLEAN /\ err \in BOOLEAN
          /\ commit_lock \in Thread \cup {None} /\ wal \in Thread \cup {None}
      BY DEF Init
    <2>6. log \in Seq(Frames) /\ wrote \in Seq(Writes) /\ Len(wrote) <= MaxCommits
      BY <1>1, WalCommitAssumption
    <2> QED BY <1>1, <2>2, <2>3, <2>4, <2>5, <2>6 DEF WTypes
  <1>3. Appended = 0 /\ Folded = 0 /\ Len(log) = 0 /\ Len(wrote) = 0
    BY <1>0, <1>1 DEF Appended, Installing, Folded
  <1>4. Locks
    <2>1. \A t \in Thread : wal # t /\ ~Pending(t)
      BY <1>0, <1>1, WalCommitAssumption DEF Pending
    <2> QED BY <1>0, <1>1, <2>1 DEF Locks, LockOf
  <1>5. LogOrder
    BY <1>3 DEF LogOrder
  <1>6. Contents
    BY <1>0, <1>3 DEF Contents, Holds
  <1>7. Tickets
    BY <1>0, <1>1, <1>3 DEF Tickets, Pending
  <1>8. Exact
    <2>1. \A p \in Page : cache[p] = 0 /\ main[p] = 0 /\ stable[p] = 0
      BY DEF Init
    <2>2. \A p \in Page : IsLast(0, p, Appended)
      BY <1>3 DEF IsLast, Holds
    <2> QED BY <1>0, <2>1, <2>2 DEF Exact
  <1> QED BY <1>2, <1>4, <1>5, <1>6, <1>7, <1>8 DEF DInv

-----------------------------------------------------------------------------
(* Steps that leave the files, the log and the cache alone.                *)

\* t is in a commit that is in the log, and stays in it or returns.
Quiet(t) ==
    /\ UNCHANGED <<setup, cache, main, stable, log, wal, mine, todo, wrote>>
    /\ Pending(t)
    /\ \/ commit_lock' = commit_lock
       \/ commit_lock' = None /\ ~Pending(t)' /\ ~Deferred
    /\ \A u \in Thread :
          \/ pc'[u] = pc[u]
          \/ /\ pc[u] \notin {"install", "fold", "reset"} /\ pc'[u] \notin {"install", "fold", "reset"}
             /\ Pending(u)' => Pending(u)
    /\ acked' \subseteq acked \cup {mine[t]}

LEMMA QuietKeeps ==
  ASSUME DInv, NEW t \in Thread, Quiet(t)
  PROVE  Locks' /\ LogOrder' /\ Contents' /\ Exact'
  <1>0. /\ UNCHANGED <<setup, cache, main, stable, log, wal, mine, todo, wrote>>
        /\ \A u \in Thread : /\ pc'[u] = "install" <=> pc[u] = "install"
                             /\ pc'[u] = "fold" <=> pc[u] = "fold"
                             /\ pc'[u] = "reset" <=> pc[u] = "reset"
                             /\ Pending(u)' => Pending(u)
    BY DEF Quiet, Pending
  <1>1. /\ Appended' = Appended /\ Folded' = Folded /\ Mapped' = Mapped
        /\ Deferred' = Deferred /\ Full' = Full /\ (Harmless' <=> Harmless)
        /\ \A i : FrameOf(i)' <=> FrameOf(i)
    BY <1>0, SameCounts
  <1>2. \A u \in Thread : LockOf(u)
    BY DEF DInv, Locks
  <1>3. Locks'
    <2>1. acked' \subseteq 1 .. Appended'
      BY <1>1, <1>2 DEF DInv, Locks, LockOf, Quiet
    <2>2. ASSUME NEW u \in Thread PROVE LockOf(u)'
      <3>1. CASE commit_lock' = commit_lock
        BY <1>0, <1>1, <1>2, <3>1 DEF LockOf
      <3>2. CASE commit_lock' = None /\ ~Pending(t)' /\ ~Deferred
        <4>1. commit_lock = t /\ pc[t] # "install"
          BY <1>2, <3>2 DEF Quiet, LockOf, Pending
        <4>2. pc'[u] # "install" /\ ~Pending(u)'
          BY <1>0, <1>2, <3>2, <4>1 DEF LockOf
        <4> QED BY <1>0, <1>1, <1>2, <4>2 DEF LockOf
      <3> QED BY <3>1, <3>2 DEF Quiet
    <2> QED BY <2>1, <2>2 DEF Locks
  <1>4. LogOrder'
    BY <1>0, <1>1 DEF DInv, LogOrder
  <1>5. Contents'
    BY <1>0, <1>1 DEF DInv, Contents, Holds
  <1>6. Exact'
    BY <1>0, <1>1 DEF DInv, Exact, IsLast, Holds
  <1> QED BY <1>3, <1>4, <1>5, <1>6
\* The counts of the tickets after a step that leaves files and log alone.
LEMMA QuietTickets ==
  ASSUME DInv, NEW t \in Thread, Quiet(t), UNCHANGED <<synced, ticket, wal_frames_total>>,
         durable' <= wal_frames_total, \A u \in Thread : credit'[u] <= wal_frames_total,
         Harmless /\ Full /\ Deferred =>
             \A u \in Thread : Pending(u) =>
                 /\ ticket[u] <= durable' => mine[u] <= Secured
                 /\ \A v \in Thread :
                       pc'[v] \in {"due", "report"} /\ ticket[u] <= credit'[v] => mine[u] <= Secured,
         Full /\ Harmless => \A c \in acked' : c <= Secured
  PROVE  Tickets'
  <1>0. /\ UNCHANGED <<setup, log, wrote, synced, mine>>
        /\ \A u \in Thread : (pc'[u] = "install" <=> pc[u] = "install") /\ (Pending(u)' => Pending(u))
    BY DEF Quiet, Pending
  <1>1. Folded' = Folded /\ Deferred' = Deferred /\ Full' = Full /\ (Harmless' <=> Harmless)
    BY <1>0, SameCounts
  <1>2. Secured' = Secured
    BY <1>0, <1>1 DEF Secured
  <1> QED BY <1>0, <1>1, <1>2 DEF Tickets, DInv

LEMMA QuietSteps ==
  ASSUME DInv, NEW t \in Thread,
         \/ Covered(t) \/ Lead(t) \/ Follow(t) \/ SkipSync(t) \/ LoadTarget(t)
         \/ Report(t) \/ Return(t) \/ Due(t) \/ DeferFold(t)
  PROVE  Locks' /\ LogOrder' /\ Contents' /\ Tickets' /\ Exact'
  <1>0. /\ pc \in [Thread -> Label] /\ credit \in [Thread -> Nat] /\ ticket \in [Thread -> Nat]
        /\ durable \in Nat /\ wal_frames_total \in Nat /\ mine \in [Thread -> 0 .. MaxCommits]
        /\ durable <= wal_frames_total /\ \A u \in Thread : credit[u] <= wal_frames_total
    BY DEF DInv, WTypes, Tickets
  <1>1. /\ Harmless /\ Full /\ Deferred =>
             \A u \in Thread : Pending(u) =>
                 /\ ticket[u] <= durable => mine[u] <= Secured
                 /\ \A v \in Thread : pc[v] \in {"due", "report"} /\ ticket[u] <= credit[v] => mine[u] <= Secured
        /\ Full /\ Harmless => \A c \in acked : c <= Secured
    BY DEF DInv, Tickets
  <1>2. ASSUME Full, ~Deferred, Pending(t) PROVE mine[t] <= Secured
    <2>1. Secured = Appended
      BY <1>2, Counts DEF DInv, Tickets, Secured
    <2> QED BY <1>2, <2>1, Counts DEF DInv, Locks, LockOf
  <1>3. ASSUME Quiet(t), Tickets' PROVE Locks' /\ LogOrder' /\ Contents' /\ Tickets' /\ Exact'
    BY <1>3, QuietKeeps
  <1> USE DEF Goto, disk, group, hist
  <1>4. CASE Covered(t)
    <2>1. Quiet(t)
      BY <1>0, <1>4 DEF Covered, Ack, Quiet, Pending
    <2>2. Full /\ Harmless => mine[t] <= Secured
      BY <1>0, <1>1, <1>2, <1>4 DEF Covered, Pending
    <2>3. Tickets'
      BY <1>0, <1>1, <1>4, <2>1, <2>2, QuietTickets DEF Covered, Ack
    <2> QED BY <1>3, <2>1, <2>3
  <1>5. CASE Lead(t) \/ Follow(t)
    <2>1. Quiet(t)
      BY <1>0, <1>5 DEF Lead, Follow, Quiet, Pending
    <2>2. /\ UNCHANGED <<synced, ticket, credit, durable, acked, wal_frames_total>>
          /\ \A v \in Thread : pc'[v] \in {"due", "report"} => pc[v] \in {"due", "report"}
      BY <1>0, <1>5 DEF Lead, Follow
    <2>3. Tickets'
      BY <1>0, <1>1, <2>1, <2>2, QuietTickets
    <2> QED BY <1>3, <2>1, <2>3
  <1>6. CASE SkipSync(t)
    <2>1. Quiet(t)
      BY <1>0, <1>6 DEF SkipSync, Quiet, Pending
    <2>2. Tickets'
      BY <1>0, <1>1, <1>6, <2>1, QuietTickets DEF SkipSync
    <2> QED BY <1>3, <2>1, <2>2
  <1>7. CASE LoadTarget(t)
    <2>1. Quiet(t)
      BY <1>0, <1>7 DEF LoadTarget, Quiet, Pending
    <2>2. /\ UNCHANGED <<synced, ticket, durable, acked, wal_frames_total>>
          /\ pc'[t] = "fsync" /\ credit'[t] = wal_frames_total
          /\ \A v \in Thread \ {t} : pc'[v] = pc[v] /\ credit'[v] = credit[v]
      BY <1>0, <1>7 DEF LoadTarget
    <2>3. Tickets'
      BY <1>0, <1>1, <2>1, <2>2, QuietTickets
    <2> QED BY <1>3, <2>1, <2>3
  <1>8. CASE Report(t)
    <2>1. Quiet(t)
      BY <1>0, <1>8 DEF Report, Quiet, Pending
    <2>2. /\ UNCHANGED <<synced, ticket, credit, acked, wal_frames_total>>
          /\ \A v \in Thread : pc'[v] \in {"due", "report"} => pc[v] \in {"due", "report"}
          /\ durable' = durable \/ (pc[t] = "report" /\ durable' \in {durable, credit[t]})
      BY <1>0, <1>8 DEF Report, Larger
    <2>3. Tickets'
      BY <1>0, <1>1, <2>1, <2>2, QuietTickets
    <2> QED BY <1>3, <2>1, <2>3
  <1>9. CASE Return(t)
    <2>1. Quiet(t)
      BY <1>0, <1>9 DEF Return, Ack, Quiet, Pending
    <2>2. /\ UNCHANGED <<synced, ticket, credit, wal_frames_total>>
          /\ durable' \in {durable, credit[t]} /\ ~(Deferred /\ Full)
          /\ acked' \subseteq acked \cup {mine[t]} /\ Pending(t)
      BY <1>9 DEF Return, Larger, Ack, Pending
    <2>3. Full => mine[t] <= Secured
      BY <1>2, <2>2
    <2>4. Tickets'
      BY <1>0, <1>1, <2>1, <2>2, <2>3, QuietTickets
    <2> QED BY <1>3, <2>1, <2>4
  <1>10. CASE Due(t)
    <2>1. Quiet(t)
      BY <1>0, <1>10 DEF Due, Quiet, Pending
    <2>2. /\ UNCHANGED <<synced, ticket, durable, acked, wal_frames_total>> /\ pc[t] = "due"
          /\ \/ pc'[t] = "report" /\ credit' = credit
             \/ pc'[t] = "gate" /\ credit'[t] \in {credit[t], wal_frames_total}
          /\ \A v \in Thread \ {t} : pc'[v] = pc[v] /\ credit'[v] = credit[v]
      BY <1>0, <1>10 DEF Due, Larger
    <2>3. Tickets'
      BY <1>0, <1>1, <2>1, <2>2, QuietTickets
    <2> QED BY <1>3, <2>1, <2>3
  <1>11. CASE DeferFold(t)
    <2>1. Quiet(t)
      BY <1>0, <1>11 DEF DeferFold, Quiet, Pending
    <2>2. ~(Harmless /\ Deferred) /\ UNCHANGED <<synced, ticket, credit, durable, acked, wal_frames_total>>
      BY <1>11 DEF DeferFold, Harmless
    <2>3. Tickets'
      BY <1>0, <1>1, <2>1, <2>2, QuietTickets
    <2> QED BY <1>3, <2>1, <2>3
  <1> QED BY <1>4, <1>5, <1>6, <1>7, <1>8, <1>9, <1>10, <1>11

\* The types.
LEMMA TypesStep == ASSUME DInv, [Next]_vars PROVE WTypes'
  <1>0. WTypes
    BY DEF DInv
  <1> USE DEF Goto, disk, group, hist
  <1>1. CASE UNCHANGED vars
    BY <1>0, <1>1 DEF vars, WTypes
  <1>2. ASSUME NEW t \in Thread, NEW W \in Writes, Begin(t, W) PROVE WTypes'
    <2>1. W \subseteq Page
      BY WalCommitAssumption
    <2>2. Len(wrote) + 1 \in 0 .. MaxCommits
      BY <1>0, <1>2, WalCommitAssumption DEF Begin, WTypes
    <2>3. wrote' \in Seq(Writes) /\ Len(wrote') = Len(wrote) + 1
      BY <1>0, <1>2 DEF Begin, WTypes
    <2> QED BY <1>0, <1>2, <2>1, <2>2, <2>3 DEF Begin, WTypes, Label
  <1>3. ASSUME NEW t \in Thread, Step(t) PROVE WTypes'
    <2>1. CASE \E p \in Page : InstallPage(t, p)
      BY <1>0, <2>1 DEF InstallPage, WTypes
    <2>2. CASE \E p \in Page : FoldPage(t, p)
      <3>1. PICK p \in Page : FoldPage(t, p)
        BY <2>2
      <3>2. p \in Mapped
        BY <3>1 DEF FoldPage, DInv, Locks, LockOf
      <3>3. LatestFrame(p) \in 0 .. MaxCommits
        <4>1. PICK i \in 1 .. Len(log) : LatestFrame(p) = log[i].commit
          BY <1>0, <3>2, LatestFrameIs
        <4>2. log[i].commit = Folded + i
          BY DEF DInv, LogOrder, FrameOf
        <4>3. /\ Len(wrote) \in Nat /\ Len(log) \in Nat /\ Folded \in Nat /\ Appended \in Nat
              /\ Appended = Folded + Len(log) /\ Appended <= Len(wrote)
          BY Counts DEF DInv
        <4>4. Len(wrote) <= MaxCommits /\ MaxCommits \in Nat
          BY <1>0, WalCommitAssumption DEF WTypes
        <4> QED BY <4>1, <4>2, <4>3, <4>4
      <3> QED BY <1>0, <3>1, <3>3 DEF FoldPage, WTypes
    <2>3. CASE WalAppend(t) \/ AppendFails(t)
      <3>1. /\ CanAppend(t) /\ \E b \in BOOLEAN : Logged(t, b)
            /\ UNCHANGED <<setup, cache, main, stable, durable, syncing, err, wal, mine, todo, credit, wrote>>
        BY <2>3 DEF WalAppend, AppendFails
      <3>2. mine[t] \in 1 .. Len(wrote) /\ wrote[mine[t]] \in Writes
        BY <1>0, <3>1 DEF CanAppend, DInv, Locks, LockOf, WTypes
      <3>3. wrote[mine[t]] \subseteq Page /\ Cardinality(wrote[mine[t]]) \in Nat
        BY <3>2, WalCommitAssumption, FS_Subset, FS_CardinalityType
      <3>4. log' \in Seq(Frames) /\ n_frames' \in Nat
        <4>1. PICK b \in BOOLEAN : Logged(t, b)
          BY <3>1
        <4> DEFINE f == [commit |-> mine[t], pages |-> wrote[mine[t]], ok |-> b]
        <4>2. mine[t] \in Nat
          BY <1>0, <3>2 DEF WTypes
        <4>3. f \in Frames
          BY <3>3, <4>2 DEF Frames
        <4>4. log' = Append(log, f) /\ n_frames' = n_frames + Cardinality(wrote[mine[t]])
          BY <4>1 DEF Logged
        <4>5. log \in Seq(Frames) /\ n_frames \in Nat
          BY <1>0 DEF WTypes
        <4> HIDE DEF f
        <4>6. log' \in Seq(Frames)
          BY <4>3, <4>4, <4>5
        <4>7. n_frames' \in Nat
          BY <3>3, <4>4, <4>5
        <4> QED BY <4>6, <4>7
      <3>5. wal_frames_total' \in Nat /\ synced' \in Nat
        <4>1. Len(log') \in Nat /\ wal_frames_total \in Nat /\ synced \in Nat
          BY <1>0, <3>4 DEF WTypes
        <4>2. CASE WalAppend(t)
          BY <3>3, <4>1, <4>2 DEF WalAppend
        <4>3. CASE AppendFails(t)
          BY <4>1, <4>3 DEF AppendFails
        <4> QED BY <2>3, <4>2, <4>3
      <3>6. /\ pc' \in [Thread -> Label] /\ ticket' \in [Thread -> Nat]
            /\ commit_lock' \in Thread \cup {None}
        <4>1. CASE WalAppend(t)
          BY <1>0, <3>5, <4>1 DEF WalAppend, WTypes, Label, Leading
        <4>2. CASE AppendFails(t)
          BY <1>0, <4>2 DEF AppendFails, WTypes, Label
        <4> QED BY <2>3, <4>1, <4>2
      <3> QED BY <1>0, <3>1, <3>4, <3>5, <3>6 DEF WTypes
    <2>4. CASE Covered(t) \/ Lead(t) \/ Follow(t) \/ SkipSync(t) \/ LoadTarget(t)
      <3>1. CASE Covered(t) \/ Follow(t)
        BY <1>0, <3>1 DEF Covered, Follow, WTypes, Label
      <3>2. CASE Lead(t)
        BY <1>0, <3>2 DEF Lead, WTypes, Label, Leading
      <3>3. CASE SkipSync(t)
        BY <1>0, <3>3 DEF SkipSync, WTypes, Label, Leading
      <3>4. CASE LoadTarget(t)
        BY <1>0, <3>4 DEF LoadTarget, WTypes, Label, Leading
      <3> QED BY <2>4, <3>1, <3>2, <3>3, <3>4
    <2>5. CASE Fsync(t) \/ FsyncFails(t)
      <3>1. Len(log) \in Nat
        BY <1>0 DEF WTypes
      <3>2. CASE Fsync(t)
        BY <1>0, <3>1, <3>2 DEF Fsync, WTypes, Label, Leading
      <3>3. CASE FsyncFails(t)
        BY <1>0, <3>3 DEF FsyncFails, WTypes, Label, Leading
      <3> QED BY <2>5, <3>2, <3>3
    <2>6. CASE Report(t)
      BY <1>0, <2>6 DEF Report, Larger, WTypes, Label
    <2>7. CASE Return(t)
      BY <1>0, <2>7 DEF Return, Larger, WTypes, Label
    <2>8. CASE Due(t) \/ DeferFold(t)
      BY <1>0, <2>8 DEF Due, DeferFold, Larger, WTypes, Label, Leading
    <2>9. CASE StartFold(t)
      <3>1. Mapped \subseteq Page
        <4>1. ASSUME NEW i \in DOMAIN log PROVE log[i].pages \subseteq Page
          <5>1. log[i] \in Frames
            BY <1>0 DEF WTypes
          <5> QED BY <5>1 DEF Frames
        <4> QED BY <4>1 DEF Mapped
      <3> QED BY <1>0, <2>9, <3>1 DEF StartFold, WTypes, Label, Leading
    <2>10. CASE FoldSync(t) \/ Reset(t)
      <3>1. CASE FoldSync(t)
        BY <1>0, <3>1 DEF FoldSync, WTypes, Label, Leading
      <3>2. CASE Reset(t)
        <4>1. log' \in Seq(Frames) /\ synced' \in Nat /\ n_frames' \in Nat
          BY <3>2 DEF Reset
        <4> QED BY <1>0, <3>2, <4>1 DEF Reset, WTypes, Label, Leading
      <3> QED BY <2>10, <3>1, <3>2
    <2> QED BY <1>3, <2>1, <2>2, <2>3, <2>4, <2>5, <2>6, <2>7, <2>8, <2>9, <2>10 DEF Step
  <1> QED BY <1>1, <1>2, <1>3 DEF Next
-----------------------------------------------------------------------------
(* Steps that change the log, the files or the cache.                      *)

\* The two locks have one holder.
LEMMA LockFacts ==
  ASSUME DInv, NEW t \in Thread
  PROVE  /\ LockOf(t)
         /\ commit_lock = None => pc[t] # "install" /\ (~Deferred => ~Pending(t))
         /\ wal = None => pc[t] \notin {"fold", "reset"}
         /\ \A u \in Thread : u # t =>
               /\ pc[t] = "install" => pc[u] # "install" /\ (~Deferred => ~Pending(u))
               /\ ~Deferred /\ Pending(t) => pc[u] # "install" /\ ~Pending(u)
               /\ pc[t] \in {"fold", "reset"} => pc[u] \notin {"fold", "reset"}
  <1>1. \A u \in Thread : LockOf(u) /\ u # None
    BY WalCommitAssumption DEF DInv, Locks
  <1> QED BY <1>1 DEF LockOf

\* A page without a frame was not changed since the log was reset.
LEMMA Unmapped ==
  ASSUME DInv, Harmless, NEW p, p \notin Mapped, NEW c \in 1 .. Appended, p \in wrote[c]
  PROVE  c <= Folded
  <1>1. /\ Len(log) \in Nat /\ Folded \in Nat /\ Appended = Folded + Len(log)
    BY Counts DEF DInv
  <1>2. SUFFICES ASSUME c > Folded PROVE FALSE
    BY <1>1
  <1>3. c - Folded \in 1 .. Len(log) /\ Folded + (c - Folded) = c
    BY <1>1, <1>2
  <1>4. FrameOf(c - Folded)
    BY <1>3 DEF DInv, LogOrder
  <1>5. log[c - Folded].ok /\ p \in log[c - Folded].pages
    BY <1>3, <1>4 DEF FrameOf
  <1>6. DOMAIN log = 1 .. Len(log)
    BY DEF DInv, WTypes
  <1> QED BY <1>3, <1>5, <1>6 DEF Mapped

\* The frame the fold may take is the last commit of its page.
LEMMA FrameIsLast ==
  ASSUME DInv, Harmless, NEW p \in Mapped
  PROVE  IsLast(LatestFrame(p), p, Appended)
  <1>1. PICK i \in 1 .. Len(log) :
            /\ LatestFrame(p) = log[i].commit /\ log[i].ok /\ p \in log[i].pages
            /\ \A j \in 1 .. Len(log) : log[j].ok /\ p \in log[j].pages => j <= i
    BY LatestFrameIs DEF DInv
  <1>2. /\ Len(log) \in Nat /\ Folded \in Nat /\ Appended \in Nat /\ Appended = Folded + Len(log)
    BY Counts DEF DInv
  <1>3. \A j \in 1 .. Len(log) : FrameOf(j)
    BY DEF DInv, LogOrder
  <1>4. LatestFrame(p) = Folded + i /\ p \in wrote[Folded + i]
    BY <1>1, <1>3 DEF FrameOf
  <1>5. ASSUME NEW c \in 1 .. Appended, p \in wrote[c] PROVE Folded + i >= c
    <2>1. CASE c <= Folded
      BY <1>2, <2>1
    <2>2. CASE c > Folded
      <3>1. c - Folded \in 1 .. Len(log) /\ Folded + (c - Folded) = c
        BY <1>2, <2>2
      <3>2. c - Folded <= i
        BY <1>1, <1>3, <1>5, <3>1 DEF FrameOf
      <3> QED BY <1>2, <3>2
    <2> QED BY <1>2, <2>1, <2>2
  <1>6. Folded + i \in 0 .. Appended
    BY <1>2
  <1> QED BY <1>4, <1>5, <1>6 DEF IsLast, Holds

\* group_sync's fsync, or a failed one, of the log.
LEMMA FsyncKeeps ==
  ASSUME DInv, NEW t \in Thread, Fsync(t) \/ (FsyncFails(t) /\ pc[t] = "fsync")
  PROVE  Locks' /\ LogOrder' /\ Contents' /\ Tickets' /\ Exact'
  <1>0. /\ pc \in [Thread -> Label] /\ pc[t] = "fsync"
        /\ UNCHANGED <<setup, cache, main, stable, log, wal, mine, todo, wrote, acked, commit_lock,
                       ticket, credit, durable, wal_frames_total>>
        /\ \A u \in Thread \ {t} : pc'[u] = pc[u]
    BY DEF Fsync, FsyncFails, Goto, group, hist, disk, DInv, WTypes
  <1>1. /\ pc'[t] \in {"due", "failed"}
        /\ \/ synced' = Len(log)
           \/ synced' = synced /\ pc'[t] = "failed"
    BY <1>0 DEF Fsync, FsyncFails, Goto, disk
  <1>2. Quiet(t)
    BY <1>0, <1>1 DEF Quiet, Pending
  <1>3. /\ Appended' = Appended /\ Folded' = Folded
        /\ Deferred' = Deferred /\ Full' = Full /\ (Harmless' <=> Harmless)
    BY <1>0, <1>1, SameCounts
  <1>4. /\ Len(log) \in Nat /\ Folded \in Nat /\ Appended \in Nat /\ Appended = Folded + Len(log)
        /\ Secured \in Nat /\ Secured <= Appended
    BY Counts DEF DInv
  <1>5. \A u \in Thread : (Pending(u)' <=> Pending(u)) /\ (Pending(u) => mine[u] <= Appended)
    BY <1>0, <1>1, <1>4 DEF Pending, DInv, Locks, LockOf
  <1>6. Tickets'
    <2>1. CASE synced' = Len(log)
      <3>1. Secured' = Appended
        BY <1>3, <1>4, <2>1 DEF Secured
      <3>2. \A c \in acked : c <= Appended
        BY <1>4 DEF DInv, Locks
      <3> QED BY <1>0, <1>3, <1>4, <1>5, <2>1, <3>1, <3>2 DEF DInv, Tickets
    <2>2. CASE synced' = synced /\ pc'[t] = "failed"
      <3>1. Secured' = Secured
        BY <1>3, <2>2 DEF Secured
      <3> QED BY <1>0, <1>3, <1>5, <2>2, <3>1 DEF DInv, Tickets
    <2> QED BY <1>1, <2>1, <2>2
  <1> QED BY <1>2, <1>6, QuietKeeps

\* A commit begins: nobody was installing, so nothing that is counted moves.
LEMMA BeginKeeps ==
  ASSUME DInv, NEW t \in Thread, NEW W \in Writes, Begin(t, W)
  PROVE  Locks' /\ LogOrder' /\ Contents' /\ Tickets' /\ Exact'
  <1>0. /\ pc \in [Thread -> Label] /\ mine \in [Thread -> 0 .. MaxCommits]
        /\ todo \in [Thread -> SUBSET Page] /\ wrote \in Seq(Writes) /\ Len(wrote) \in Nat
    BY DEF DInv, WTypes
  <1>1. /\ UNCHANGED <<setup, cache, main, stable, log, synced, wal_frames_total, durable, wal, ticket,
                       credit, acked>>
        /\ commit_lock = None /\ commit_lock' = t /\ pc[t] = "idle" /\ pc'[t] = "install"
        /\ mine'[t] = Len(wrote) + 1 /\ todo'[t] = W
        /\ \A u \in Thread \ {t} : pc'[u] = pc[u] /\ mine'[u] = mine[u] /\ todo'[u] = todo[u]
    BY <1>0 DEF Begin, Goto, disk, group
  <1>2. \A u \in Thread : LockOf(u) /\ pc[u] # "install" /\ (~Deferred => ~Pending(u))
    BY <1>1, LockFacts
  <1>3. /\ Len(wrote') = Len(wrote) + 1 /\ wrote'[Len(wrote) + 1] = W
        /\ \A c \in 1 .. Len(wrote) : wrote'[c] = wrote[c]
    BY <1>0 DEF Begin
  <1>4. /\ Appended = Len(wrote) /\ Appended' = Appended /\ Folded' = Folded /\ Secured' = Secured
    <2>1. Appended = Len(wrote) /\ Appended' = Len(wrote)
      BY <1>0, <1>1, <1>2, <1>3 DEF Appended, Installing
    <2> QED BY <1>1, <2>1 DEF Folded, Secured
  <1>5. /\ Mapped' = Mapped /\ Deferred' = Deferred /\ Full' = Full /\ (Harmless' <=> Harmless)
    BY <1>1 DEF Mapped, Deferred, Full, Harmless, Faults
  <1>6. /\ Len(log) \in Nat /\ Folded \in Nat /\ Appended = Folded + Len(log)
    BY Counts DEF DInv
  <1>7. \A u \in Thread : Pending(u)' <=> Pending(u)
    BY <1>1 DEF Pending
  <1>8. Locks'
    <2>1. ASSUME NEW u \in Thread PROVE LockOf(u)'
      <3>1. CASE u = t
        <4>1. wal # t /\ ~Pending(t)
          BY <1>1, <1>2 DEF LockOf, Pending
        <4> QED BY <1>0, <1>1, <1>3, <1>5, <1>7, <3>1, <4>1 DEF LockOf
      <3>2. CASE u # t
        BY <1>1, <1>2, <1>4, <1>5, <1>7, <3>2 DEF LockOf
      <3> QED BY <3>1, <3>2
    <2> QED BY <1>1, <1>4, <2>1 DEF DInv, Locks
  <1>9. LogOrder'
    <2>1. ASSUME NEW i \in 1 .. Len(log) PROVE FrameOf(i)'
      <3>1. Folded + i \in 1 .. Len(wrote)
        BY <1>4, <1>6
      <3>2. FrameOf(i)
        BY DEF DInv, LogOrder
      <3> QED BY <1>1, <1>3, <1>4, <1>5, <3>1, <3>2 DEF FrameOf
    <2> QED BY <1>1, <1>4, <2>1 DEF DInv, LogOrder
  <1>10. \A v, p : \A k \in 0 .. Len(wrote) : /\ Holds(v, p, k)' <=> Holds(v, p, k)
                                              /\ IsLast(v, p, k)' <=> IsLast(v, p, k)
    <2> SUFFICES ASSUME NEW v, NEW p, NEW k \in 0 .. Len(wrote)
                 PROVE  /\ Holds(v, p, k)' <=> Holds(v, p, k)
                        /\ IsLast(v, p, k)' <=> IsLast(v, p, k)
      OBVIOUS
    <2>1. \A c \in 1 .. k : wrote'[c] = wrote[c]
      BY <1>0, <1>3
    <2>2. Holds(v, p, k)' <=> Holds(v, p, k)
      BY <2>1 DEF Holds
    <2>3. CASE v \in 0 .. k /\ v > 0
      <3>1. wrote'[v] = wrote[v]
        BY <1>0, <2>1, <2>3
      <3> QED BY <2>2, <2>3, <3>1 DEF IsLast
    <2>4. CASE ~(v \in 0 .. k /\ v > 0)
      BY <2>2, <2>4 DEF IsLast
    <2> QED BY <2>2, <2>3, <2>4
  <1>11. Folded \in 0 .. Len(wrote) /\ Appended \in 0 .. Len(wrote)
    BY <1>0, <1>4, <1>6
  <1>12. Contents'
    BY <1>1, <1>2, <1>3, <1>4, <1>5, <1>10, <1>11 DEF DInv, Contents
  <1>13. Tickets'
    BY <1>1, <1>4, <1>5, <1>7 DEF DInv, Tickets, Pending
  <1>14. Exact'
    BY <1>1, <1>2, <1>3, <1>4, <1>5, <1>10, <1>11 DEF DInv, Exact
  <1> QED BY <1>8, <1>9, <1>12, <1>13, <1>14

\* A page is installed: only the cache changes, and only for a page of the commit.
LEMMA InstallKeeps ==
  ASSUME DInv, NEW t \in Thread, NEW p \in Page, InstallPage(t, p)
  PROVE  Locks' /\ LogOrder' /\ Contents' /\ Tickets' /\ Exact'
  <1>0. /\ cache \in [Page -> 0 .. MaxCommits] /\ todo \in [Thread -> SUBSET Page]
    BY DEF DInv, WTypes
  <1>1. /\ UNCHANGED <<setup, main, stable, log, synced, wal_frames_total, durable, commit_lock, wal, pc,
                       mine, ticket, credit, wrote, acked>>
        /\ pc[t] = "install" /\ p \in todo[t] /\ cache'[p] = mine[t] /\ todo'[t] = todo[t] \ {p}
        /\ \A q \in Page \ {p} : cache'[q] = cache[q]
        /\ \A u \in Thread \ {t} : todo'[u] = todo[u]
    BY <1>0 DEF InstallPage, disk, group, hist
  <1>2. /\ mine[t] = Len(wrote) /\ todo[t] \subseteq wrote[Len(wrote)]
        /\ \A u \in Thread : LockOf(u) /\ (u # t => pc[u] # "install")
        /\ ~Deferred => \A u \in Thread : ~Pending(u)
    BY <1>1, LockFacts DEF LockOf, Pending
  <1>3. /\ Appended' = Appended /\ Folded' = Folded /\ Mapped' = Mapped
        /\ Deferred' = Deferred /\ Full' = Full /\ (Harmless' <=> Harmless)
        /\ \A i : FrameOf(i)' <=> FrameOf(i)
    BY <1>1, SameCounts
  <1>4. /\ Len(wrote) \in Nat /\ Appended \in Nat /\ Appended <= Len(wrote)
    BY Counts DEF DInv
  <1>5. Secured' = Secured
    BY <1>1, <1>3 DEF Secured
  <1>6. \A v, q, k : (Holds(v, q, k)' <=> Holds(v, q, k)) /\ (IsLast(v, q, k)' <=> IsLast(v, q, k))
    BY <1>1 DEF Holds, IsLast
  <1>7. \A u \in Thread : Pending(u)' <=> Pending(u)
    BY <1>1 DEF Pending
  <1>8. Locks'
    <2>1. ASSUME NEW u \in Thread PROVE LockOf(u)'
      BY <1>1, <1>2, <1>3, <1>7 DEF LockOf
    <2> QED BY <1>1, <1>3, <2>1 DEF DInv, Locks
  <1>9. LogOrder'
    BY <1>1, <1>3 DEF DInv, LogOrder
  <1>10. Contents'
    <2>1. Holds(Len(wrote), p, Appended)
      BY <1>4 DEF Holds
    <2>2. \A q \in Page : Holds(cache[q], q, Appended)'
      <3>1. \A q \in Page : Holds(cache[q], q, Appended)
        BY DEF DInv, Contents
      <3> QED BY <1>1, <1>2, <1>3, <1>6, <2>1, <3>1
    <2>3. \A u \in Thread : pc'[u] = "install" =>
              \A q \in wrote'[Len(wrote')] \ todo'[u] : cache'[q] = Len(wrote')
      <3>1. wrote[Len(wrote)] \subseteq Page
        <4>1. Len(wrote) \in 1 .. Len(wrote)
          BY <1>1, <1>2, <1>4 DEF LockOf
        <4> QED BY <4>1, WalCommitAssumption DEF DInv, WTypes
      <3> QED BY <1>1, <1>2, <3>1 DEF DInv, Contents
    <2>4. \A u \in Thread : pc[u] \in {"fold", "reset"} => todo'[u] = todo[u]
      BY <1>1
    <2> QED BY <1>1, <1>3, <1>6, <2>2, <2>3, <2>4 DEF DInv, Contents
  <1>11. Tickets'
    BY <1>1, <1>3, <1>5, <1>7 DEF DInv, Tickets
  <1>12. Exact'
    <2> SUFFICES ASSUME ~Deferred PROVE Exact'
      BY <1>3 DEF Exact
    <2>1. \A u \in Thread : pc[u] \notin {"fold", "reset"}
      BY <1>2 DEF Pending
    <2>2. ASSUME NEW q \in Page,
                 \A u \in Thread : pc'[u] = "install" => q \notin wrote'[Len(wrote')] \ todo'[u]
          PROVE  IsLast(cache[q], q, Appended)'
      <3>1. q # p
        BY <1>1, <1>2, <2>2
      <3>2. \A u \in Thread : pc[u] = "install" => q \notin wrote[Len(wrote)] \ todo[u]
        BY <1>1, <2>2, <3>1
      <3>3. IsLast(cache[q], q, Appended)
        BY <3>2 DEF DInv, Exact
      <3> QED BY <1>1, <1>3, <1>6, <3>1, <3>3
    <2>3. \A q \in Page \ Mapped' : IsLast(main[q], q, Appended)' /\ stable'[q] = main'[q]
      BY <1>1, <1>3, <1>6 DEF DInv, Exact
    <2> QED BY <1>1, <2>1, <2>2, <2>3 DEF Exact
  <1> QED BY <1>8, <1>9, <1>10, <1>11, <1>12
\* A frame is appended, whole or torn: the log takes the installed commit.
LEMMA AppendCounts ==
  ASSUME DInv, NEW t \in Thread, NEW b \in BOOLEAN, CanAppend(t), Logged(t, b),
         UNCHANGED <<setup, wrote, mine>>, NEW l, l # "install", pc' = [pc EXCEPT ![t] = l]
  PROVE  /\ Len(wrote) \in 1 .. MaxCommits /\ mine[t] = Len(wrote) /\ commit_lock = t
         /\ \A u \in Thread : pc'[u] # "install" /\ (u # t => pc'[u] = pc[u] /\ pc[u] # "install")
         /\ pc'[t] = l
         /\ Appended = Len(wrote) - 1 /\ Appended' = Appended + 1 /\ Folded' = Folded
         /\ log' \in Seq(Frames) /\ Len(log') = Len(log) + 1 /\ \A i \in 1 .. Len(log) : log'[i] = log[i]
         /\ log'[Len(log) + 1] = [commit |-> Len(wrote), pages |-> wrote[Len(wrote)], ok |-> b]
         /\ wrote[Len(wrote)] \in Writes /\ wrote[Len(wrote)] \subseteq Page
         /\ Cardinality(wrote[Len(wrote)]) \in Nat \ {0}
  <1>0. /\ pc \in [Thread -> Label] /\ log \in Seq(Frames) /\ wrote \in Seq(Writes) /\ Len(wrote) <= MaxCommits
    BY DEF DInv, WTypes
  <1>1. /\ pc[t] = "install" /\ commit_lock = t /\ mine[t] = Len(wrote) /\ Len(wrote) > 0
        /\ \A u \in Thread : u # t => pc[u] # "install"
    BY LockFacts DEF CanAppend, LockOf
  <1>2. Len(wrote) \in 1 .. MaxCommits /\ Len(wrote) \in 1 .. Len(wrote)
    BY <1>0, <1>1, WalCommitAssumption
  <1>3. \A u \in Thread : pc'[u] # "install" /\ (u # t => pc'[u] = pc[u] /\ pc[u] # "install")
    BY <1>0, <1>1
  <1>4. Appended = Len(wrote) - 1 /\ Appended' = Appended + 1
    BY <1>1, <1>2, <1>3 DEF Appended, Installing
  <1>5. wrote[Len(wrote)] \in Writes /\ wrote[Len(wrote)] \subseteq Page /\ wrote[Len(wrote)] # {}
    BY <1>0, <1>2, WalCommitAssumption
  <1>6. Cardinality(wrote[Len(wrote)]) \in Nat \ {0}
    <2>1. IsFiniteSet(wrote[Len(wrote)])
      BY <1>5, WalCommitAssumption, FS_Subset
    <2> QED BY <1>5, <2>1, FS_CardinalityType, FS_EmptySet
  <1>7. /\ log' \in Seq(Frames) /\ Len(log') = Len(log) + 1 /\ \A i \in 1 .. Len(log) : log'[i] = log[i]
        /\ log'[Len(log) + 1] = [commit |-> Len(wrote), pages |-> wrote[Len(wrote)], ok |-> b]
    <2> DEFINE f == [commit |-> Len(wrote), pages |-> wrote[Len(wrote)], ok |-> b]
    <2>1. f \in Frames
      BY <1>2, <1>5 DEF Frames
    <2>2. log' = Append(log, f)
      BY <1>1 DEF Logged
    <2> HIDE DEF f
    <2>3. /\ log' \in Seq(Frames) /\ Len(log') = Len(log) + 1 /\ \A i \in 1 .. Len(log) : log'[i] = log[i]
          /\ log'[Len(log) + 1] = f
      BY <1>0, <2>1, <2>2
    <2> QED BY <2>3 DEF f
  <1>8. Folded' = Folded
    BY <1>0, <1>2, <1>4, <1>7 DEF Folded
  <1> QED BY <1>0, <1>1, <1>2, <1>3, <1>4, <1>5, <1>6, <1>7, <1>8

\* The log stays in the order of the commits, the cache keeps all of them.
LEMMA AppendOrder ==
  ASSUME DInv, NEW t \in Thread, NEW b \in BOOLEAN, CanAppend(t), Logged(t, b), Harmless => b,
         UNCHANGED <<setup, wrote, mine, cache>>, NEW l, l # "install", pc' = [pc EXCEPT ![t] = l]
  PROVE  /\ LogOrder'
         /\ \A p \in Page : Holds(cache[p], p, Appended)'
         /\ Mapped' = IF b THEN Mapped \cup wrote[Len(wrote)] ELSE Mapped
  <1>1. /\ Len(wrote) \in 1 .. MaxCommits /\ mine[t] = Len(wrote)
        /\ Appended = Len(wrote) - 1 /\ Appended' = Appended + 1 /\ Folded' = Folded
        /\ log' \in Seq(Frames) /\ Len(log') = Len(log) + 1 /\ \A i \in 1 .. Len(log) : log'[i] = log[i]
        /\ log'[Len(log) + 1] = [commit |-> Len(wrote), pages |-> wrote[Len(wrote)], ok |-> b]
    BY AppendCounts
  <1>2. /\ Len(log) \in Nat /\ Folded \in Nat /\ Appended = Folded + Len(log)
        /\ log \in Seq(Frames)
    BY Counts DEF DInv, WTypes
  <1>3. Harmless' <=> Harmless
    BY DEF Harmless, Faults, Deferred
  <1>4. LogOrder'
    <2>1. ASSUME NEW i \in 1 .. Len(log') PROVE FrameOf(i)'
      <3>1. CASE i \in 1 .. Len(log)
        <4>1. FrameOf(i)
          BY <3>1 DEF DInv, LogOrder
        <4> QED BY <1>1, <1>3, <3>1, <4>1 DEF FrameOf
      <3>2. CASE i = Len(log) + 1
        <4>1. Folded + i = Len(wrote)
          BY <1>1, <1>2, <3>2
        <4> QED BY <1>1, <1>3, <3>2, <4>1 DEF FrameOf
      <3> QED BY <1>1, <1>2, <3>1, <3>2
    <2>2. Len(log') <= Appended'
      BY <1>1, <1>2
    <2> QED BY <2>1, <2>2 DEF LogOrder
  <1>5. ASSUME NEW p \in Page PROVE Holds(cache[p], p, Appended)'
    <2>1. Holds(cache[p], p, Appended)
      BY DEF DInv, Contents
    <2>2. p \in wrote[Len(wrote)] => cache[p] = Len(wrote)
      BY DEF DInv, Contents, CanAppend
    <2>3. cache[p] \in Nat
      BY DEF DInv, WTypes
    <2>4. \A c \in 1 .. Appended' : c \in 1 .. Appended \/ c = Len(wrote)
      BY <1>1
    <2> QED BY <1>1, <2>1, <2>2, <2>3, <2>4 DEF Holds
  <1>6. Mapped' = IF b THEN Mapped \cup wrote[Len(wrote)] ELSE Mapped
    <2>1. DOMAIN log = 1 .. Len(log) /\ DOMAIN log' = 1 .. (Len(log) + 1)
      BY <1>1, <1>2
    <2>2. ASSUME NEW p
          PROVE  p \in Mapped' <=> p \in Mapped \/ (b /\ p \in wrote[Len(wrote)])
      <3>1. p \in Mapped' <=> \E i \in DOMAIN log' : log'[i].ok /\ p \in log'[i].pages
        BY DEF Mapped
      <3>2. p \in Mapped <=> \E i \in DOMAIN log : log[i].ok /\ p \in log[i].pages
        BY DEF Mapped
      <3>3. DOMAIN log' = DOMAIN log \cup {Len(log) + 1}
        BY <1>2, <2>1
      <3> QED BY <1>1, <2>1, <3>1, <3>2, <3>3
    <2>3. CASE b
      BY <2>2, <2>3
    <2>4. CASE ~b
      BY <2>2, <2>4
    <2> QED BY <2>3, <2>4
  <1> QED BY <1>4, <1>5, <1>6

\* append_batch failed: nothing is claimed of the files any more, but the log
\* and the cache are as they were described.
LEMMA AppendFailsKeeps ==
  ASSUME DInv, NEW t \in Thread, AppendFails(t)
  PROVE  Locks' /\ LogOrder' /\ Contents' /\ Tickets' /\ Exact'
  <1>1. /\ UNCHANGED <<setup, cache, synced, wal_frames_total, durable, wal, mine, todo, ticket,
                       credit, wrote, acked>>
        /\ CanAppend(t) /\ Logged(t, FALSE) /\ pc' = [pc EXCEPT ![t] = "idle"]
        /\ commit_lock' = None /\ Deferred /\ ~Harmless
    BY DEF AppendFails, Goto, group, hist, Harmless
  <1>2. /\ \A u \in Thread : pc'[u] # "install" /\ (u # t => pc'[u] = pc[u])
        /\ pc'[t] = "idle" /\ Appended' = Appended + 1 /\ Len(log') = Len(log) + 1
    BY <1>1, AppendCounts
  <1>3. LogOrder' /\ (\A p \in Page : Holds(cache[p], p, Appended)') /\ Mapped' = Mapped
    <2>1. Harmless => FALSE
      BY <1>1
    <2>2. /\ LogOrder' /\ (\A p \in Page : Holds(cache[p], p, Appended)')
          /\ Mapped' = IF FALSE THEN Mapped \cup wrote[Len(wrote)] ELSE Mapped
      BY <1>1, <2>1, AppendOrder
    <2> QED BY <2>2
  <1>4. Appended \in Nat /\ Len(log) \in Nat /\ synced \in Nat
    BY Counts DEF DInv, WTypes
  <1>5. Deferred' /\ ~Harmless'
    BY <1>1 DEF Deferred, Harmless, Faults
  <1>6. Locks'
    <2>1. ASSUME NEW u \in Thread PROVE LockOf(u)'
      <3>1. LockOf(u)
        BY DEF DInv, Locks
      <3>2. CASE u = t
        BY <1>1, <1>2, <1>5, <3>1, <3>2 DEF LockOf, Pending, CanAppend
      <3>3. CASE u # t
        BY <1>1, <1>2, <1>3, <1>4, <1>5, <3>1, <3>3 DEF LockOf, Pending
      <3> QED BY <3>2, <3>3
    <2> QED BY <1>1, <1>2, <1>4, <2>1 DEF DInv, Locks
  <1>7. Contents'
    BY <1>2, <1>3, <1>5 DEF Contents
  <1>8. Tickets'
    BY <1>1, <1>2, <1>4, <1>5 DEF DInv, Tickets
  <1>9. Exact'
    BY <1>5 DEF Exact
  <1> QED BY <1>3, <1>6, <1>7, <1>8, <1>9

\* A commit is logged.
LEMMA AppendKeeps ==
  ASSUME DInv, NEW t \in Thread, WalAppend(t)
  PROVE  Locks' /\ LogOrder' /\ Contents' /\ Tickets' /\ Exact'
  <1> DEFINE l == IF Deferred THEN "sync" ELSE "due"
             W == wrote[Len(wrote)]
  <1>1. /\ UNCHANGED <<setup, cache, main, stable, durable, wal, mine, todo, credit, wrote, acked>>
        /\ CanAppend(t) /\ Logged(t, TRUE) /\ pc' = [pc EXCEPT ![t] = l]
        /\ commit_lock' = (IF Deferred THEN None ELSE t)
        /\ l # "install" /\ l \notin {"idle", "fold", "reset"}
    BY DEF WalAppend, Goto, group, hist
  <1>2. /\ Len(wrote) \in 1 .. MaxCommits /\ mine[t] = Len(wrote) /\ commit_lock = t
        /\ \A u \in Thread : pc'[u] # "install" /\ (u # t => pc'[u] = pc[u] /\ pc[u] # "install")
        /\ pc'[t] = l
        /\ Appended = Len(wrote) - 1 /\ Appended' = Appended + 1 /\ Folded' = Folded
        /\ Len(log') = Len(log) + 1
        /\ W \in Writes /\ W \subseteq Page /\ Cardinality(W) \in Nat \ {0}
    <2> HIDE DEF l
    <2> QED BY <1>1, AppendCounts
  <1>3. /\ LogOrder' /\ (\A p \in Page : Holds(cache[p], p, Appended)')
        /\ Mapped' = Mapped \cup W
    <2> HIDE DEF l
    <2>1. /\ LogOrder' /\ (\A p \in Page : Holds(cache[p], p, Appended)')
          /\ Mapped' = IF TRUE THEN Mapped \cup wrote[Len(wrote)] ELSE Mapped
      BY <1>1, AppendOrder
    <2> QED BY <2>1
  <1>4. /\ Appended \in Nat /\ Len(log) \in Nat /\ synced \in Nat /\ Folded \in Nat /\ Secured \in Nat
        /\ synced <= Len(log) /\ Secured <= Appended /\ Appended = Folded + Len(log)
        /\ wal_frames_total \in Nat /\ durable \in Nat
    BY Counts DEF DInv, WTypes, Tickets
  <1>5. Deferred' = Deferred /\ Full' = Full /\ (Harmless' <=> Harmless)
    BY <1>1 DEF Deferred, Full, Harmless, Faults
  <1>6. \A u \in Thread : pc[u] \notin {"fold", "reset"} /\ pc'[u] \notin {"fold", "reset"}
    <2>1. \A u \in Thread : pc[u] \notin {"fold", "reset"}
      BY <1>1, LockFacts DEF CanAppend
    <2> QED BY <1>1, <1>2, <2>1
  <1>7. \A u \in Thread : u # t => (Pending(u)' <=> Pending(u)) /\ (Pending(u) => Deferred)
    BY <1>1, <1>2, LockFacts DEF Pending, CanAppend
  <1>8. Locks'
    <2>1. ASSUME NEW u \in Thread PROVE LockOf(u)'
      <3>1. LockOf(u)
        BY DEF DInv, Locks
      <3>2. CASE u = t
        <4>1. mine'[t] \in 1 .. Appended'
          BY <1>1, <1>2
        <4>2. wal' # t
          BY <1>1, WalCommitAssumption DEF CanAppend
        <4> QED BY <1>1, <1>2, <1>5, <1>6, <3>2, <4>1, <4>2 DEF LockOf
      <3>3. CASE u # t
        <4>1. Pending(u)' => mine'[u] \in 1 .. Appended'
          BY <1>1, <1>2, <1>4, <1>7, <3>1, <3>3 DEF LockOf
        <4> QED BY <1>1, <1>2, <1>5, <1>6, <1>7, <3>1, <3>3, <4>1 DEF LockOf
      <3> QED BY <3>2, <3>3
    <2> QED BY <1>1, <1>2, <1>4, <2>1 DEF DInv, Locks
  <1>9. Contents'
    <2>1. \A p \in Page : Harmless' => Holds(main[p], p, Folded)' /\ Holds(stable[p], p, Folded)'
      BY <1>1, <1>2, <1>5 DEF DInv, Contents, Holds
    <2> QED BY <1>2, <1>3, <1>6, <2>1 DEF Contents
  <1>10. Tickets'
    <2>1. /\ wal_frames_total' = wal_frames_total + Cardinality(W)
          /\ synced' = (IF Full /\ ~Deferred THEN Len(log') ELSE synced)
          /\ ticket \in [Thread -> Nat] /\ ticket' = [ticket EXCEPT ![t] = wal_frames_total']
          /\ \A u \in Thread : credit[u] \in Nat
      BY <1>2 DEF WalAppend, DInv, WTypes
    <2>2. /\ synced' \in Nat /\ synced' <= Len(log') /\ synced <= synced'
          /\ (Full /\ ~Deferred => synced' = Len(log'))
      BY <1>2, <1>4, <2>1
    <2>3. Secured' \in Nat /\ Secured <= Secured'
      <3>1. Secured = Folded + synced /\ Secured' = Folded' + synced'
        BY DEF Secured
      <3>2. Folded' = Folded /\ Folded \in Nat /\ synced \in Nat /\ synced' \in Nat /\ synced <= synced'
        BY <1>2, <1>4, <2>2
      <3>3. \A a, b, c \in Nat : a <= b => c + a <= c + b /\ c + b \in Nat
        OBVIOUS
      <3>4. Folded + synced <= Folded + synced' /\ Folded + synced' \in Nat
        BY <3>2, <3>3
      <3>5. Secured' = Folded + synced'
        BY <3>1, <3>2
      <3> QED BY <3>1, <3>4, <3>5
    <2>4. /\ durable' <= wal_frames_total' /\ durable' < ticket'[t]
          /\ \A u \in Thread : credit'[u] <= wal_frames_total' /\ credit'[u] < ticket'[t]
      <3>1. durable <= wal_frames_total /\ \A u \in Thread : credit[u] <= wal_frames_total
        BY DEF DInv, Tickets
      <3>2. wal_frames_total' \in Nat /\ wal_frames_total' > wal_frames_total /\ ticket'[t] = wal_frames_total'
        BY <1>2, <1>4, <2>1
      <3> QED BY <1>1, <1>4, <2>1, <3>1, <3>2
    <2>5. ASSUME Harmless, Full, Deferred, NEW u \in Thread, Pending(u)'
          PROVE  /\ ticket'[u] <= durable' => mine'[u] <= Secured'
                 /\ \A v \in Thread :
                      pc'[v] \in {"due", "report"} /\ ticket'[u] <= credit'[v] => mine'[u] <= Secured'
      <3>1. CASE u = t
        BY <1>1, <1>4, <2>1, <2>4, <3>1
      <3>2. CASE u # t
        <4>1. /\ Pending(u) /\ ticket'[u] = ticket[u] /\ mine[u] \in Nat
              /\ \A v \in Thread : pc'[v] \in {"due", "report"} => pc[v] \in {"due", "report"}
          BY <1>1, <1>2, <1>7, <2>1, <2>5, <3>2 DEF DInv, WTypes
        <4>2. /\ ticket[u] <= durable => mine[u] <= Secured
              /\ \A v \in Thread :
                   pc[v] \in {"due", "report"} /\ ticket[u] <= credit[v] => mine[u] <= Secured
          BY <2>5, <4>1 DEF DInv, Tickets
        <4> QED BY <1>1, <1>4, <2>3, <4>1, <4>2
      <3> QED BY <3>1, <3>2
    <2>6. Full /\ Harmless => \A c \in acked' : c <= Secured'
      <3>1. acked \subseteq Nat /\ (Full /\ Harmless => \A c \in acked : c <= Secured)
        BY <1>4 DEF DInv, Locks, Tickets
      <3> QED BY <1>1, <1>4, <2>3, <3>1
    <2> QED BY <1>5, <2>2, <2>4, <2>5, <2>6 DEF Tickets
  <1>11. Exact'
    <2> SUFFICES ASSUME ~Deferred PROVE Exact'
      BY <1>5 DEF Exact
    <2>1. ASSUME NEW p \in Page, NEW v, p \notin W, IsLast(v, p, Appended) PROVE IsLast(v, p, Appended)'
      <3>1. \A c \in 1 .. Appended' : c \in 1 .. Appended \/ c = Len(wrote)
        BY <1>2
      <3> QED BY <1>1, <1>2, <1>4, <2>1, <3>1 DEF IsLast, Holds
    <2>2. ASSUME NEW p \in Page PROVE IsLast(cache[p], p, Appended)'
      <3>1. CASE p \in W
        <4>1. cache[p] = Len(wrote)
          BY <1>1, <3>1 DEF DInv, Contents, CanAppend
        <4>2. Holds(cache[p], p, Appended)'
          BY <1>3
        <4> QED BY <1>1, <1>2, <1>4, <3>1, <4>1, <4>2 DEF IsLast
      <3>2. CASE p \notin W
        <4>1. IsLast(cache[p], p, Appended)
          BY <3>2 DEF DInv, Exact
        <4>2. cache' = cache
          BY <1>1
        <4> QED BY <2>1, <3>2, <4>1, <4>2
      <3> QED BY <3>1, <3>2
    <2>3. ASSUME NEW p \in Page \ Mapped' PROVE IsLast(main[p], p, Appended)' /\ stable'[p] = main'[p]
      <3>1. p \notin W /\ IsLast(main[p], p, Appended) /\ stable[p] = main[p]
        BY <1>3 DEF DInv, Exact
      <3> QED BY <1>1, <2>1, <3>1
    <2> QED BY <1>6, <2>2, <2>3 DEF Exact
  <1> QED BY <1>3, <1>8, <1>9, <1>10, <1>11
\* What a step of the fold leaves alone.
Folding(t) ==
    /\ UNCHANGED <<setup, cache, log, synced, wal_frames_total, durable, commit_lock, mine, ticket,
                   credit, wrote, acked>>
    /\ pc[t] \in {"gate", "fold"} /\ pc'[t] \in {"fold", "reset", "failed"}
    /\ \A u \in Thread \ {t} : pc'[u] = pc[u] /\ todo'[u] = todo[u]
    /\ wal \in {t, None} /\ wal' = (IF pc'[t] = "failed" THEN None ELSE t)
    /\ pc'[t] = "fold" => todo'[t] \subseteq Mapped

LEMMA FoldingKeeps ==
  ASSUME DInv, NEW t \in Thread, Folding(t)
  PROVE  /\ Locks' /\ LogOrder' /\ Tickets'
         /\ \A u \in Thread : u # t => pc'[u] \notin {"fold", "reset"}
         /\ Appended' = Appended /\ Folded' = Folded /\ Mapped' = Mapped
         /\ Deferred' = Deferred /\ Full' = Full /\ (Harmless' <=> Harmless)
         /\ ~Deferred => \A u \in Thread : pc[u] # "install" /\ pc'[u] # "install"
         /\ \A p \in Page : Holds(cache[p], p, Appended)'
         /\ \A u \in Thread : pc'[u] = "install" =>
               \A p \in wrote'[Len(wrote')] \ todo'[u] : cache'[p] = Len(wrote')
  <1>0. /\ UNCHANGED <<setup, cache, log, synced, wal_frames_total, durable, commit_lock, mine, ticket,
                       credit, wrote, acked>>
        /\ \A u \in Thread : /\ pc'[u] = "install" <=> pc[u] = "install"
                             /\ Pending(u)' <=> Pending(u)
                             /\ pc'[u] \in {"due", "report"} => pc[u] \in {"due", "report"}
                             /\ u # t => pc'[u] = pc[u] /\ todo'[u] = todo[u]
    BY DEF Folding, Pending
  <1>1. /\ Appended' = Appended /\ Folded' = Folded /\ Mapped' = Mapped
        /\ Deferred' = Deferred /\ Full' = Full /\ (Harmless' <=> Harmless)
        /\ \A i : FrameOf(i)' <=> FrameOf(i)
    BY <1>0, SameCounts
  <1>2. \A u \in Thread : LockOf(u) /\ u # None
    BY WalCommitAssumption DEF DInv, Locks
  <1>3. \A u \in Thread : u # t => pc'[u] \notin {"fold", "reset"}
    BY <1>2 DEF Folding, LockOf
  <1>4. ~Deferred => \A u \in Thread : pc[u] # "install" /\ pc'[u] # "install"
    <2>1. pc[t] # "install" /\ Pending(t)
      BY DEF Folding, Pending
    <2> QED BY <1>0, <2>1, LockFacts
  <1>5. Locks'
    <2>1. ASSUME NEW u \in Thread PROVE LockOf(u)'
      <3>1. wal' = u <=> pc'[u] \in {"fold", "reset"}
        BY <1>2, <1>3 DEF Folding
      <3>2. pc'[u] = "fold" => todo'[u] \subseteq Mapped'
        BY <1>1, <1>3 DEF Folding
      <3>3. pc'[u] = "install" => u # t
        BY DEF Folding
      <3> QED BY <1>0, <1>1, <1>2, <3>1, <3>2, <3>3 DEF LockOf
    <2> QED BY <1>0, <1>1, <2>1 DEF DInv, Locks
  <1>6. LogOrder'
    BY <1>0, <1>1 DEF DInv, LogOrder
  <1>7. Tickets'
    <2>1. Secured' = Secured
      BY <1>0, <1>1 DEF Secured
    <2> QED BY <1>0, <1>1, <2>1 DEF DInv, Tickets
  <1>8. \A p \in Page : Holds(cache[p], p, Appended)'
    BY <1>0, <1>1 DEF DInv, Contents, Holds
  <1>9. \A u \in Thread : pc'[u] = "install" =>
               \A p \in wrote'[Len(wrote')] \ todo'[u] : cache'[p] = Len(wrote')
    <2>1. \A u \in Thread : pc'[u] = "install" => u # t
      BY DEF Folding
    <2> QED BY <1>0, <2>1 DEF DInv, Contents
  <1> QED BY <1>1, <1>3, <1>4, <1>5, <1>6, <1>7, <1>8, <1>9

\* The fold begins, or its fsync fails.
LEMMA StartFoldKeeps ==
  ASSUME DInv, NEW t \in Thread, StartFold(t) \/ (FsyncFails(t) /\ pc[t] = "fold")
  PROVE  Locks' /\ LogOrder' /\ Contents' /\ Tickets' /\ Exact'
  <1>0. pc \in [Thread -> Label] /\ todo \in [Thread -> SUBSET Page] /\ LockOf(t)
    BY DEF DInv, WTypes, Locks
  <1>1. /\ Folding(t) /\ UNCHANGED <<main, stable>>
        /\ \/ pc'[t] = "fold" /\ todo'[t] = Mapped
           \/ pc'[t] = "failed"
    <2>1. CASE StartFold(t)
      BY <1>0, <2>1 DEF StartFold, Folding, Goto, disk, group, hist
    <2>2. CASE FsyncFails(t) /\ pc[t] = "fold"
      BY <1>0, <2>2 DEF FsyncFails, Folding, Goto, disk, group, hist, LockOf
    <2> QED BY <2>1, <2>2
  <1>2. /\ Locks' /\ LogOrder' /\ Tickets'
        /\ \A u \in Thread : u # t => pc'[u] \notin {"fold", "reset"}
        /\ Appended' = Appended /\ Folded' = Folded /\ Mapped' = Mapped
        /\ Deferred' = Deferred /\ (Harmless' <=> Harmless)
        /\ ~Deferred => \A u \in Thread : pc[u] # "install" /\ pc'[u] # "install"
        /\ \A p \in Page : Holds(cache[p], p, Appended)'
        /\ \A u \in Thread : pc'[u] = "install" =>
               \A p \in wrote'[Len(wrote')] \ todo'[u] : cache'[p] = Len(wrote')
    BY <1>1, FoldingKeeps
  <1>3. \A v, p, k : (Holds(v, p, k)' <=> Holds(v, p, k)) /\ (IsLast(v, p, k)' <=> IsLast(v, p, k))
    BY <1>1 DEF Folding, Holds, IsLast
  <1>4. Contents'
    <2>1. Harmless => \A p \in Page : Holds(main[p], p, Folded) /\ Holds(stable[p], p, Folded)
      BY DEF DInv, Contents
    <2>2. ASSUME Harmless, NEW p \in Page \ Mapped PROVE Holds(main[p], p, Appended)
      <3>1. \A c \in 1 .. Appended : p \in wrote[c] => c <= Folded
        BY <2>2, Unmapped
      <3>2. Appended \in Nat /\ Folded \in Nat
        BY Counts DEF DInv
      <3>3. \A c \in 1 .. Appended : p \in wrote[c] => c \in 1 .. Folded
        BY <3>1, <3>2
      <3> QED BY <2>1, <2>2, <3>3 DEF Holds
    <2>3. Harmless' => \A p \in Page : Holds(main[p], p, Folded)' /\ Holds(stable[p], p, Folded)'
      BY <1>1, <1>2, <1>3, <2>1
    <2>4. Harmless' => \A u \in Thread : pc'[u] = "fold" => \A p \in Page \ todo'[u] : Holds(main[p], p, Appended)'
      BY <1>1, <1>2, <1>3, <2>2
    <2> QED BY <1>1, <1>2, <2>3, <2>4 DEF Contents
  <1>5. Exact'
    <2> SUFFICES ASSUME ~Deferred PROVE Exact'
      BY <1>2 DEF Exact
    <2>1. \A p \in Page : IsLast(cache[p], p, Appended)'
      BY <1>1, <1>2, <1>3 DEF DInv, Exact, Folding
    <2>2. \A p \in Page \ Mapped : IsLast(main[p], p, Appended)' /\ stable'[p] = main'[p]
      BY <1>1, <1>2, <1>3 DEF DInv, Exact
    <2> QED BY <1>1, <1>2, <2>1, <2>2 DEF Exact
  <1> QED BY <1>2, <1>4, <1>5

\* A page is folded, from the cache or from its last frame.
LEMMA FoldPageKeeps ==
  ASSUME DInv, NEW t \in Thread, NEW p \in Page, FoldPage(t, p)
  PROVE  Locks' /\ LogOrder' /\ Contents' /\ Tickets' /\ Exact'
  <1>0. /\ pc \in [Thread -> Label] /\ todo \in [Thread -> SUBSET Page] /\ LockOf(t)
        /\ main \in [Page -> 0 .. MaxCommits]
    BY DEF DInv, WTypes, Locks
  <1>1. /\ Folding(t) /\ stable' = stable /\ pc[t] = "fold" /\ pc' = pc
        /\ p \in todo[t] /\ todo'[t] = todo[t] \ {p} /\ p \in Mapped
        /\ main'[p] \in {cache[p], LatestFrame(p)} /\ \A q \in Page \ {p} : main'[q] = main[q]
    BY <1>0 DEF FoldPage, Folding, group, hist, LockOf
  <1>2. /\ Locks' /\ LogOrder' /\ Tickets'
        /\ \A u \in Thread : u # t => pc'[u] \notin {"fold", "reset"}
        /\ Appended' = Appended /\ Folded' = Folded /\ Mapped' = Mapped
        /\ Deferred' = Deferred /\ (Harmless' <=> Harmless)
        /\ ~Deferred => \A u \in Thread : pc[u] # "install" /\ pc'[u] # "install"
        /\ \A q \in Page : Holds(cache[q], q, Appended)'
        /\ \A u \in Thread : pc'[u] = "install" =>
               \A q \in wrote'[Len(wrote')] \ todo'[u] : cache'[q] = Len(wrote')
    BY <1>1, FoldingKeeps
  <1>3. \A v, q, k : (Holds(v, q, k)' <=> Holds(v, q, k)) /\ (IsLast(v, q, k)' <=> IsLast(v, q, k))
    BY <1>1 DEF Folding, Holds, IsLast
  <1>4. Harmless => IsLast(LatestFrame(p), p, Appended)
    BY <1>1, FrameIsLast
  <1>5. Harmless => Holds(main'[p], p, Appended)
    <2>1. Holds(cache[p], p, Appended)
      BY DEF DInv, Contents
    <2> QED BY <1>1, <1>4, <2>1 DEF IsLast
  <1>6. Contents'
    <2>1. Harmless => \A q \in Page : Holds(main'[q], q, Folded)
      <3>1. Appended \in Nat /\ Folded \in Nat /\ Folded <= Appended
        BY Counts DEF DInv
      <3>2. 1 .. Folded \subseteq 1 .. Appended
        BY <3>1
      <3>3. Harmless => Holds(main'[p], p, Folded)
        BY <1>5, <3>2 DEF Holds
      <3> QED BY <1>1, <3>3 DEF DInv, Contents
    <2>2. Harmless => \A q \in Page \ todo'[t] : Holds(main'[q], q, Appended)
      BY <1>1, <1>5 DEF DInv, Contents
    <2>3. Harmless => \A q \in Page : Holds(stable'[q], q, Folded)
      BY <1>1 DEF DInv, Contents
    <2>4. Harmless' => \A q \in Page : Holds(main[q], q, Folded)' /\ Holds(stable[q], q, Folded)'
      BY <1>2, <1>3, <2>1, <2>3
    <2>5. Harmless' => \A u \in Thread : pc'[u] = "fold" => \A q \in Page \ todo'[u] : Holds(main[q], q, Appended)'
      BY <1>1, <1>2, <1>3, <2>2
    <2> QED BY <1>1, <1>2, <2>4, <2>5 DEF Contents
  <1>7. Exact'
    <2> SUFFICES ASSUME ~Deferred PROVE Exact'
      BY <1>2 DEF Exact
    <2>1. \A q \in Page : IsLast(cache[q], q, Appended)
      BY <1>2 DEF DInv, Exact
    <2>2. IsLast(main'[p], p, Appended)
      <3>1. Harmless
        BY DEF Harmless
      <3> QED BY <1>1, <1>4, <2>1, <3>1
    <2>3. \A q \in Page : IsLast(cache[q], q, Appended)'
      BY <1>1, <1>2, <1>3, <2>1 DEF Folding
    <2>4. \A q \in Page \ Mapped : IsLast(main'[q], q, Appended) /\ stable'[q] = main'[q]
      BY <1>1 DEF DInv, Exact
    <2>5. \A q \in Page \ todo'[t] : IsLast(main'[q], q, Appended)
      BY <1>1, <2>2 DEF DInv, Exact
    <2>6. \A q \in Page \ Mapped' : IsLast(main[q], q, Appended)' /\ stable'[q] = main'[q]
      BY <1>2, <1>3, <2>4
    <2>7. \A q \in Page \ todo'[t] : IsLast(main[q], q, Appended)'
      BY <1>2, <1>3, <2>5
    <2> QED BY <1>1, <1>2, <2>3, <2>6, <2>7 DEF Exact
  <1> QED BY <1>2, <1>6, <1>7

\* The main file is synced: what was written is what stays.
LEMMA FoldSyncKeeps ==
  ASSUME DInv, NEW t \in Thread, FoldSync(t)
  PROVE  Locks' /\ LogOrder' /\ Contents' /\ Tickets' /\ Exact'
  <1>0. pc \in [Thread -> Label] /\ todo \in [Thread -> SUBSET Page] /\ LockOf(t)
    BY DEF DInv, WTypes, Locks
  <1>1. /\ Folding(t) /\ main' = main /\ stable' = main /\ pc[t] = "fold" /\ pc'[t] = "reset" /\ todo[t] = {}
    BY <1>0 DEF FoldSync, Folding, Goto, group, hist, LockOf
  <1>2. /\ Locks' /\ LogOrder' /\ Tickets'
        /\ \A u \in Thread : u # t => pc'[u] \notin {"fold", "reset"}
        /\ Appended' = Appended /\ Folded' = Folded /\ Mapped' = Mapped
        /\ Deferred' = Deferred /\ (Harmless' <=> Harmless)
        /\ ~Deferred => \A u \in Thread : pc[u] # "install" /\ pc'[u] # "install"
        /\ \A p \in Page : Holds(cache[p], p, Appended)'
        /\ \A u \in Thread : pc'[u] = "install" =>
               \A p \in wrote'[Len(wrote')] \ todo'[u] : cache'[p] = Len(wrote')
    BY <1>1, FoldingKeeps
  <1>3. \A v, p, k : (Holds(v, p, k)' <=> Holds(v, p, k)) /\ (IsLast(v, p, k)' <=> IsLast(v, p, k))
    BY <1>1 DEF Folding, Holds, IsLast
  <1>4. Contents'
    <2>1. Harmless => \A p \in Page : Holds(main[p], p, Folded) /\ Holds(main[p], p, Appended)
      BY <1>1 DEF DInv, Contents
    <2>2. Harmless' => \A p \in Page : /\ Holds(main[p], p, Folded)' /\ Holds(stable[p], p, Folded)'
                                       /\ Holds(main[p], p, Appended)' /\ Holds(stable[p], p, Appended)'
      BY <1>1, <1>2, <1>3, <2>1
    <2> QED BY <1>1, <1>2, <2>2 DEF Contents
  <1>5. Exact'
    <2> SUFFICES ASSUME ~Deferred PROVE Exact'
      BY <1>2 DEF Exact
    <2>1. \A p \in Page : IsLast(cache[p], p, Appended)'
      BY <1>1, <1>2, <1>3 DEF DInv, Exact, Folding
    <2>2. \A p \in Page : IsLast(main[p], p, Appended)
      BY <1>1 DEF DInv, Exact
    <2>3. \A p \in Page : IsLast(main[p], p, Appended)' /\ stable'[p] = main'[p]
      BY <1>1, <1>2, <1>3, <2>2
    <2> QED BY <1>1, <1>2, <2>1, <2>3 DEF Exact
  <1> QED BY <1>2, <1>4, <1>5

\* The log is reset: everything in it is in the synced main file.
LEMMA ResetKeeps ==
  ASSUME DInv, NEW t \in Thread, Reset(t)
  PROVE  Locks' /\ LogOrder' /\ Contents' /\ Tickets' /\ Exact'
  <1>0. pc \in [Thread -> Label] /\ \A u \in Thread : LockOf(u) /\ u # None
    BY WalCommitAssumption DEF DInv, WTypes, Locks
  <1>1. /\ UNCHANGED <<setup, cache, main, stable, wal_frames_total, durable, commit_lock, mine, todo,
                       ticket, credit, wrote, acked>>
        /\ log' = <<>> /\ synced' = 0 /\ wal' = None
        /\ pc[t] = "reset" /\ pc'[t] = "report" /\ \A u \in Thread : u # t => pc'[u] = pc[u]
    BY <1>0 DEF Reset, Goto, group, hist
  <1>2. /\ Deferred' = Deferred /\ Full' = Full /\ (Harmless' <=> Harmless)
    BY <1>1 DEF Deferred, Full, Harmless, Faults
  <1>3. /\ \A u \in Thread : pc'[u] \notin {"fold", "reset"}
        /\ \A u \in Thread : pc'[u] = "install" <=> pc[u] = "install"
        /\ \A u \in Thread : Pending(u)' <=> Pending(u)
    BY <1>1, LockFacts DEF Pending
  <1>4. Appended \in Nat /\ Appended' = Appended /\ Len(log') = 0
    <2>1. Appended \in Nat
      BY Counts DEF DInv
    <2> QED BY <1>1, <1>3, <2>1 DEF Appended, Installing
  <1>5. Folded' = Appended /\ Secured' = Appended
    BY <1>1, <1>4 DEF Folded, Secured
  <1>6. Locks'
    <2>1. ASSUME NEW u \in Thread PROVE LockOf(u)'
      BY <1>0, <1>1, <1>2, <1>3, <1>4 DEF LockOf
    <2> QED BY <1>1, <1>4, <2>1 DEF DInv, Locks
  <1>7. LogOrder'
    BY <1>4 DEF LogOrder
  <1>8. \A v, p, k : (Holds(v, p, k)' <=> Holds(v, p, k)) /\ (IsLast(v, p, k)' <=> IsLast(v, p, k))
    BY <1>1 DEF Holds, IsLast
  <1>9. Contents'
    <2>1. \A p \in Page : Holds(cache[p], p, Appended)'
      BY <1>1, <1>4, <1>8 DEF DInv, Contents
    <2>2. Harmless => \A p \in Page : Holds(main[p], p, Appended) /\ Holds(stable[p], p, Appended)
      BY <1>1 DEF DInv, Contents
    <2>3. Harmless' => \A p \in Page : Holds(main[p], p, Folded)' /\ Holds(stable[p], p, Folded)'
      BY <1>1, <1>2, <1>5, <1>8, <2>2
    <2>4. \A u \in Thread : pc'[u] = "install" =>
               \A p \in wrote'[Len(wrote')] \ todo'[u] : cache'[p] = Len(wrote')
      BY <1>1, <1>3 DEF DInv, Contents
    <2> QED BY <1>3, <2>1, <2>3, <2>4 DEF Contents
  <1>10. Tickets'
    <2>1. \A u \in Thread : Pending(u)' => mine'[u] <= Appended
      BY <1>0, <1>1, <1>3, <1>4 DEF LockOf
    <2>2. \A c \in acked' : c <= Appended
      BY <1>1, <1>4 DEF DInv, Locks
    <2> QED BY <1>1, <1>2, <1>4, <1>5, <2>1, <2>2 DEF DInv, Tickets
  <1>11. Exact'
    <2> SUFFICES ASSUME ~Deferred PROVE Exact'
      BY <1>2 DEF Exact
    <2>1. \A u \in Thread : pc[u] # "install"
      <3>1. Pending(t) /\ pc[t] # "install"
        BY <1>1 DEF Pending
      <3> QED BY <3>1, LockFacts
    <2>2. \A p \in Page : IsLast(cache[p], p, Appended)'
      BY <1>1, <1>4, <1>8, <2>1 DEF DInv, Exact
    <2>3. \A p \in Page : IsLast(main[p], p, Appended) /\ stable[p] = main[p]
      BY <1>1 DEF DInv, Exact
    <2>4. \A p \in Page : IsLast(main[p], p, Appended)' /\ stable'[p] = main'[p]
      BY <1>1, <1>4, <1>8, <2>3
    <2> QED BY <1>3, <2>2, <2>4 DEF Exact
  <1> QED BY <1>6, <1>7, <1>9, <1>10, <1>11

\* Every step keeps all of it.
LEMMA NextDInv == DInv /\ [Next]_vars => DInv'
  <1> SUFFICES ASSUME DInv, [Next]_vars PROVE DInv'
    OBVIOUS
  <1>1. WTypes'
    BY TypesStep
  <1>2. SUFFICES Locks' /\ LogOrder' /\ Contents' /\ Tickets' /\ Exact'
    BY <1>1 DEF DInv
  <1>3. CASE UNCHANGED vars
    <2>1. /\ UNCHANGED <<setup, cache, main, stable, log, synced, wal_frames_total, durable, commit_lock,
                         wal, pc, mine, todo, ticket, credit, wrote, acked>>
      BY <1>3 DEF vars, disk, group, hist
    <2>2. /\ Appended' = Appended /\ Folded' = Folded /\ Mapped' = Mapped
          /\ Deferred' = Deferred /\ Full' = Full /\ (Harmless' <=> Harmless)
          /\ \A i : FrameOf(i)' <=> FrameOf(i)
      BY <2>1, SameCounts
    <2>3. Secured' = Secured /\ \A u \in Thread : Pending(u)' <=> Pending(u)
      BY <2>1, <2>2 DEF Secured, Pending
    <2>4. Locks'
      BY <2>1, <2>2, <2>3 DEF DInv, Locks, LockOf
    <2>5. LogOrder'
      BY <2>1, <2>2 DEF DInv, LogOrder
    <2>6. Contents'
      BY <2>1, <2>2 DEF DInv, Contents, Holds
    <2>7. Tickets'
      BY <2>1, <2>2, <2>3 DEF DInv, Tickets
    <2>8. Exact'
      BY <2>1, <2>2 DEF DInv, Exact, IsLast, Holds
    <2> QED BY <2>4, <2>5, <2>6, <2>7, <2>8
  <1>4. ASSUME NEW t \in Thread, NEW W \in Writes, Begin(t, W)
        PROVE  Locks' /\ LogOrder' /\ Contents' /\ Tickets' /\ Exact'
    BY <1>4, BeginKeeps
  <1>5. ASSUME NEW t \in Thread, Step(t)
        PROVE  Locks' /\ LogOrder' /\ Contents' /\ Tickets' /\ Exact'
    <2>1. CASE \E p \in Page : InstallPage(t, p)
      BY <2>1, InstallKeeps
    <2>2. CASE \E p \in Page : FoldPage(t, p)
      BY <2>2, FoldPageKeeps
    <2>3. CASE WalAppend(t)
      BY <2>3, AppendKeeps
    <2>4. CASE AppendFails(t)
      BY <2>4, AppendFailsKeeps
    <2>5. CASE \/ Covered(t) \/ Lead(t) \/ Follow(t) \/ SkipSync(t) \/ LoadTarget(t)
               \/ Report(t) \/ Return(t) \/ Due(t) \/ DeferFold(t)
      BY <2>5, QuietSteps
    <2>6. CASE Fsync(t) \/ (FsyncFails(t) /\ pc[t] = "fsync")
      BY <2>6, FsyncKeeps
    <2>7. CASE StartFold(t) \/ (FsyncFails(t) /\ pc[t] = "fold")
      BY <2>7, StartFoldKeeps
    <2>8. CASE FoldSync(t)
      BY <2>8, FoldSyncKeeps
    <2>9. CASE Reset(t)
      BY <2>9, ResetKeeps
    <2>10. FsyncFails(t) => pc[t] \in {"fsync", "fold"}
      BY DEF FsyncFails
    <2> QED BY <1>5, <2>1, <2>2, <2>3, <2>4, <2>5, <2>6, <2>7, <2>8, <2>9, <2>10 DEF Step
  <1> QED BY <1>3, <1>4, <1>5 DEF Next
-----------------------------------------------------------------------------
(* What a reopening finds.                                                 *)

\* Wal::recover takes a page from its last frame among the first n, or else
\* from the main file.
LEMMA RecoveredIs ==
  ASSUME DInv, Harmless, NEW file, NEW n \in 0 .. Len(log), NEW p \in Page
  PROVE  \/ Recovered(file, n)[p] = file[p] /\ \A i \in 1 .. n : p \notin wrote[Folded + i]
         \/ \E i \in 1 .. n : /\ Recovered(file, n)[p] = Folded + i /\ p \in wrote[Folded + i]
                              /\ \A j \in 1 .. n : p \in wrote[Folded + j] => j <= i
  <1> DEFINE good == {i \in 1 .. n : \A j \in 1 .. i : log[j].ok}
             at == {i \in good : p \in log[i].pages}
             top == CHOOSE i \in at : \A j \in at : j <= i
  <1>1. Recovered(file, n)[p] = IF at = {} THEN file[p] ELSE log[top].commit
    BY DEF Recovered
  <1>2. Len(log) \in Nat /\ n \in Nat /\ n <= Len(log)
    BY Counts DEF DInv
  <1>3. \A i \in 1 .. n : log[i].ok /\ log[i].commit = Folded + i /\ log[i].pages = wrote[Folded + i]
    BY <1>2 DEF DInv, LogOrder, FrameOf
  <1>4. good = 1 .. n
    BY <1>2, <1>3
  <1>5. at = {i \in 1 .. n : p \in wrote[Folded + i]}
    BY <1>3, <1>4
  <1>6. CASE at = {}
    BY <1>1, <1>5, <1>6
  <1>7. CASE at # {}
    <2>1. at \in SUBSET (0 .. n)
      BY <1>5
    <2> HIDE DEF good, at
    <2>2. \E i \in at : \A j \in at : j <= i
      BY <1>2, <1>7, <2>1, Greatest
    <2>3. top \in at /\ \A j \in at : j <= top
      BY <2>2
    <2> HIDE DEF top
    <2> QED BY <1>1, <1>3, <1>5, <1>7, <2>3
  <1> QED BY <1>6, <1>7

\* It has every commit that the file or the first n of the log have.
LEMMA RecoveredHolds ==
  ASSUME DInv, Harmless, NEW file, NEW n \in 0 .. Len(log), NEW p \in Page,
         Holds(file[p], p, Folded), NEW c \in 1 .. (Folded + n), p \in wrote[c]
  PROVE  Recovered(file, n)[p] >= c
  <1>1. Folded \in Nat /\ Len(log) \in Nat /\ n \in Nat
    BY Counts DEF DInv
  <1>2. c > Folded => c - Folded \in 1 .. n /\ Folded + (c - Folded) = c
    BY <1>1
  <1>3. CASE Recovered(file, n)[p] = file[p] /\ \A i \in 1 .. n : p \notin wrote[Folded + i]
    <2>1. ~(c > Folded)
      BY <1>2, <1>3
    <2>2. c \in 1 .. Folded
      BY <1>1, <2>1
    <2> QED BY <1>3, <2>2 DEF Holds
  <1>4. ASSUME NEW i \in 1 .. n, Recovered(file, n)[p] = Folded + i,
               \A j \in 1 .. n : p \in wrote[Folded + j] => j <= i
        PROVE  Recovered(file, n)[p] >= c
    <2>1. c > Folded => c - Folded <= i
      BY <1>2, <1>4
    <2> QED BY <1>1, <1>4, <2>1
  <1> QED BY <1>3, <1>4, RecoveredIs

\* With plain commits, and the whole log, it has exactly the logged commits.
LEMMA RecoveredExact ==
  ASSUME DInv, ~Deferred, NEW file, \A p \in Page : file[p] \in {stable[p], main[p]}
  PROVE  Appended \in 0 .. Len(wrote) /\ Recovered(file, Len(log)) = After(Appended)
  <1>1. /\ Appended \in 0 .. Len(wrote) /\ Folded \in Nat /\ Len(log) \in Nat
        /\ Appended = Folded + Len(log) /\ Len(log) \in 0 .. Len(log)
    BY Counts DEF DInv
  <1>2. Harmless
    BY DEF Harmless
  <1>3. ASSUME NEW p \in Page PROVE IsLast(Recovered(file, Len(log))[p], p, Appended)
    <2> DEFINE r == Recovered(file, Len(log))[p]
    <2>1. CASE p \in Mapped
      <3>1. PICK m \in 1 .. Len(log) : p \in wrote[Folded + m]
        <4>1. PICK m \in 1 .. Len(log) : p \in log[m].pages
          BY <2>1, LatestFrameIs DEF DInv
        <4> QED BY <4>1 DEF DInv, LogOrder, FrameOf
      <3>2. PICK i \in 1 .. Len(log) : /\ r = Folded + i /\ p \in wrote[Folded + i]
                                       /\ \A j \in 1 .. Len(log) : p \in wrote[Folded + j] => j <= i
        <4> HIDE DEF r
        <4>1. \/ r = file[p] /\ \A i \in 1 .. Len(log) : p \notin wrote[Folded + i]
              \/ \E i \in 1 .. Len(log) : /\ r = Folded + i /\ p \in wrote[Folded + i]
                              /\ \A j \in 1 .. Len(log) : p \in wrote[Folded + j] => j <= i
          BY <1>1, <1>2, RecoveredIs DEF r
        <4> QED BY <3>1, <4>1
      <3>3. ASSUME NEW c \in 1 .. Appended, p \in wrote[c] PROVE Folded + i >= c
        <4>1. c > Folded => c - Folded \in 1 .. Len(log) /\ Folded + (c - Folded) = c
          BY <1>1
        <4>2. c > Folded => c - Folded <= i
          BY <3>2, <3>3, <4>1
        <4> QED BY <1>1, <4>2
      <3>4. Folded + i \in 0 .. Appended
        BY <1>1
      <3> QED BY <3>2, <3>3, <3>4 DEF IsLast, Holds
    <2>2. CASE p \notin Mapped
      <3>1. IsLast(main[p], p, Appended) /\ file[p] = main[p]
        BY <2>2 DEF DInv, Exact
      <3>2. ASSUME NEW i \in 1 .. Len(log) PROVE p \notin wrote[Folded + i]
        <4>1. Folded + i \in 1 .. Appended /\ Folded + i > Folded
          BY <1>1
        <4>2. p \in wrote[Folded + i] => Folded + i <= Folded
          BY <1>2, <2>2, <4>1, Unmapped
        <4> QED BY <1>1, <4>1, <4>2
      <3>3. r = file[p]
        <4> HIDE DEF r
        <4>1. \/ r = file[p] /\ \A i \in 1 .. Len(log) : p \notin wrote[Folded + i]
              \/ \E i \in 1 .. Len(log) : /\ r = Folded + i /\ p \in wrote[Folded + i]
                              /\ \A j \in 1 .. Len(log) : p \in wrote[Folded + j] => j <= i
          BY <1>1, <1>2, RecoveredIs DEF r
        <4> QED BY <3>2, <4>1
      <3> QED BY <3>1, <3>3
    <2> QED BY <2>1, <2>2
  <1>4. \A p \in Page : After(Appended)[p] = Recovered(file, Len(log))[p]
    BY <1>1, <1>3, AfterIs DEF DInv
  <1>5. /\ Recovered(file, Len(log)) = [p \in Page |-> Recovered(file, Len(log))[p]]
        /\ After(Appended) = [p \in Page |-> After(Appended)[p]]
    BY DEF Recovered, After
  <1> QED BY <1>1, <1>4, <1>5

-----------------------------------------------------------------------------
(* The theorems.                                                           *)

\* DInv holds in every state.
LEMMA DInvAlways == Spec => []DInv
  BY InitDInv, NextDInv, PTL DEF Spec

\* The variables of the WAL and of the group fsync keep their ranges, with any
\* number of committers and with every fault: `durable` never runs ahead of
\* the frames written, nor the fsync ahead of the log.
THEOREM TypesHold == Spec => []TypeOK
  <1>1. DInv => TypeOK
    <2> SUFFICES ASSUME DInv PROVE TypeOK
      OBVIOUS
    <2>1. acked \subseteq DOMAIN wrote
      <3>1. DOMAIN wrote = 1 .. Len(wrote)
        BY DEF DInv, WTypes
      <3>2. Appended \in Nat /\ Len(wrote) \in Nat /\ Appended <= Len(wrote)
        BY Counts DEF DInv
      <3>3. acked \subseteq 1 .. Appended
        BY DEF DInv, Locks
      <3> QED BY <3>1, <3>2, <3>3
    <2>2. synced \in 0 .. Len(log) /\ durable \in 0 .. wal_frames_total
      BY Counts DEF DInv, WTypes, Tickets
    <2> QED BY <2>1, <2>2 DEF TypeOK, DInv, WTypes
  <1> QED BY <1>1, DInvAlways, PTL

\* COMMIT keeps its promise: while nothing but an fsync fails, a commit whose
\* caller was told Ok is recovered after the process dies and, under
\* synchronous=FULL, after a power failure that takes any unsynced page and any
\* unsynced end of the log.
THEOREM AckedCommitsSurvive == Spec => [](Harmless => AckedSurvive)
  <1>1. DInv => (Harmless => AckedSurvive)
    <2> SUFFICES ASSUME DInv, Harmless,
                        NEW o \in (IF Full THEN PowerOutcomes ELSE {KillOutcome}),
                        NEW c \in acked, NEW p \in wrote[c]
                 PROVE  o[p] >= c
      BY DEF AckedSurvive
    <2>1. /\ Folded \in Nat /\ Len(log) \in Nat /\ synced \in Nat /\ synced <= Len(log)
          /\ Appended = Folded + Len(log) /\ c \in 1 .. Appended
      BY Counts DEF DInv, Locks, Tickets, WTypes
    <2>2. p \in Page
      <3>1. c \in 1 .. Len(wrote)
        BY <2>1, Counts DEF DInv
      <3> QED BY <3>1, WalCommitAssumption DEF DInv, WTypes
    <2>3. Holds(main[p], p, Folded) /\ Holds(stable[p], p, Folded)
      BY <2>2 DEF DInv, Contents
    <2>4. CASE Full
      <3>1. PICK file \in [Page -> 0 .. MaxCommits], n \in synced .. Len(log) :
                 o = Recovered(file, n) /\ \A q \in Page : file[q] \in {stable[q], main[q]}
        BY <2>4 DEF PowerOutcomes
      <3>2. n \in 0 .. Len(log) /\ n \in Nat /\ n >= synced
        BY <2>1
      <3>3. Holds(file[p], p, Folded)
        BY <2>2, <2>3, <3>1
      <3>4. c <= Folded + synced
        BY <2>4 DEF DInv, Tickets, Secured
      <3>5. c \in 1 .. (Folded + n)
        BY <2>1, <3>2, <3>4
      <3> QED BY <2>2, <3>1, <3>2, <3>3, <3>5, RecoveredHolds
    <2>5. CASE ~Full
      <3>1. o = Recovered(main, Len(log))
        BY <2>5 DEF KillOutcome
      <3>2. Len(log) \in 0 .. Len(log) /\ c \in 1 .. (Folded + Len(log))
        BY <2>1
      <3> QED BY <2>2, <2>3, <3>1, <3>2, RecoveredHolds
    <2> QED BY <2>4, <2>5
  <1> QED BY <1>1, DInvAlways, PTL

\* A power failure leaves whole plain commits, a prefix of them: the fsync of
\* flush_wal_opts and the sync of the main file before the log is reset leave
\* no state in which a half-folded page can be recovered, whatever fails.
THEOREM PowerFailuresLeavePrefixes == Spec => []PowerConsistent
  <1>1. DInv => PowerConsistent
    <2> SUFFICES ASSUME DInv, ~Deferred, Full, NEW o \in PowerOutcomes
                 PROVE  \E k \in 0 .. Len(wrote) : o = After(k)
      BY DEF PowerConsistent
    <2>1. PICK file \in [Page -> 0 .. MaxCommits], n \in synced .. Len(log) :
               o = Recovered(file, n) /\ \A q \in Page : file[q] \in {stable[q], main[q]}
      BY DEF PowerOutcomes
    <2>2. n = Len(log)
      <3>1. synced = Len(log) /\ Len(log) \in Nat
        BY Counts DEF DInv, Tickets
      <3> QED BY <3>1
    <2> QED BY <2>1, <2>2, RecoveredExact
  <1> QED BY <1>1, DInvAlways, PTL

\* And so does a process that dies, at either level of synchronous: for plain
\* commits recover keeps "the WAL's atomic-commit guarantee" of wal.rs.
THEOREM PlainKillsLeavePrefixes == Spec => [](~Deferred => KillConsistent)
  <1>1. DInv => (~Deferred => KillConsistent)
    <2> SUFFICES ASSUME DInv, ~Deferred PROVE KillConsistent
      OBVIOUS
    <2>1. Appended \in 0 .. Len(wrote) /\ Recovered(main, Len(log)) = After(Appended)
      BY RecoveredExact
    <2> QED BY <2>1 DEF KillConsistent, KillOutcome
  <1> QED BY <1>1, DInvAlways, PTL
=============================================================================
