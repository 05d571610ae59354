----------------------------- MODULE WalCommit -----------------------------
(***************************************************************************)
(* How a commit becomes durable: the WAL append (flush_wal_opts,           *)
(* append_batch), the group fsync (group_sync) and the checkpoint that     *)
(* folds the log into the main file and resets it (checkpoint_wal), in     *)
(* storage/pager.rs and storage/wal.rs, for the commits of BEGIN           *)
(* CONCURRENT (Deferred) and for plain commits.                            *)
(*                                                                         *)
(* Commits are numbered in the order of commit_lock; the content of a page *)
(* is the number of the commit that wrote it last, 0 at first.  What the   *)
(* operating system has been told (main, log) and what a power failure     *)
(* cannot take away (stable, synced) are kept apart.  A crash is not an    *)
(* action: the invariants look, in every state, at what a reopening would  *)
(* recover.                                                                *)
(*                                                                         *)
(* Not here: the header page 0, which the fold takes from the log, spill   *)
(* frames, the validation of the commit (module Concurrent), other         *)
(* processes (they only make the fold defer).                              *)
(***************************************************************************)
EXTENDS Naturals, Sequences, FiniteSets

CONSTANTS
    Thread,      \* committers
    Page,        \* data pages
    Writes,      \* the sets of pages a commit may write
    Setups,      \* the ways the database may be run, one of which Init picks
    Threshold,   \* WAL_AUTOCHECKPOINT_FRAMES
    MaxCommits   \* bound: commits

None == "none"   \* nobody holds a lock

ASSUME WalCommitAssumption ==
    /\ None \notin Thread
    /\ IsFiniteSet(Page) /\ Writes \subseteq (SUBSET Page) \ {{}}
    /\ Setups \subseteq [deferred : BOOLEAN, full : BOOLEAN,
                        faults : SUBSET {"fsync", "append", "defer"}]
    /\ Threshold \in Nat \ {0} /\ MaxCommits \in Nat

VARIABLES
    setup,         \* one of Setups
    cache,         \* the live page cache
    main, stable,  \* the main file: as written, as of its last sync
    log, synced,   \* the WAL's commits, and how many of them an fsync covers
    n_frames,      \* frames of this generation of the log
    wal_frames_total,
    durable, syncing, err,   \* GroupSyncState
    commit_lock, wal,        \* the holders of the two locks
    pc, mine, todo,          \* per thread: label, its commit, pages left to do
    ticket, credit,          \* per thread: its ticket, what a leader will credit
    wrote,         \* history: the page sets of the commits
    acked          \* history: the commits whose caller was told Ok

disk == <<main, stable, log, synced, n_frames, wal_frames_total>>
group == <<durable, syncing, err>>
hist == <<wrote, acked>>
vars == <<setup, cache, disk, group, commit_lock, wal, pc, mine, todo, ticket, credit, hist>>

Deferred == setup.deferred   \* BEGIN CONCURRENT commits, else plain ones
Full == setup.full           \* synchronous=FULL, else NORMAL
Faults == setup.faults       \* what may go wrong

Init ==
    /\ setup \in Setups
    /\ cache = [p \in Page |-> 0] /\ main = cache /\ stable = cache
    /\ log = <<>> /\ synced = 0 /\ n_frames = 0 /\ wal_frames_total = 0
    /\ durable = 0 /\ syncing = FALSE /\ err = FALSE
    /\ commit_lock = None /\ wal = None
    /\ pc = [t \in Thread |-> "idle"]
    /\ mine = [t \in Thread |-> 0] /\ todo = [t \in Thread |-> {}]
    /\ ticket = [t \in Thread |-> 0] /\ credit = [t \in Thread |-> 0]
    /\ wrote = <<>> /\ acked = {}

Goto(t, l) == pc' = [pc EXCEPT ![t] = l]

Larger(a, b) == IF a > b THEN a ELSE b

\* WalState::map: the pages with a committed frame, and the newest of these.
Mapped == UNION {log[i].pages : i \in {j \in DOMAIN log : log[j].ok}}
LatestFrame(p) ==
    LET at == {i \in DOMAIN log : log[i].ok /\ p \in log[i].pages}
    IN  log[CHOOSE i \in at : \A j \in at : j <= i].commit

-----------------------------------------------------------------------------
(* A commit: install under the commit lock, append under the WAL lock *)

Begin(t, W) ==
    /\ pc[t] = "idle" /\ commit_lock = None /\ Len(wrote) < MaxCommits
    /\ commit_lock' = t
    /\ mine' = [mine EXCEPT ![t] = Len(wrote) + 1]
    /\ todo' = [todo EXCEPT ![t] = W]
    /\ wrote' = Append(wrote, W)
    /\ Goto(t, "install")
    /\ UNCHANGED <<setup, cache, disk, group, wal, ticket, credit, acked>>

\* Mutant: the page reaches the main file before its commit is logged.
InstallPage_WriteThrough(t, p) ==
    /\ pc[t] = "install" /\ p \in todo[t]
    /\ cache' = [cache EXCEPT ![p] = mine[t]] /\ main' = [main EXCEPT ![p] = mine[t]]
    /\ todo' = [todo EXCEPT ![t] = @ \ {p}]
    /\ UNCHANGED <<setup, stable, log, synced, n_frames, wal_frames_total, group,
                   commit_lock, wal, pc, mine, ticket, credit, hist>>

\* install_txn_shadows, or the tree surgery of a plain statement.
InstallPage(t, p) ==
    /\ pc[t] = "install" /\ p \in todo[t]
    /\ cache' = [cache EXCEPT ![p] = mine[t]]
    /\ todo' = [todo EXCEPT ![t] = @ \ {p}]
    /\ UNCHANGED <<setup, disk, group, commit_lock, wal, pc, mine, ticket, credit, hist>>

Logged(t, ok) ==
    LET W == wrote[mine[t]]
    IN  /\ log' = Append(log, [commit |-> mine[t], pages |-> W, ok |-> ok])
        /\ n_frames' = n_frames + Cardinality(W)

CanAppend(t) == pc[t] = "install" /\ todo[t] = {} /\ wal = None

\* flush_wal_opts: a plain commit syncs at once and keeps the engine's lock,
\* a deferred one leaves the critical section with a ticket.
WalAppend(t) ==
    /\ CanAppend(t) /\ Logged(t, TRUE)
    /\ wal_frames_total' = wal_frames_total + Cardinality(wrote[mine[t]])
    /\ ticket' = [ticket EXCEPT ![t] = wal_frames_total']
    /\ synced' = IF Full /\ ~Deferred THEN Len(log') ELSE synced
    /\ commit_lock' = IF Deferred THEN None ELSE t
    /\ Goto(t, IF Deferred THEN "sync" ELSE "due")
    /\ UNCHANGED <<setup, cache, main, stable, group, wal, mine, todo, credit, hist>>

\* The last write of append_batch fails: the frames are counted all the same.
AppendFails(t) ==
    /\ "append" \in Faults /\ Deferred
    /\ CanAppend(t) /\ Logged(t, FALSE)
    /\ commit_lock' = None
    /\ Goto(t, "idle")
    /\ UNCHANGED <<setup, cache, main, stable, synced, wal_frames_total, group, wal, mine,
                   todo, ticket, credit, hist>>

-----------------------------------------------------------------------------
(* group_sync *)

Ack(t) == acked' = acked \cup {mine[t]}

\* The state mutex is held for each of the first three steps.
Covered(t) ==
    /\ pc[t] = "sync" /\ Full /\ durable >= ticket[t]
    /\ Ack(t) /\ Goto(t, "idle")
    /\ UNCHANGED <<setup, cache, disk, group, commit_lock, wal, mine, todo, ticket, credit, wrote>>

\* Mutant: the leader does not say that it leads.
Lead_Silent(t) ==
    /\ pc[t] = "sync" /\ Full /\ durable < ticket[t] /\ ~syncing
    /\ err' = FALSE
    /\ Goto(t, "lead")
    /\ UNCHANGED <<setup, cache, disk, durable, syncing, commit_lock, wal, mine, todo, ticket,
                   credit, hist>>

Lead(t) ==
    /\ pc[t] = "sync" /\ Full /\ durable < ticket[t] /\ ~syncing
    /\ syncing' = TRUE /\ err' = FALSE
    /\ Goto(t, "lead")
    /\ UNCHANGED <<setup, cache, disk, durable, commit_lock, wal, mine, todo, ticket, credit, hist>>

Follow(t) ==
    /\ pc[t] = "sync" /\ Full /\ durable < ticket[t] /\ syncing
    /\ Goto(t, IF err THEN "idle" ELSE "waiting")
    /\ UNCHANGED <<setup, cache, disk, group, commit_lock, wal, mine, todo, ticket, credit, hist>>

\* synchronous=NORMAL: no wait, only the duty to checkpoint.
SkipSync(t) ==
    /\ pc[t] = "sync" /\ ~Full
    /\ credit' = [credit EXCEPT ![t] = 0]
    /\ Goto(t, "due")
    /\ UNCHANGED <<setup, cache, disk, group, commit_lock, wal, mine, todo, ticket, hist>>

LoadTarget(t) ==
    /\ pc[t] = "lead"
    /\ credit' = [credit EXCEPT ![t] = wal_frames_total]
    /\ Goto(t, "fsync")
    /\ UNCHANGED <<setup, cache, disk, group, commit_lock, wal, mine, todo, ticket, hist>>

Fsync(t) ==
    /\ pc[t] = "fsync" /\ wal = None
    /\ synced' = Len(log)
    /\ Goto(t, "due")
    /\ UNCHANGED <<setup, cache, main, stable, log, n_frames, wal_frames_total, group,
                   commit_lock, wal, mine, todo, ticket, credit, hist>>

\* The fsync of the log, or that of the main file at the end of a fold.
FsyncFails(t) ==
    /\ "fsync" \in Faults
    /\ \/ pc[t] = "fsync" /\ wal = None
       \/ pc[t] = "fold" /\ todo[t] = {}
    /\ wal' = None
    /\ Goto(t, "failed")
    /\ UNCHANGED <<setup, cache, disk, group, commit_lock, mine, todo, ticket, credit, hist>>

\* Mutant: the leader publishes and forgets notify_all.
Report_NoNotify(t) ==
    /\ pc[t] \in {"report", "failed"} /\ Deferred /\ Full
    /\ syncing' = FALSE
    /\ err' = (pc[t] = "failed" \/ err)
    /\ durable' = IF pc[t] = "failed" THEN durable ELSE Larger(durable, credit[t])
    /\ Goto(t, "sync")
    /\ UNCHANGED <<setup, cache, disk, commit_lock, wal, mine, todo, ticket, credit, hist>>

\* The leader is done: it publishes and wakes the followers.
Report(t) ==
    /\ pc[t] \in {"report", "failed"} /\ Deferred /\ Full
    /\ syncing' = FALSE
    /\ err' = (pc[t] = "failed" \/ err)
    /\ durable' = IF pc[t] = "failed" THEN durable ELSE Larger(durable, credit[t])
    /\ pc' = [u \in Thread |-> IF u = t \/ pc[u] = "waiting" THEN "sync" ELSE pc[u]]
    /\ UNCHANGED <<setup, cache, disk, commit_lock, wal, mine, todo, ticket, credit, hist>>

\* The end of a commit that waits for nobody.
Return(t) ==
    /\ pc[t] \in {"report", "failed"} /\ ~(Deferred /\ Full)
    /\ durable' = IF Deferred /\ pc[t] = "report" THEN Larger(durable, credit[t]) ELSE durable
    /\ commit_lock' = IF Deferred THEN commit_lock ELSE None
    /\ IF pc[t] = "report" THEN Ack(t) ELSE UNCHANGED acked
    /\ Goto(t, "idle")
    /\ UNCHANGED <<setup, cache, disk, syncing, err, wal, mine, todo, ticket, credit, wrote>>

-----------------------------------------------------------------------------
(* The checkpoint *)

\* Mutant: the frame count is loaded after the fsync, checkpoint or not.
Due_CreditsLate(t) ==
    /\ pc[t] = "due" /\ wal = None
    /\ Goto(t, IF n_frames < Threshold THEN "report" ELSE "gate")
    /\ credit' = [credit EXCEPT ![t] = Larger(@, wal_frames_total)]
    /\ UNCHANGED <<setup, cache, disk, group, commit_lock, wal, mine, todo, ticket, hist>>

\* group_checkpoint_if_due, or the tail of flush_wal_opts.
Due(t) ==
    /\ pc[t] = "due" /\ wal = None
    /\ IF n_frames < Threshold
       THEN Goto(t, "report") /\ UNCHANGED credit
       ELSE /\ Goto(t, "gate")
            /\ credit' = [credit EXCEPT ![t] = Larger(@, wal_frames_total)]
    /\ UNCHANGED <<setup, cache, disk, group, commit_lock, wal, mine, todo, ticket, hist>>

\* Another handle has the file open: checkpoint_wal returns Ok, nothing done.
DeferFold(t) ==
    /\ pc[t] = "gate" /\ "defer" \in Faults
    /\ Goto(t, "report")
    /\ UNCHANGED <<setup, cache, disk, group, commit_lock, wal, mine, todo, ticket, credit, hist>>

StartFold(t) ==
    /\ pc[t] = "gate" /\ wal = None
    /\ wal' = t
    /\ todo' = [todo EXCEPT ![t] = Mapped]
    /\ Goto(t, "fold")
    /\ UNCHANGED <<setup, cache, disk, group, commit_lock, mine, ticket, credit, hist>>

\* A page is taken from the cache if it is there, else from its frame.
FoldPage(t, p) ==
    /\ pc[t] = "fold" /\ p \in todo[t]
    /\ \E v \in {cache[p], LatestFrame(p)} : main' = [main EXCEPT ![p] = v]
    /\ todo' = [todo EXCEPT ![t] = @ \ {p}]
    /\ UNCHANGED <<setup, cache, stable, log, synced, n_frames, wal_frames_total, group,
                   commit_lock, wal, pc, mine, ticket, credit, hist>>

FoldSync(t) ==
    /\ pc[t] = "fold" /\ todo[t] = {}
    /\ stable' = main
    /\ Goto(t, "reset")
    /\ UNCHANGED <<setup, cache, main, log, synced, n_frames, wal_frames_total, group,
                   commit_lock, wal, mine, todo, ticket, credit, hist>>

\* Mutant: the new generation of the log still counts as synced.
Reset_KeepsSynced(t) ==
    /\ pc[t] = "reset"
    /\ log' = <<>> /\ n_frames' = 0
    /\ wal' = None
    /\ Goto(t, "report")
    /\ UNCHANGED <<setup, cache, main, stable, synced, wal_frames_total, group, commit_lock, mine,
                   todo, ticket, credit, hist>>

\* reset_keep_size_synced.
Reset(t) ==
    /\ pc[t] = "reset"
    /\ log' = <<>> /\ synced' = 0 /\ n_frames' = 0
    /\ wal' = None
    /\ Goto(t, "report")
    /\ UNCHANGED <<setup, cache, main, stable, wal_frames_total, group, commit_lock, mine,
                   todo, ticket, credit, hist>>

Step(t) ==
    \/ \E p \in Page : InstallPage(t, p) \/ FoldPage(t, p)
    \/ WalAppend(t) \/ AppendFails(t)
    \/ Covered(t) \/ Lead(t) \/ Follow(t) \/ SkipSync(t)
    \/ LoadTarget(t) \/ Fsync(t) \/ FsyncFails(t) \/ Report(t) \/ Return(t)
    \/ Due(t) \/ DeferFold(t) \/ StartFold(t) \/ FoldSync(t) \/ Reset(t)

Next == \E t \in Thread : Step(t) \/ \E W \in Writes : Begin(t, W)

Spec == Init /\ [][Next]_vars

\* A thread that can run is scheduled; nobody is obliged to begin a commit.
FairSpec == Spec /\ \A t \in Thread : WF_vars(Step(t))

-----------------------------------------------------------------------------
(* What a reopening finds *)

\* Wal::recover replays the log up to the first frame whose checksum fails.
Recovered(file, n) ==
    LET good == {i \in 1 .. n : \A j \in 1 .. i : log[j].ok}
        at(p) == {i \in good : p \in log[i].pages}
    IN  [p \in Page |-> IF at(p) = {} THEN file[p]
                        ELSE log[CHOOSE i \in at(p) : \A j \in at(p) : j <= i].commit]

\* The process dies: everything written survives.
KillOutcome == Recovered(main, Len(log))

\* The power fails: each unsynced page write and each suffix of the unsynced
\* log may be lost.
PowerOutcomes ==
    {Recovered(file, n) : file \in {f \in [Page -> 0 .. MaxCommits] :
                                      \A p \in Page : f[p] \in {stable[p], main[p]}},
                          n \in synced .. Len(log)}

\* The database after the first k commits.
After(k) ==
    [p \in Page |-> LET by == {c \in 1 .. k : p \in wrote[c]}
                    IN  IF by = {} THEN 0 ELSE CHOOSE c \in by : \A d \in by : d <= c]

-----------------------------------------------------------------------------
(* Properties *)

Leading == {"lead", "fsync", "due", "gate", "fold", "reset", "report", "failed"}
Label == {"idle", "install", "sync", "waiting"} \cup Leading

\* Every variable is in its range; the fsync never covers more than the log.
TypeOK ==
    /\ setup \in Setups
    /\ {cache, main, stable} \subseteq [Page -> 0 .. MaxCommits]
    /\ synced \in 0 .. Len(log) /\ n_frames \in Nat /\ wal_frames_total \in Nat
    /\ durable \in 0 .. wal_frames_total /\ {syncing, err} \subseteq BOOLEAN
    /\ {commit_lock, wal} \subseteq Thread \cup {None}
    /\ pc \in [Thread -> Label]
    /\ mine \in [Thread -> 0 .. MaxCommits] /\ todo \in [Thread -> SUBSET Page]
    /\ ticket \in [Thread -> Nat] /\ credit \in [Thread -> Nat]
    /\ acked \subseteq DOMAIN wrote

\* The promise of COMMIT: a commit whose caller was told Ok is there after a
\* crash, under FULL after a power failure too (group_sync: "wait for the
\* durability of WAL frames up to `ticket`").
AckedSurvive ==
    \A o \in (IF Full THEN PowerOutcomes ELSE {KillOutcome}) :
        \A c \in acked : \A p \in wrote[c] : o[p] >= c

\* A process that dies leaves whole commits behind, a prefix of them
\* (wal.rs, recover: "the WAL's atomic-commit guarantee").
KillConsistent == \E k \in 0 .. Len(wrote) : KillOutcome = After(k)

\* So does a power failure, for plain commits under FULL: checkpoint_wal
\* syncs the main file before it resets the log.
PowerConsistent ==
    ~Deferred /\ Full =>
        \A o \in PowerOutcomes : \E k \in 0 .. Len(wrote) : o = After(k)

\* group_sync has one leader whenever `syncing` says so and followers sleep
\* only under a leader, who will wake them: no condvar waiter is forgotten.
SleepersHaveLeader ==
    Deferred /\ Full =>
        /\ \A t, u \in Thread : pc[t] \in Leading /\ pc[u] \in Leading => t = u
        /\ syncing <=> \E t \in Thread : pc[t] \in Leading
        /\ (\E t \in Thread : pc[t] = "waiting") => syncing

\* Every COMMIT returns, with Ok or with an error (GroupSyncState.err:
\* "observed by waiters of the failed batch").
EveryoneReturns == \A t \in Thread : pc[t] # "idle" ~> pc[t] = "idle"
=============================================================================
