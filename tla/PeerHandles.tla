---------------------------- MODULE PeerHandles ----------------------------
(***************************************************************************)
(* Several Database handles of one process on one DELETE-mode file         *)
(* (storage/peer.rs and its callers in pager.rs and api.rs).  Every handle *)
(* has its own page cache.  A commit rewrites pages of the file in place,  *)
(* so the handles agree through a commit generation (is my cache           *)
(* current?), read scopes against the commit section, the lease that is    *)
(* SQLite's RESERVED lock, and the list of open read transactions.         *)
(*                                                                         *)
(* A handle runs one statement at a time; beside it a stepped SELECT (a    *)
(* cursor) may stay open.  A page is a version number: every change of a   *)
(* page makes a new one.                                                   *)
(***************************************************************************)
EXTENDS Integers, Sequences, FiniteSets

CONSTANTS
    Handle,     \* the handles that may be opened
    Page,       \* page ids
    NoHandle,
    Works,      \* what applications do: sets of statements and "close"
    Events,     \* what else may happen: see OpensQuietly, ClosesQuietly,
                \* LateRefusal
    MaxWrites,  \* bound: changes of pages
    MaxGen      \* bound: commits

Statements == {"select", "cursor", "write", "step", "begin",
               "begin_immediate", "begin_exclusive", "commit", "rollback"}

ASSUME PeerAssumption ==
    /\ NoHandle \notin Handle
    /\ IsFiniteSet(Handle)
    /\ Page \subseteq Nat
    /\ Works \subseteq SUBSET (Statements \cup {"close"})
    /\ Events \subseteq {"open_anytime", "close_anytime", "late_refusal"}

VARIABLES
    open,       \* handles attached to the PeerShared of the path
    gen,        \* PeerShared::gen
    readers, committing, waitingOwn,    \* PeerShared::st
    txnReaders, exclusive,              \* PeerShared
    lease,      \* owner of the path's writer lease
    file,       \* the pages of the main file
    pc, op,     \* where the handle's statement is, and which one it is
    guard,      \* the statement holds a PeerReadGuard
    cursor,     \* "none", "bare" (opened by a sole handle) or "guarded"
    own,        \* peer_own_reads
    seen,       \* peer_seen_gen
    cache, dirty, pre,  \* cached pages, marked pages, their pre-images
    marked,     \* dirty_at_start of the statement
    todo,       \* pages the commit body has still to write
    busy, wrote, inTxn, \* writer_busy, txn_wrote, in_transaction
    clock,      \* the last version of a page
    work,       \* what the application does, one of Works
    published   \* history: the states of the database, one per commit

handleVars == <<pc, op, guard, cursor, own, seen, cache, dirty, pre, marked,
                todo, busy, wrote, inTxn>>
sharedVars == <<open, gen, readers, committing, waitingOwn, txnReaders,
                exclusive, lease, file, clock, published, work>>
vars == <<open, gen, readers, committing, waitingOwn, txnReaders, exclusive,
          lease, file, pc, op, guard, cursor, own, seen, cache, dirty, pre,
          marked, todo, busy, wrote, inTxn, clock, published, work>>

Miss == 0           \* a page that is not cached
Seed == 1           \* the version every page starts with

\* The state the last commit left: what every current view has to show.
Committed == published[Len(published)]


\* Arc::strong_count(p) >= 2: every handle and every read guard owns one.
Peers == Cardinality(open) + readers >= 2
Others(h) == open \ {h}
EmptyCache == [p \in Page |-> Miss]

Init ==
    /\ open = {}
    /\ gen = 0
    /\ readers = 0 /\ committing = FALSE /\ waitingOwn = 0
    /\ txnReaders = {} /\ exclusive = NoHandle
    /\ lease = NoHandle
    /\ file = [p \in Page |-> Seed]
    /\ pc = [h \in Handle |-> "idle"]
    /\ op = [h \in Handle |-> "select"]
    /\ guard = [h \in Handle |-> FALSE]
    /\ cursor = [h \in Handle |-> "none"]
    /\ own = [h \in Handle |-> 0]
    /\ seen = [h \in Handle |-> 0]
    /\ cache = [h \in Handle |-> EmptyCache]
    /\ dirty = [h \in Handle |-> {}]
    /\ pre = [h \in Handle |-> EmptyCache]
    /\ marked = [h \in Handle |-> 0]
    /\ todo = [h \in Handle |-> {}]
    /\ busy = [h \in Handle |-> FALSE]
    /\ wrote = [h \in Handle |-> FALSE]
    /\ inTxn = [h \in Handle |-> FALSE]
    /\ clock = Seed
    /\ work \in Works
    /\ published = <<[p \in Page |-> Seed]>>

-----------------------------------------------------------------------------
(* Opening and closing *)

\* Without "open_anytime" a handle is opened between the statements of the
\* others, when none has a cursor or left-over marks from its time alone.
OpensQuietly ==
    \A k \in open : /\ pc[k] = "idle"
                    /\ cursor[k] # "bare"
                    /\ dirty[k] # {} => inTxn[k]

\* Pager::open: attach to the live PeerShared or to a fresh one, note its
\* generation, join.
Open(h) ==
    /\ h \notin open
    /\ "open_anytime" \in Events \/ OpensQuietly
    /\ open' = open \cup {h}
    /\ gen' = IF open = {} THEN 0 ELSE gen
    /\ seen' = [seen EXCEPT ![h] = gen']
    /\ cache' = [cache EXCEPT ![h] = EmptyCache]
    /\ UNCHANGED <<readers, committing, waitingOwn, txnReaders, exclusive, lease,
                   file, pc, op, guard, cursor, own, dirty, pre, marked, todo,
                   busy, wrote, inTxn, clock, published, work>>

\* Without "close_anytime" no handle is closed while another one is inside a
\* transaction.
ClosesQuietly(h) == \A k \in Others(h) : ~inTxn[k]

\* Drop of the handle: leave, release the lease; what is not committed goes.
Close(h) ==
    /\ h \in open /\ pc[h] = "idle" /\ cursor[h] = "none"
    /\ "close" \in work
    /\ "close_anytime" \in Events \/ ClosesQuietly(h)
    /\ open' = open \ {h}
    /\ txnReaders' = txnReaders \ {h}
    /\ exclusive' = IF exclusive = h THEN NoHandle ELSE exclusive
    /\ lease' = IF lease = h THEN NoHandle ELSE lease
    /\ dirty' = [dirty EXCEPT ![h] = {}]
    /\ cache' = [cache EXCEPT ![h] = EmptyCache]
    /\ busy' = [busy EXCEPT ![h] = FALSE]
    /\ wrote' = [wrote EXCEPT ![h] = FALSE]
    /\ inTxn' = [inTxn EXCEPT ![h] = FALSE]
    /\ UNCHANGED <<gen, readers, committing, waitingOwn, file, pc, op, guard,
                   cursor, own, seen, pre, marked, todo, clock, published, work>>

-----------------------------------------------------------------------------
(* The beginning of a statement *)

IsWrite(o) == o \in {"write", "step", "begin_immediate", "begin_exclusive"}

\* execute takes the writer role before its read scope; a stepped statement
\* enters its scope first.
FirstStage(o) == IF IsWrite(o) /\ o # "step" THEN "publish" ELSE "enter"
AfterRole(o) == IF o = "step" THEN "run" ELSE "enter"
AfterScope(o) == IF o = "step" THEN "publish" ELSE "run"

Start(h, o) ==
    /\ h \in open /\ pc[h] = "idle"
    /\ o \in work
    /\ o \in {"begin", "begin_immediate", "begin_exclusive"} => ~inTxn[h]
    /\ o \in {"commit", "rollback"} => inTxn[h]
    /\ o = "cursor" => cursor[h] = "none"
    /\ op' = [op EXCEPT ![h] = o]
    /\ pc' = [pc EXCEPT ![h] = FirstStage(o)]
    /\ marked' = [marked EXCEPT ![h] = Cardinality(dirty[h])]
    /\ UNCHANGED <<sharedVars, guard, cursor, own, seen, cache, dirty, pre, todo,
                   busy, wrote, inTxn>>

\* The way out of a statement that fails before it has run.
Abandon(o) == IF o \in {"select", "cursor", "step"} THEN "idle" ELSE "exit"

\* wal_stmt_begin: RESERVED is published before anything is checked.
Publish(h) ==
    /\ pc[h] = "publish"
    /\ busy' = [busy EXCEPT ![h] = TRUE]
    /\ wrote' = [wrote EXCEPT ![h] = TRUE]
    /\ pc' = [pc EXCEPT ![h] = "lease"]
    /\ UNCHANGED <<sharedVars, op, guard, cursor, own, seen, cache, dirty, pre,
                   marked, todo, inTxn>>

\* Mutant: a free lease is taken whoever holds RESERVED without it.
LeaseFreeUnseen(h) == lease \in {h, NoHandle} \/ (lease \in Others(h) /\ ~busy[lease])

\* acquire_wal_lease_relieving: the lease is ours, or free while nobody else
\* is busy, or its holder is idle and is relieved of it.
LeaseFree(h) ==
    \/ lease = h
    \/ lease = NoHandle /\ \A k \in Others(h) : ~busy[k]
    \/ lease \in Others(h) /\ ~busy[lease]

\* Mutant: only a handle with peers looks at the generation.
RefreshesAmongPeers(h) == Peers /\ gen # seen[h] /\ dirty[h] = {}

\* peer_refresh: a stale view without unflushed pages is dropped.
Refreshes(h) == gen # seen[h] /\ dirty[h] = {}
Refresh(h) ==
    /\ cache' = IF Refreshes(h) THEN [cache EXCEPT ![h] = EmptyCache] ELSE cache
    /\ seen' = IF Refreshes(h) THEN [seen EXCEPT ![h] = gen] ELSE seen

\* wal_write_begin; the first write of a transaction refreshes its view.
TakeLease(h) ==
    /\ pc[h] = "lease"
    /\ \/ /\ ~Peers
          /\ UNCHANGED <<lease, cache, seen>>
       \/ /\ Peers /\ LeaseFree(h)
          /\ lease' = h
          /\ IF inTxn[h] THEN Refresh(h) ELSE UNCHANGED <<cache, seen>>
    /\ pc' = [pc EXCEPT ![h] = IF op[h] = "begin_exclusive" THEN "exclusive" ELSE AfterRole(op[h])]
    /\ UNCHANGED <<open, gen, readers, committing, waitingOwn, txnReaders, exclusive,
                   file, op, guard, cursor, own, dirty, pre, marked, todo, busy,
                   wrote, inTxn, clock, published, work>>

\* The busy timeout is over: SQLITE_BUSY.
RefuseLease(h) ==
    /\ pc[h] = "lease" /\ Peers /\ ~LeaseFree(h)
    /\ pc' = [pc EXCEPT ![h] = "exit"]
    /\ UNCHANGED <<sharedVars, op, guard, cursor, own, seen, cache, dirty, pre,
                   marked, todo, busy, wrote, inTxn>>

\* peer_commit_may_proceed, once its wait is over.
MayProceed(h) == Peers => txnReaders \subseteq {h}

\* peer_take_exclusive.
TakeExclusive(h) ==
    /\ pc[h] = "exclusive"
    /\ IF MayProceed(h)
       THEN exclusive' = h /\ pc' = [pc EXCEPT ![h] = "enter"]
       ELSE UNCHANGED exclusive /\ pc' = [pc EXCEPT ![h] = "exit"]
    /\ UNCHANGED <<open, gen, readers, committing, waitingOwn, txnReaders, lease,
                   file, clock, published, op, guard, cursor, own, seen, cache,
                   dirty, pre, marked, todo, busy, wrote, inTxn, work>>

\* peer_read_enter: a sole handle gets no guard; a peer waits out a commit.
EnterScope(h) ==
    /\ pc[h] = "enter"
    /\ Peers => exclusive \in {NoHandle, h} /\ ~committing
    /\ pc' = [pc EXCEPT ![h] = "refresh"]
    /\ guard' = [guard EXCEPT ![h] = Peers]
    /\ readers' = IF Peers THEN readers + 1 ELSE readers
    /\ own' = IF Peers THEN [own EXCEPT ![h] = @ + 1] ELSE own
    /\ UNCHANGED <<open, gen, committing, waitingOwn, txnReaders, exclusive, lease,
                   file, clock, published, op, cursor, seen, cache, dirty, pre,
                   marked, todo, busy, wrote, inTxn, work>>

\* Another handle is exclusive, or the wait for its commit is over.
RefuseScope(h) ==
    /\ pc[h] = "enter"
    /\ Peers /\ (exclusive \notin {NoHandle, h} \/ committing)
    /\ pc' = [pc EXCEPT ![h] = Abandon(op[h])]
    /\ UNCHANGED <<sharedVars, op, guard, cursor, own, seen, cache, dirty, pre,
                   marked, todo, busy, wrote, inTxn>>

\* xread_scope_sql: outside a transaction the view is brought up to date,
\* inside one the transaction is listed as a reader.
EnterView(h) ==
    /\ pc[h] = "refresh"
    /\ IF inTxn[h]
       THEN /\ txnReaders' = IF Peers THEN txnReaders \cup {h} ELSE txnReaders
            /\ UNCHANGED <<cache, seen>>
       ELSE /\ Refresh(h)
            /\ UNCHANGED txnReaders
    /\ pc' = [pc EXCEPT ![h] = AfterScope(op[h])]
    /\ UNCHANGED <<open, gen, readers, committing, waitingOwn, exclusive, lease,
                   file, clock, published, op, guard, cursor, own, dirty, pre,
                   marked, todo, busy, wrote, inTxn, work>>

-----------------------------------------------------------------------------
(* The statement itself *)

Reads(h) ==
    \/ pc[h] = "run" /\ op[h] \in {"select", "cursor", "write", "step"}
    \/ pc[h] = "idle" /\ cursor[h] # "none"

\* get_page: a page that is not cached is read from the file.
Load(h, p) ==
    /\ Reads(h) /\ cache[h][p] = Miss
    /\ cache' = [cache EXCEPT ![h][p] = file[p]]
    /\ UNCHANGED <<sharedVars, pc, op, guard, cursor, own, seen, dirty, pre,
                   marked, todo, busy, wrote, inTxn>>

\* A change of a cached page; note_dirty marks it.
Store(h, p) ==
    /\ pc[h] = "run" /\ op[h] \in {"write", "step"}
    /\ cache[h][p] # Miss
    /\ clock < MaxWrites
    /\ clock' = clock + 1
    /\ cache' = [cache EXCEPT ![h][p] = clock']
    /\ pre' = IF p \in dirty[h] THEN pre ELSE [pre EXCEPT ![h][p] = cache[h][p]]
    /\ dirty' = [dirty EXCEPT ![h] = @ \cup {p}]
    /\ UNCHANGED <<open, gen, readers, committing, waitingOwn, txnReaders, exclusive,
                   lease, file, published, pc, op, guard, cursor, own, seen, marked,
                   todo, busy, wrote, inTxn, work>>

\* The end of the scope comes before wal_stmt_exit, except for a stepped one.
Leaving(o) == IF o = "step" THEN "exit" ELSE "leave"

\* A read ends; a cursor keeps the scope for its later steps.
EndRead(h) ==
    /\ pc[h] = "run" /\ op[h] \in {"select", "cursor"}
    /\ IF op[h] = "cursor"
       THEN /\ cursor' = [cursor EXCEPT ![h] = IF guard[h] THEN "guarded" ELSE "bare"]
            /\ guard' = [guard EXCEPT ![h] = FALSE]
            /\ pc' = [pc EXCEPT ![h] = "idle"]
       ELSE /\ pc' = [pc EXCEPT ![h] = "leave"]
            /\ UNCHANGED <<cursor, guard>>
    /\ UNCHANGED <<sharedVars, op, own, seen, cache, dirty, pre, marked, todo, busy,
                   wrote, inTxn>>

\* An autocommit statement flushes what it changed.
EndWrite(h) ==
    /\ pc[h] = "run" /\ op[h] \in {"write", "step"}
    /\ pc' = [pc EXCEPT ![h] = IF ~inTxn[h] /\ dirty[h] # {} THEN "flush" ELSE Leaving(op[h])]
    /\ UNCHANGED <<sharedVars, op, guard, cursor, own, seen, cache, dirty, pre,
                   marked, todo, busy, wrote, inTxn>>

Begin(h) ==
    /\ pc[h] = "run" /\ op[h] \in {"begin", "begin_immediate", "begin_exclusive"}
    /\ inTxn' = [inTxn EXCEPT ![h] = TRUE]
    /\ pc' = [pc EXCEPT ![h] = "leave"]
    /\ UNCHANGED <<sharedVars, op, guard, cursor, own, seen, cache, dirty, pre,
                   marked, todo, busy, wrote>>

\* peer_conflict: a peer committed since this view, which has unflushed pages.
PeerConflict(h) == gen # seen[h] /\ dirty[h] # {}

\* COMMIT: refused while a peer is in a read transaction (the transaction
\* stays open); rolled back on a conflict; else the transaction is over, and
\* what it changed is flushed.
Commit(h) ==
    /\ pc[h] = "run" /\ op[h] = "commit"
    /\ LET refused  == dirty[h] # {} /\ ~MayProceed(h)
           conflict == ~refused /\ PeerConflict(h)
       IN /\ inTxn' = [inTxn EXCEPT ![h] = refused]
          /\ cache' = IF conflict THEN [cache EXCEPT ![h] = EmptyCache] ELSE cache
          /\ dirty' = IF conflict THEN [dirty EXCEPT ![h] = {}] ELSE dirty
          /\ pc' = [pc EXCEPT ![h] = IF refused \/ conflict \/ dirty[h] = {}
                                     THEN "leave" ELSE "flush"]
    /\ UNCHANGED <<sharedVars, op, guard, cursor, own, seen, pre, marked, todo,
                   busy, wrote>>

\* The changed pages with their pre-images put back.
Restored(h) == [p \in Page |-> IF p \in dirty[h] THEN pre[h][p] ELSE cache[h][p]]

\* ROLLBACK: the pre-images are put back in the cache and keep their marks.
Rollback(h) ==
    /\ pc[h] = "run" /\ op[h] = "rollback"
    /\ inTxn' = [inTxn EXCEPT ![h] = FALSE]
    /\ cache' = [cache EXCEPT ![h] = Restored(h)]
    /\ pc' = [pc EXCEPT ![h] = "leave"]
    /\ UNCHANGED <<sharedVars, op, guard, cursor, own, seen, dirty, pre, marked,
                   todo, busy, wrote>>

-----------------------------------------------------------------------------
(* flush_inner_delete *)

\* A flush that fails.  The statement journal puts the rows of an autocommit
\* statement back; if it marked a page, its view is also dropped, marks and
\* all.  A COMMIT that fails here undoes nothing.
Dropped(h) == op[h] # "commit" /\ Cardinality(dirty[h]) # marked[h]
FlushFails(h) ==
    /\ cache' = [cache EXCEPT ![h] = IF op[h] = "commit" THEN @
                                     ELSE IF Dropped(h) THEN EmptyCache ELSE Restored(h)]
    /\ dirty' = IF Dropped(h) THEN [dirty EXCEPT ![h] = {}] ELSE dirty
    /\ pc' = [pc EXCEPT ![h] = Leaving(op[h])]

\* A COMMIT refused after its transaction was ended (see FlushFails).
LateRefusal(h) == op[h] = "commit" => "late_refusal" \in Events

\* A sole handle writes at once; with peers no read transaction may be open.
FlushBegin(h) ==
    /\ pc[h] = "flush" /\ MayProceed(h)
    /\ pc' = [pc EXCEPT ![h] = IF Peers THEN "commit" ELSE "alone"]
    /\ todo' = [todo EXCEPT ![h] = dirty[h]]
    /\ UNCHANGED <<sharedVars, op, guard, cursor, own, seen, cache, dirty, pre,
                   marked, busy, wrote, inTxn>>

FlushRefused(h) ==
    /\ pc[h] = "flush" /\ ~MayProceed(h) /\ LateRefusal(h)
    /\ FlushFails(h)
    /\ UNCHANGED <<sharedVars, op, guard, cursor, own, seen, pre, marked, todo,
                   busy, wrote, inTxn>>

\* commit_enter: the scopes of whoever waits here do not count as readers.
CommitAsk(h) ==
    /\ pc[h] = "commit"
    /\ waitingOwn' = waitingOwn + own[h]
    /\ pc' = [pc EXCEPT ![h] = "wait"]
    /\ UNCHANGED <<open, gen, readers, committing, txnReaders, exclusive, lease,
                   file, clock, published, op, guard, cursor, own, seen, cache,
                   dirty, pre, marked, todo, busy, wrote, inTxn, work>>

\* Mutant: commit_enter does not wait for readers.
MustWaitSection == committing
MustWait == committing \/ readers > waitingOwn

CommitEnter(h) ==
    /\ pc[h] = "wait" /\ ~MustWait
    /\ waitingOwn' = waitingOwn - own[h]
    /\ committing' = TRUE
    /\ pc' = [pc EXCEPT ![h] = "check"]
    /\ UNCHANGED <<open, gen, readers, txnReaders, exclusive, lease, file, clock,
                   published, op, guard, cursor, own, seen, cache, dirty, pre,
                   marked, todo, busy, wrote, inTxn, work>>

CommitExpires(h) ==
    /\ pc[h] = "wait" /\ MustWait /\ LateRefusal(h)
    /\ waitingOwn' = waitingOwn - own[h]
    /\ FlushFails(h)
    /\ UNCHANGED <<open, gen, readers, committing, txnReaders, exclusive, lease,
                   file, clock, published, op, guard, cursor, own, seen, pre,
                   marked, todo, busy, wrote, inTxn, work>>

\* In the commit section: a view that is no longer current must not be written.
CheckView(h) ==
    /\ pc[h] = "check"
    /\ IF gen = seen[h]
       THEN /\ pc' = [pc EXCEPT ![h] = "body"]
            /\ UNCHANGED <<committing, cache, dirty>>
       ELSE /\ committing' = FALSE
            /\ FlushFails(h)
    /\ UNCHANGED <<open, gen, readers, waitingOwn, txnReaders, exclusive, lease,
                   file, clock, published, op, guard, cursor, own, seen, pre,
                   marked, todo, busy, wrote, inTxn, work>>

\* flush_inner_delete_body: pages are rewritten in place, highest id first.
WritePage(h) ==
    /\ pc[h] \in {"body", "alone"}
    /\ \E p \in todo[h] :
          /\ \A q \in todo[h] : q <= p
          /\ file' = [file EXCEPT ![p] = cache[h][p]]
          /\ todo' = [todo EXCEPT ![h] = @ \ {p}]
    /\ UNCHANGED <<open, gen, readers, committing, waitingOwn, txnReaders, exclusive,
                   lease, clock, published, pc, op, guard, cursor, own, seen, cache,
                   dirty, pre, marked, busy, wrote, inTxn, work>>

\* bump: the commit is published; the marks are gone.  A sole handle has no
\* commit section to leave.
Bump(h) ==
    /\ pc[h] \in {"body", "alone"} /\ todo[h] = {}
    /\ gen < MaxGen
    /\ gen' = gen + 1
    /\ published' = Append(published,
                           [p \in Page |-> IF p \in dirty[h] THEN cache[h][p] ELSE Committed[p]])
    /\ dirty' = [dirty EXCEPT ![h] = {}]
    /\ seen' = [seen EXCEPT ![h] = gen']
    /\ pc' = [pc EXCEPT ![h] = IF @ = "body" THEN "release" ELSE Leaving(op[h])]
    /\ UNCHANGED <<open, readers, committing, waitingOwn, txnReaders, exclusive,
                   lease, file, clock, op, guard, cursor, own, cache, pre, marked,
                   todo, busy, wrote, inTxn, work>>

\* commit_exit.
CommitExit(h) ==
    /\ pc[h] = "release"
    /\ committing' = FALSE
    /\ pc' = [pc EXCEPT ![h] = Leaving(op[h])]
    /\ UNCHANGED <<open, gen, readers, waitingOwn, txnReaders, exclusive, lease,
                   file, clock, published, op, guard, cursor, own, seen, cache,
                   dirty, pre, marked, todo, busy, wrote, inTxn, work>>

-----------------------------------------------------------------------------
(* The end of a statement *)

ReadExit == IF readers > 0 THEN readers - 1 ELSE 0      \* saturating_sub

\* Drop of PeerReadGuard.
LeaveScope(h) ==
    /\ pc[h] = "leave"
    /\ readers' = IF guard[h] THEN ReadExit ELSE readers
    /\ own' = IF guard[h] THEN [own EXCEPT ![h] = @ - 1] ELSE own
    /\ guard' = [guard EXCEPT ![h] = FALSE]
    /\ pc' = [pc EXCEPT ![h] = IF op[h] \in {"select", "step"} THEN "idle" ELSE "exit"]
    /\ UNCHANGED <<open, gen, committing, waitingOwn, txnReaders, exclusive, lease,
                   file, clock, published, op, cursor, seen, cache, dirty, pre,
                   marked, todo, busy, wrote, inTxn, work>>

\* reset or drop of the stepped SELECT.
CloseCursor(h) ==
    /\ pc[h] = "idle" /\ cursor[h] # "none"
    /\ readers' = IF cursor[h] = "guarded" THEN ReadExit ELSE readers
    /\ own' = IF cursor[h] = "guarded" THEN [own EXCEPT ![h] = @ - 1] ELSE own
    /\ cursor' = [cursor EXCEPT ![h] = "none"]
    /\ UNCHANGED <<open, gen, committing, waitingOwn, txnReaders, exclusive, lease,
                   file, clock, published, pc, op, guard, seen, cache, dirty, pre,
                   marked, todo, busy, wrote, inTxn, work>>

\* wal_stmt_exit: outside a transaction the marks are forgotten, the locks of
\* the transaction are given back, and an idle handle hands back the lease.
Exit(h) ==
    /\ pc[h] = "exit"
    /\ LET holds == Peers /\ lease = h
           kept  == IF ~inTxn[h] /\ holds THEN {} ELSE dirty[h]
           still == (inTxn[h] /\ wrote[h]) \/ kept # {}
       IN /\ dirty' = [dirty EXCEPT ![h] = kept]
          /\ busy' = [busy EXCEPT ![h] = still]
          /\ lease' = IF ~still /\ holds THEN NoHandle ELSE lease
    /\ txnReaders' = IF ~inTxn[h] /\ Peers THEN txnReaders \ {h} ELSE txnReaders
    /\ exclusive' = IF ~inTxn[h] /\ exclusive = h THEN NoHandle ELSE exclusive
    /\ wrote' = [wrote EXCEPT ![h] = @ /\ inTxn[h]]
    /\ pc' = [pc EXCEPT ![h] = IF op[h] = "step" /\ guard[h] THEN "leave" ELSE "idle"]
    /\ UNCHANGED <<open, gen, readers, committing, waitingOwn, file, clock,
                   published, op, guard, cursor, own, seen, cache, pre, marked,
                   todo, inTxn, work>>

HandleStep(h) ==
    \/ Open(h) \/ Close(h)
    \/ \E o \in Statements : Start(h, o)
    \/ Publish(h) \/ TakeLease(h) \/ RefuseLease(h) \/ TakeExclusive(h)
    \/ EnterScope(h) \/ RefuseScope(h) \/ EnterView(h)
    \/ \E p \in Page : Load(h, p) \/ Store(h, p)
    \/ EndRead(h) \/ EndWrite(h) \/ Begin(h) \/ Commit(h) \/ Rollback(h)
    \/ FlushBegin(h) \/ FlushRefused(h) \/ CommitAsk(h) \/ CommitEnter(h)
    \/ CommitExpires(h) \/ CheckView(h) \/ WritePage(h) \/ Bump(h) \/ CommitExit(h)
    \/ LeaveScope(h) \/ CloseCursor(h) \/ Exit(h)

Next == \E h \in Handle : HandleStep(h)

Spec == Init /\ [][Next]_vars

-----------------------------------------------------------------------------
(* Properties *)

Stages == {"idle", "publish", "lease", "exclusive", "enter", "refresh", "run",
           "flush", "commit", "wait", "check", "body", "alone", "release",
           "leave", "exit"}

\* A handle has RESERVED: it holds changed pages, or is past wal_write_begin
\* in a statement that writes.
InRole(h) ==
    \/ dirty[h] # {}
    \/ pc[h] = "run" /\ IsWrite(op[h])
    \/ pc[h] \in {"exclusive", "enter", "refresh"} /\ IsWrite(op[h]) /\ op[h] # "step"
    \/ pc[h] \in {"flush", "commit", "wait", "check", "body", "alone"}

\* peer.rs: one handle at a time builds or writes a change of the file,
\* whether it got RESERVED by the lease or, being alone, by its busy flag.
OneReserved == \A h, k \in Handle : InRole(h) /\ InRole(k) => h = k

\* The page a handle started from: its change of it is not a view of the file.
Base(h, p) == IF p \in dirty[h] THEN pre[h][p] ELSE cache[h][p]
Shows(h, i) == \A p \in Page : cache[h][p] # Miss => Base(h, p) = published[i][p]

\* peer.rs, "a commit excludes peers' in-flight statements" and no stale view
\* is ever written: outside a transaction what a running statement or an open
\* cursor has read, and what a commit was built on, is the last committed
\* state, never an older one and never half of a commit.
WorksOnLatest ==
    \A h \in open :
        (~inTxn[h] /\ Reads(h)) \/ pc[h] \in {"body", "alone"} => Shows(h, Len(published))

\* peer.rs, "a commit whose handle is STALE at commit time ... fails ...
\* instead of overwriting": no commit replaces a page that was committed after
\* the handle had read it.
NoLostUpdate ==
    [][\A h \in Handle :
         Bump(h) => \A p \in dirty[h] : pre[h][p] = Committed[p]]_vars

\* commit_enter, commit_exit and the guards: while a handle rewrites pages no
\* other one is in a scope or in the section, and once every handle is idle
\* nothing of the accounting is left to block the next commit.
CommitAlone ==
    /\ \A h, k \in open :
         pc[h] \in {"check", "body", "alone", "release"} /\ k # h =>
             ~guard[k] /\ cursor[k] = "none" /\ pc[k] \notin {"check", "body", "alone", "release"}
    /\ (\A h \in open : pc[h] = "idle" /\ cursor[h] = "none") =>
           readers = 0 /\ waitingOwn = 0 /\ ~committing

=============================================================================
