# rustqlite: TLA+ models, checks and proofs

rustqlite is an embedded, SQLite-compatible SQL engine in Rust (`src/src`, about
200 000 lines). Most of it is sequential: text to plan, plan to rows, rows to
bytes. What is hard to get right and harder to test is the part this project
models: many threads on one `Database`, optimistic write transactions
(`BEGIN CONCURRENT`) that share one page cache, several handles on one file, a
pool of async connections on one engine, commits that must survive a crash at
any instruction, and changesets that must mean the same in another database.

Every definition follows the source; the modules keep the source's names, and
`PROJECT.json` ("map") gives the lines of each.

## 1. Inventory

| Component | State | Operations | Talks to |
|---|---|---|---|
| Install gate (`storage/concurrent.rs` 785–1075, 1467–1587) | one packed word (reader count, PENDING, ACTIVE), `waiting_readers`, `parked`, a parking mutex, a per-thread ledger | `read`, `read_recursive`, `read_slow`, `write`, guard drops, `wait_while`, `wake_parked` | every plain reader, every commit, scan workers (`executor/parallel.rs`) |
| Plain DML tripwire (`api.rs` 266–307, 10258–10307) | `plain_dml_tid`, a per-thread depth | `enter_plain_dml`, `release_reader_exclusion`, drop | install gate (write side), regime flags, `statement.rs` |
| Concurrent transactions (`storage/concurrent.rs`) | per transaction: shadows, read stamps, semantic reads, decision reads, row journal, allocations, frees, savepoints; shared: page stamps, row stamps, `commit_epoch`, registry | begin, fetch, journal, commit (validate, install or merge), rollback, savepoints, prune | B-tree above, pager and WAL below |
| B+tree (`storage/btree.rs`) | pages | lookup, insert, update, delete, splits, recycling | `get_page`/`note_row_write` of the pager |
| WAL and checkpoint (`storage/wal.rs`, `storage/pager.rs` 6142–6912) | log, frame map, checksum chain, `wal_frames_total`, `GroupSyncState`, main file | append, group fsync, fold, reset, recover | every commit; cross-process locks |
| Pager (`storage/pager.rs`, `preimage.rs`) | page cache, dirty set, LRU, freelist, undo, `pending_truncate`, `committed_n_pages` | fetch, evict, allocate, free, cut the tail, in-place commit, rollback | all of storage |
| Peer handles (`storage/peer.rs`, `wal.rs` 470–600, `pager.rs` 5077–5335, `api.rs` 6800–6910) | per path: generation, readers, commit section, open read transactions, EXCLUSIVE, writer lease; per handle: seen generation, RESERVED | read scope, refresh, lease, commit section, statement enter and exit | every statement of every handle of the process |
| Cross-process locks (`storage/xlock.rs`) | byte-range locks, generation | writer role, fold gate | checkpoint, open, close |
| Regime switches (`api.rs` 10374–10800) | `concurrent_active`, `in_transaction`, `txn_has_ddl` | begin, commit, finish of shared transactions | tripwire, gate, driver |
| sqlx driver (`sqlx_driver/mod.rs`, `gate.rs`) | `tx_owner`, `tx_dirty`, the set of concurrent transactions; the gate's entries and thread | run a statement, begin, commit, rollback, finalize; register, poll, wake | one engine behind a read-write lock, async tasks |
| Session (`session/`) | entries by key, change groups, rebase records | capture, generate, concatenate, invert, apply, rebase | executor (events before each row change), `api.rs` (SAVEPOINT around an apply) |
| Statement journal, triggers, ATTACH, catalog, SQL front end, planner, executor, functions, plugins, C ABI, tools | see `PROJECT.json` | | |

Hard behaviours: atomics without a lock (gate, tripwire, begin), reads whose
validity is decided much later (commit validation), structure changes of one
tree by several transactions (split, unlink, merge), failures in the middle of a
statement or of an append, a leader that works for others (group fsync), crashes
between any two writes, a record kept beside the engine and updated after the
lock is gone (driver), changes applied in hash order (session). `PROJECT.json` ("hazards") lists them at their lines with
the properties that watch them.

What makes each part correct: the gate excludes, wakes everybody it should and
leaks nothing; plain DML never runs twice at once; a concurrent transaction sees
one committed state, commits only what is still justified and changes exactly
what it wrote; the tree stays a tree; an acknowledged commit is durable and a
crash leaves whole commits; every COMMIT returns; handles of one file write one
at a time and on what was committed last; the file is always as long as its
header says, no page is lost or used twice, and a rollback gives back what was
there; connections of a pool do not see or end each other's transactions and
nobody waits at the gate for ever; a changeset is the difference of two tables,
composes, inverts, applies in any order, and two sites that rebase converge (with
the restrictions Converges names).

## 2. Modules

| Module | Models | Notes |
|---|---|---|
| `InstallGate` | the gate, one step per atomic access | `InstallGateProofs`: proofs |
| `PlainDml` | the tripwire, one step per atomic access | uses the gate as a lock with one owner; `PlainDmlProofs` |
| `SnapshotStore` | abstract: what BEGIN CONCURRENT promises | no pages, stamps or journals |
| `Concurrent` | shadows, stamps, journal, commit, merge, savepoints, on one B+tree | implements `SnapshotStore` (`StoreSpec`); `ConcurrentProofs` |
| `WalCommit` | append, group fsync, checkpoint, recovery | `WalDurableProofs` (who leads, what survives) |
| `PeerHandles` | the handles of one process on one DELETE-mode file | `PeerCommitProofs` (who writes, who is alone, what is seen) |
| `PagerCommit` | allocation, freelist, tail cut, in-place commit, rollback, kill and reopening under one connection | `PagerProofs` |
| `SqlxPool` | driver connections, the async gate and the regime switches on one engine | uses an engine that has one plain transaction or a set of concurrent ones; `SqlxPoolProofs` |
| `Session` | capture, changesets, apply, invert, rebase between two databases | `SessionProofs` |
| `MC*` | workloads and symmetry for TLC | |

Operators commented "Mutant:", or named `X_...`, are plausible bugs: with one of
them in place of the definition `PROJECT.json` ("mutants") names, the property
named there fails.

Four modules keep a history variable of the known ways in which the code leaves
what it promises (`risk` and `scars` in `PagerCommit`, `stained` in `SqlxPool`,
`mislaid` in `Session`, `Events` in `PeerHandles` as a parameter). The properties
are stated for the behaviours before such a step, the steps themselves are in the
models, and each is listed below under "Observed".

### InstallGate
`count`, `pending`, `active` are the three fields of the packed `state` word.
`PlainReaderGate`/`PlainReaderGateChild` are the optimistic increment and its
check, `BackOut`, `Enqueue`, `Retry`, `ReBackOut` the slow path, `Grace`, `Claim`,
`Drain` the writer, `SpinPass` … `Relock` the spin-then-park wait, `WakeParked` and
`NotifyAll` the wake-up. `ledger` is `GATES_HELD`. A compare-exchange that fails
only because the reader count moved loops and is not a step. Timers (spin budget,
grace, 1 ms wait) may expire at any moment; no property relies on the timed wait.
A thread never asks for the write side under its own read guard: the source
forbids it and would wait for itself (a hazard with a note).

### PlainDml
`Swap` is the claim, `Refuse` the store that puts the foreign holder back,
`WriterGate` the outermost level's gate, `EnterNested` a trigger or hook,
`ReleaseReaderExclusion` the early release before the flush, `Drop` and `DropGate`
the two halves of the guard's drop, in the order Rust runs them. A statement that
joins the concurrent regime is one that drops at once; the regime's flags are not
here.

### Concurrent and SnapshotStore
The tree is one interior page over leaves; the content of a page is a function of
the row (the child it is routed to, or its cell), 0 for absent, `Zeroed` for a
page the freelist has wiped. `txn[t]` is the `ConcurrentTxn`. `Fetch` is
`writer_shadow_fetch`: shadow hit, or `Materialize` with the late-touch rule, then
`NoteSemanticRead`. `InsertTable`, `UpdateTable`, `DeleteTable` are the B-tree entry
functions with journal, decision reads, splits and empty-leaf recycling.
`CommitRefused`, `CommitFast`, `CommitMerge` are the outcomes of
`commit_concurrent_body`; `PruneStampsIfIdle` is its last step under
`commit_lock`. `begin_concurrent` is three steps because it takes no lock.
`RestoredTo` is ROLLBACK TO. A statement is one step, except where the outcome
depends on a commit between two of its fetches (`FetchRoot`).

`client` is what the statement layer has been told. It is the refinement mapping's
second half: `SnapshotStore` is instantiated with `table <- TableOf(page)` and the
same `client`, and `StoreSpec` says every step of the pages, stamps and journals
is a step of the abstract store or a stutter.

Left out: page 0 and the catalog, root moves, index trees and key reads, deeper
trees, readers outside transactions (the gate keeps them out of an install).

### WalCommit
Commits are numbered in the order of `commit_lock`, a page's content is the number
of the commit that wrote it. `main`/`log` are what the operating system has been
told, `stable`/`synced` what a power failure cannot take away. A crash is not an
action: `KillOutcome` and `PowerOutcomes` are, in every state, what recovery would
find, the latter for every subset of unsynced page writes and every prefix of the
unsynced log. `Init` picks a `setup`, which never changes: `Deferred` selects BEGIN
CONCURRENT commits (group fsync) or plain ones, `Full` synchronous=FULL or NORMAL,
`Faults` are a failing fsync, a failing append and a fold that defers to another
handle; the runs give the first two to group commits only. Left out: the header page, spill frames, truncation, a page
that is evicted and fetched again between the fold's snapshot of the cache and
its WAL lock.

### PeerHandles
A page is a version number, `cache[h]` what a handle has cached, `published` the
states the commits left. A statement is a chain of steps, one per access to what
the handles share: `Publish` (RESERVED, before anything is looked at),
`TakeLease`/`RefuseLease` (`wal_write_begin`), `TakeExclusive`, `EnterScope`/
`RefuseScope`, `EnterView` and `Refresh` (`xread_scope_sql`), `Load` and `Store` on
pages, the flush in its parts (`FlushBegin` … `CommitExit`), `LeaveScope`, `Exit`
(`wal_stmt_exit`). `Start` picks one of the statements of the application; a
stepped statement takes the role after its scope and a cursor stays open between
statements. A busy timeout is a refusal that may happen whenever the wait does.
`Events` opens what the run leaves out: opening or closing a handle in the middle of
another's statement, and a COMMIT refused inside its flush. Left out: WAL mode,
foreign processes, the pager's own rollback details (`PagerCommit`).

### PagerCommit
The tree is one node and its leaves; `pager` is the handle (page count, freelist
head and count, cached pages, dirty set, log frames, armed cut, base and pre-images
of the transaction). `Insert`, `Update`, `Delete`, `MassDelete` are statements,
with `AllocatePage`, `FreePage`, `TruncateTail` as the operators the tree calls. In
DELETE mode a flush is `WriteNew`, `WriteHeader`, `WriteOld`, one page per step, then
`Finish`; `StatementFails` and `CommitFails` are a failed write at any of these,
`Kill` the death of the process, `Reopen` the next open with its recount of the
freelist. In WAL mode a commit is one step (`WalCommit` has its crashes) and
`Checkpoint` is the fold, with the armed cut. `PagesAccounted` and `RollbackRestores`
are stated up to a torn flush, a chain of trunks left unlinked, and pages lost under a
cut that stayed armed while the file grew back ("regrown"): after the last, a kill
between two flushes reopens a cache that is not what was committed. The types do not
bound a free count by the page count, since after a torn flush an old trunk may list
pages behind the count of the header. Left out: eviction and spill, named
savepoints, page contents, the catalog.

### SqlxPool
A connection's task is at a place (`pc`) inside or outside its thread; a task that
is parked on a condition variable keeps its thread, one that awaits the gate does
not. `Poll`, `Register`, `Cancel`, `GateScan`, `GateTimer` are the gate, `Read`,
`PreWait`, `Wait`, `Busy` the waits under the engine's lock, `Dml`, `Ddl`, `RawBegin`,
`RawCommit` statements, `Begin`, `End`, `Release` the sqlx transaction, `ResetOwner`,
`ResetDirty`, `Notify` the three stores of `tx_reset`, `OpenConcurrent` …
`ClearTransaction` the regime switches store by store. `wrote` is whose rows are
uncommitted in the engine, `mine` whose they are according to what the clients were
told. Left out: savepoints, raw BEGIN CONCURRENT scripts, conflicts between
concurrent transactions (`Concurrent`), I/O errors.

### Session
A table is a function from keys to rows, a changeset a function from keys to
changes, its order any. `RecordOne` keeps the first change of a key, `Generate`
resolves it against the table, `ChangeMerge` is the change group's table of
combinations, `Invert` the inverse. An apply is one step per change and verdict
(`ApplyChange`, `Buffer`, `OmitVerdict`, `ReplaceVerdict`, `AbortVerdict`,
`EngineError`, `RetryRound`), so that the order of the changes and the answers of
the handler are TLC's choice. `Return` rebases the local changeset and applies it to
the remote node. Reference definitions: `Diff` (the difference of two tables) for
capture, concatenation and inversion. Left out: patchsets, the indirect flag,
filters, foreign keys, `sqlite_stat1`, rowid tables, added columns, bytes.

## 3. Runs

Bounds: two transactions with up to four statements and one or two commits beyond
the first are enough for every conflict class in `commit_concurrent_body`, which
compares one transaction with the past; two threads and a scan worker on the gate
give a reader, a writer, a second writer and a reader under another's guard; three
committers give a leader, a follower and one that arrives between fsync and
report. Two handles are a writer and whoever it must exclude or must not overwrite,
and two commits let one of them be stale; their properties are about pairs of
handles. Six pages with trunks of one entry reach a freelist of several trunks, a
cut that drops one of them and a file that grows back; four writing statements are
fill, cut, refill and one more. Three connections on two threads give an owner, a
neighbour on its thread and a third party that runs in parallel; two pools mix
plain, scripted and optimistic clients. Two keys and two columns with two
statements on one node and one on the other reach every row of the merge tables
and both orders of a changeset with a UNIQUE column. Every bound is a `Max...`
constant. Deadlock is switched off where the bounds let the system stop (`Conc*`,
`Wal*`, `Pager*`, `Session`) and checked for the gate, the tripwire, the handles and
the pool. `pager_commit` and `sqlx_pool` do not follow a state after a step that
takes the promise away (`Promising`).

| Run | Shows |
|---|---|
| `install_gate` | TypeOK, Exclusion, NoLostWakeup, NothingLeaks; a claimed writer gets in (WriterGetsIn) although readers re-enter and spawn workers |
| `plain_dml_wal` | three threads, WAL: OneSurgeon |
| `conc_statements` | reads, scans, updates and nested savepoints refine `SnapshotStore` (StoreSpec); TypeOK, ShadowsHoldOwnWrites |
| `conc_grow` | splits by both sides: TreeSound, CommitExact |
| `conc_shrink` | unlinked leaves: TreeSound, FreeStaysWiped |
| `wal_safety` | group and plain commits, FULL and NORMAL, failing fsyncs of group commits: TypeOK, AckedSurvive, PowerConsistent (plain FULL), SleepersHaveLeader |
| `wal_live` | EveryoneReturns with failing appends and deferred folds |
| `peer_handles` | two handles, all statements: OneReserved, WorksOnLatest, CommitAlone |
| `pager_commit` | both journal modes, kills and write errors: TypeOK, FileCoversHeader, TreeReadable, PagesAccounted, CommittedIsStored, RollbackRestores |
| `sqlx_pool` | three connections, two threads: TypeOK, NoDirtyRead, TransactionsKeepTheirRows, RegimesExclude, OwnerKeepsItsThread; GateAnswers |
| `session` | two databases: TypeOK, CapturedDiff, ConcatComposes, FreshCopy, UndoRestores; Converges (no UNIQUE column, `Fits`, outside `Overruled` and `Crossed`, see below); ApplyEnds |
| `pager_regrown` | ends in a violation of StoredEver, see below |

The workloads of the passing `conc_*` runs are chosen so that each reaches one
region of the code exhaustively; the deviations below lie outside these regions.

### Finding (the run that ends in a violation)

| Run | Property | The code | What the source says |
|---|---|---|---|
| `pager_regrown` | StoredEver | a tail cut stays armed when the file grows again; the fold drops the committed frames beyond it (`pager.rs` 6338), or the flush cuts the file below the count it has just written (4940) | `pager.rs` 6334: such frames "are about to be discarded by this checkpoint's own set_len" (which uses the new count); 4761: "so the on-disk length moves with the commit that records the new page count" |

The trace, in WAL mode and autocommit: INSERT, a mass DELETE that cuts the tail,
INSERT, checkpoint; the page of the last INSERT is in neither file nor log.

### Observed while modelling

These deviations follow from the same models and have no run of their own. The
property, workload or setup to give TLC is in parentheses.

Plain DML and concurrent transactions:

* `api.rs` 10281: two overlapping refusals restore each other's names and two
  statements are admitted (`PlainDml` with `WalEngine = FALSE`,
  TripwireExcludes). 10267: "the error names the fix instead of corrupting".
* `concurrent.rs` 3306: a page the transaction freed has no shadow and is not
  validated; a sibling's committed insert into it is lost (`LostInsertWork`,
  CommitExact). 3303: "the validation set must still cover pages the txn once read".
* `concurrent.rs` 3100: a stale root shadow routes to the lower half of a leaf a
  sibling has split, a present row is reported absent (`MovedRowWork`, Opacity).
  266: "no mixed snapshot is ever returned to the statement layer".
* `concurrent.rs` 304, `existed_at`: a page a sibling allocated and committed after
  BEGIN counts as created after the savepoint and is not captured, so ROLLBACK TO
  leaves the undone bytes in its shadow (ShadowsHoldOwnWrites, with inserts and
  updates of a row that moved to a new leaf). 2622: "restore the transaction's
  PRIVATE state".
* `concurrent.rs` 2745: ROLLBACK TO drops a net-zero shadow but keeps the decision
  read; the next fetch overwrites the page's read stamp and the commit no longer
  sees that a sibling freed the page (FreeStaysWiped, with savepoints in the
  shrinking workload). 202: "Commit re-validates these pages' stamps".
* `concurrent.rs` 3422: a failed statement clears the whole journal while earlier
  shadows stay dirty: their rows go unstamped on the fast path and a merge replays
  only what follows (StoreSpec and CommitExact, when a transaction goes on after
  such a failure). 1670: such a sibling "cannot commit".
* `api.rs` 10284: a refused thread's restore can land after the holder's drop, and
  the slot then names a thread that runs nothing. 274: "released on drop".
* `statement.rs` 1087: a statement that will join the regime claims the slot first
  and can be refused. `api.rs` 10274: joiners "never enter".

WAL:

* `pager.rs` 6416: the fold copies cached pages a concurrent commit has installed
  and not logged (`GroupSetups`, KillConsistent). `wal.rs` 25: "we copy the latest
  version of each page from the WAL".
* `pager.rs` 6908: a deferred fold is credited as done and a follower acknowledged
  without an fsync (`DeferSetups`, AckedSurvive). 6894: "when a checkpoint ran".
* `pager.rs` 6488: under NORMAL the fold writes the main file from frames nobody
  synced; a power failure in the middle leaves part of a commit. `wal.rs` 748: "the
  WAL's atomic-commit guarantee".
* `wal.rs` 1225: a failed append has already moved the checksum chain and the frame
  count; later commits, fsynced and acknowledged, lie behind a gap recovery stops
  at (AckedSurvive with the fault "append"). `pager.rs` 550: "known durable".
* `pager.rs` 6887: `err` is cleared by the next leader before any waiter can read
  it, so with a disk that keeps failing COMMIT retries for ever (EveryoneReturns
  with the fault "fsync"). 555: "observed by waiters of the failed batch".

Peer handles (`PeerHandles` with the event named):

* `pager.rs` 7686: a handle that is alone when it flushes compares no generation. A
  deferred transaction, a peer that commits and closes, a write on the old view, a
  ROLLBACK that re-dirties it and the next autocommit statement overwrite the
  peer's commit (NoLostUpdate with `Events = {"close_anytime"}`). `peer.rs` 18: a
  stale commit "fails with a retriable `SnapshotConflict` instead of overwriting".
* The test for peers (`pager.rs` 5080, 7685) is a count read before the act: a handle
  opened in between is neither excluded nor seen (CommitAlone with "open_anytime").
* `pager.rs` 7693: may-proceed and `commit_enter` are two steps, and `api.rs` 8689
  refreshes the view inside a transaction that has not written: the snapshot of an
  explicit transaction does not stand.
* `api.rs` 14713: COMMIT ends the transaction before its flush, so one that is refused
  there leaves none ("late_refusal"); `tests/peer_handles.rs`: "A COMMIT refused
  because a peer reads keeps its transaction open."
* A cursor stepped past the COMMIT of a deferred transaction goes on with the pages
  it has; a peer may have committed in between (WorksOnLatest with a workload that
  has both "begin" and "cursor").
* `pager.rs` 5284: an entry in `txn_readers` stays when the peers have gone; after a
  sole handle's ROLLBACK `writer_busy` stays set (its pages are still marked).

Pager (`scars` of `PagerCommit`):

* 1755 and 7583: in WAL mode a rollback trims the main file to the committed count
  while its unfolded header holds a larger one; the next open fails its size check
  (3022) ("trimmed"). 7588: "so the trim is harmless".
* 6325: a checkpoint inside a transaction folds uncommitted pages from the cache
  ("early_fold"); the test above it looks at spilled frames only.
* 4830: the last kept trunk still names a dropped one ("unlinked"). 4819: "the chain
  is re-linked".
* 7862, "A crash anywhere leaves a consistent tree": not when the commit frees,
  reuses or cuts pages (TreeReadable without its condition).
* 7779: a COMMIT whose write fails has forgotten its dirty pages ("failed_commit").
* 4895: a cut drops the log's entries of committed pages before it is committed.

sqlx driver (`stained` of `SqlxPool`, without the constraint):

* `mod.rs` 1218: a BEGIN inside a transaction clears `tx_dirty` although rows are
  uncommitted ("second_begin", NoDirtyRead). 214: "so they can never observe
  uncommitted rows".
* `mod.rs` 1223: a COMMIT script the engine fails still ends the record
  ("failed_commit").
* `mod.rs` 332: the stores of `tx_reset` come after the lock and wipe the marks of a
  transaction that began in between ("late_reset").
* `mod.rs` 1103: autocommit DML that waited for a concurrent regime runs after it and
  lands in a plain transaction ("joined").
* `api.rs` 10798: the last of an old regime clears the flags a new begin has just
  stored ("switched_off", RegimesExclude). `concurrent.rs` 1436 describes this effect
  as a past bug.
* `foreign_tx_blocked` ignores concurrent transactions, so a plain transactional
  writer parks its thread behind one; `prepare_with` never asks the gate; a BEGIN
  that the engine refuses leaves `tx_owner` set (hence the second conjunct of
  OwnerKeepsItsThread).

Session:

* `iter.rs` 196: a patchset UPDATE indexes an empty record; 38: "(corrupt
  changesets error, never panic)". Patchsets are left out for this reason.
* `apply.rs` 434 and 650: the columns an UPDATE does not change are bound as NULL,
  its row is found only where they are NULL (`Fits`).
* `iter.rs` 208: the inverting iterator does not move the key of an UPDATE.
* `state.rs` 392: an UPDATE that moves a row onto a taken key records the second
  entry without its old row (`mislaid`).
* `rebase.rs` 52 and `group.rs` 105: the first record of a key keeps no replaced
  marks, so a replaced local UPDATE wins after the rebase (`Overruled`).
* `rebase.rs` 269: where both nodes updated a key and the remote changed a column the
  local UPDATE leaves out, `append_partial_update` leaves that column out of the old
  values; `apply.rs` binds it as NULL, so the rebased UPDATE does not find the remote
  row, and a handler that omits it leaves the nodes apart (`Crossed`: drop it from
  Converges).
* With a UNIQUE column the nodes may stay apart at any key: an INSERT that the handler
  omits because of a UNIQUE value is in one table only, and no change tells the other
  node (drop `unique = {}` from Converges).
* No field marked as replaced reaches `append_partial_update` in one exchange of
  captured changes: only REPLACE on a key that has a record already marks fields, this
  takes a buffered INSERT, and an INSERT meets no local UPDATE unless a move
  was mislaid. Several rebase buffers in one rebaser, which could bring marks to it,
  are not modelled.
* `apply.rs` 386: a constraint an UPDATE violates ends the apply as an engine error;
  REPLACE is accepted where SQLite refuses it and the handler is asked twice; 186: a
  corrupt changeset returns with the savepoint open and foreign_keys off; 801: the
  rebase buffer gets one table header only.

### Fairness
`InstallGate`: a thread inside the gate keeps running (strong fairness where it
needs the parking mutex, which parking_lot hands out fairly in the end), workers
finish, write sections end, a statement drops its guards; nobody is obliged to
start anything and `Timeout` is never required. `WalCommit`: weak fairness on a
thread's own steps, no obligation to begin a commit, none on which outcome a
disk operation has. `SqlxPool`: a task inside the driver keeps running when it has
its thread, the gate thread scans and its timed sleep ends; clients owe nothing, so
GateAnswers does not rest on a transaction being ended. `Session`: an apply that has
begun goes on; the handler's answers are free.

## 4. Proofs

Proved by TLAPS for all values of the constants, from the modules' named
assumptions and, where a theorem states them, the hypotheses discussed here:

* `InstallGateProofs`. The invariant `IInv` has four parts: the shape of the
  variables; `CountsExact`, the reader count is the number of guards held plus
  optimistic increments in flight, `waiting` and `parked` the numbers of threads
  at the places that own them; `SlotInv`, PENDING and ACTIVE mean exactly one
  claimed or writing thread and no reader with a writer; `DepthInv`, what a
  thread may hold where it stands. `Exclusion` alone is not inductive: that the
  writer saw zero means nothing unless the count is exact, and the count is
  exact only if every transient increment is accounted for. From it:
  `GateInvariant`, `GateTypes`, `GateExclusion`, `GateNothingLeaks` and
  `GateNoLostWakeup`.
* `PlainDmlProofs`. `WalOneSurgeon`: on a WAL engine surgery implies owning the
  gate, so the tripwire's defect does not reach the trees there.
* `WalDurableProofs`. `GroupSyncLeader`: one leader at most, `syncing` tells the
  truth, sleepers have a leader; the invariant is the property with the labels'
  type and the setup, and one lemma (`KeepsIInv`) covers all steps that do not change who
  leads. `AckedCommitsSurvive`, `PowerFailuresLeavePrefixes`,
  `PlainKillsLeavePrefixes`, `TypesHold`, for any number of committers, commits and
  pages and any threshold. None of them is inductive: what recovery finds depends on
  every page of cache, file and log at once. `DInv` has six parts: the types, `Locks`
  (who holds which lock and where its commit is), `LogOrder` (the log has the commits
  after the folded ones, each once and in order), `Contents` (the cache has every
  commit, the main file every folded one, the fold leaves no page behind), `Tickets`
  (what `durable` or a leader's credit covers is fsynced or folded) and `Exact`
  (without group commits, cache and files hold no page of a later commit). A commit
  is followed as a number `k`; `Holds(v, p, k)` says that no commit up to `k` has
  overtaken the content `v` of page `p`, so that recovery, which takes the last frame of a page or
  else the main file, returns the right one whatever subset of the unsynced writes
  arrived. `AckedCommitsSurvive` has the hypothesis `Harmless`: for group commits
  nothing but an fsync fails. A failed append and a deferred fold do break the
  promise (see "Observed"), so the hypothesis cannot be dropped; plain commits need
  none.
* `PeerCommitProofs`. `OneWriterAtATime`: `OneReserved` for any number of handles and
  with every event. It is not inductive: that the lease is free proves nothing about
  a handle that was alone when it began. The invariant adds `RoleShown` (whoever is in
  the role shows it by `busy`, is open, and owns the lease unless nobody does) and the
  types it needs; `SoleIsAlone` (a handle that sees no peer is the only one, by
  cardinality) and `RoleIsFree` carry the two ways into the role, `KeepsIInv` all
  the other steps. The rest stands on that invariant. `CommitsAreAlone`: `SInv` adds the
  accounting (the reader count is the number of guards plus guarded cursors, by
  cardinality), what a handle without peers may rely on (`Sole`) and `SectionAlone`.
  It needs `"open_anytime" \notin Events`: a handle that opens in the middle of a
  sole handle's flush is not excluded (see "Observed"). `NoUpdateIsLost`: `VInv` adds
  what the file shows (the last published state, but for the pages the handle in its
  commit has already written) and what each handle's cache may rest on (`View`). It
  is for `Events = {}`. `StatementsSeeTheLatest` adds `CursorView`, and the assumption
  `CursorsApart` that the application opens no transaction beside a cursor: a cursor
  opened in an old deferred transaction outlives its COMMIT and is not compared with
  the generation again, and TLC finds the counterexample without the assumption. The
  run has both kinds of clients, in separate workloads.
* `SqlxPoolProofs`. All five invariants of the run, for any connections, threads,
  pools and clients. `IInv` adds to the types: `OneInside` (a thread is in the driver
  for one of its tasks), `RegimeListed` and `FlagsTell` (what the driver's list and
  the engine's flags say at each store of a begin or finish), `GatePassed` (while an
  owner has its transaction open, a statement of its thread is past the gate only if
  it needs not wait for it) and `RecordTrue` (the driver's record is the engine's).
  `RegimesExclude` is not inductive because the flags are stored one by one, and
  `NoDirtyRead` not because it is decided by a record written after the lock.
* `SessionProofs`. All six invariants of the run, for any keys, columns, values,
  statements, order of changes and verdicts, and, but for Converges, for any UNIQUE
  columns. The algebra is proved row by
  row: `DiffRow` is the change between two rows, `ResolveIs`, `MergeIs`, `InvertIs`
  say that resolving, merging and inverting compute it; `DiffIs`, `ConcatIs` and
  `InvertDiff` lift this to changesets. `WorkInv` (a key without an entry has its
  first row, in an open transaction's saved table too; an entry tells the row it
  started from; the group is the difference up to here) gives
  `SessionsCaptureTheDifference` and `ConcatenationComposes`. `CleanInv` follows an
  apply to the table its changeset starts from: what is pending has not been done,
  the rest has (`Moving`), and a retry round puts nothing off (`InStep`), because
  what then remains are INSERTs into a part of the final table; it gives
  `FreshCopiesCatchUp` and `UndoGivesBack`. `ConvInv` says of every key the apply has
  dealt with that the rebased local change leads the remote row to the local one
  (`Leads`), by cases over the verdicts (`OmittedRow`, `ReplacedRow`, `DeletedRow`);
  it gives `RebasedChangesConverge`, under the restrictions the property states: no
  UNIQUE column, UPDATEs whose omitted columns are NULL, and the keys of `Overruled`
  and `Crossed` left out. `PartialLeads` is the case of two UPDATEs, which may change
  different columns: an undefined field of the remote record keeps the local old value,
  a defined one replaces it, and bound together they are the remote row unless the
  key is crossed.
* `PagerProofs`. All six properties of the run, for any
  number of pages, place of the node, size of the trunks, first pages and statements, in
  both journal modes and with every fault. The operators are recursive functions
  over numbers. No induction principle over a predicate is used: `NatSet` and `UpTo`
  are induction over sets of numbers (from the least-element theorem of the library),
  and `Recursion` gives the solution of a recursive function, from which the values of
  `Chain`, `Below`, `FreeAll`, `DropLeaves` and the library's `FlattenSeq` follow. On
  these stand what an allocation, a free and a cut do to a freelist (`Listed`, `Freed`,
  `Shortened`) and what every statement does (`Runs`): which pages it touches
  (`Moved`), what a statement without frees leaves alone (`Grown`), and that the
  accounts hold again (`Accounted`). `Acc` says that the freelist is linked, lists no
  page twice, is counted and lies apart from the tree, `Cover` that the two are the
  whole file.
  `Inv` has ten parts, none of the properties being inductive without the others: the types; `Marks` (what
  the history may hold); `Phases` (what each stage of a flush excludes); `Sizes` (the
  page counts, and that a cut lies above the base of a transaction); `Spans` (pages
  the durable header does not count are in the file or still to be written, which
  makes the header write safe); `Fresh` (a page not waiting to be written is stored as
  cached, or blank: a free page's body is never written); `Cached` and `OnDisk` (the
  accounts of the cache, of what a rollback would restore, and of the file, because a
  kill makes the file the next cache); `Based` (the base of a transaction is the
  database of the file and the last committed one); `Growing` (while a unit of work
  only grew, the file's freelist and tree are part of the cache's, which is why a kill
  between its writes leaves a readable tree). It was an invariant of a TLC run (490 684
  distinct states) before it was proved. `Invariant`, `TypesHold`,
  `HeaderIsCovered`, `TreeStaysReadable`, `EveryPageAccounted`, `CommitsAreStored` and
  `RollbackGivesBack` (an action property) follow.

* `ConcurrentProofs`. That `Concurrent` implements `SnapshotStore`
  (`ImplementsSnapshotStore`), `CommitsAreExact`, `ShadowsHoldTheWrites`,
  `NoMixedSnapshots` (opacity) and `TypesHold`, for any number of connections, rows,
  values, statements, commits and nested savepoints, under the hypothesis `InPlace`:
  the workload has no DELETE and a leaf has room for every row, so that no leaf is
  unlinked or split. INSERT, UPDATE, SELECT, scans, savepoints, fast commits, merges
  and refusals are all in. The hypothesis cannot be dropped: `LostInsertWork` (a
  delete) and `MovedRowWork` (a split) are counterexamples. It is met by the run
  `conc_statements`.
  `Inv` says of every open transaction that there is one committed table `tab`, no
  older than BEGIN, that agrees with all its client was told. None of the properties
  is inductive, because a read is justified by stamps that are looked at much later,
  at the next late fetch or at COMMIT. The parts of `Works`: `Kinds` (what was
  fetched, and that its stamp is as it was or from after BEGIN); `Images` (a shadow,
  and what a savepoint has captured of a page, is the own writes on top of rows that
  are the committed ones as long as the stamps vouch for them (`Firm`), that are
  `tab`'s as long as the view has not advanced, and that were committed at some time);
  `Saves` (a savepoint has captured every page written since, and remembers the
  journal); `Journal` (its last words on each row are the own writes, and a row it
  replaces first was seen); `NetZero` (a written row whose page ROLLBACK TO has dropped
  is committed as written); `Tracked` (what was told is covered by a row read or a page
  read that validation will compare); `Since` (what no commit has stamped since BEGIN
  is as in `tab`). A late fetch moves `tab` to the present, which is sound because
  nothing read is stale (`ServedLate`) and is why it is refused under a savepoint.
  `MoveWorks` carries a transaction over another's commit, `FastInstalls` and
  `InstallMoves` are the fast commit. The merge is a recursion over the journal:
  `ReplayIs` gives its chain of transactions, `ReplayOutcome` follows it by induction
  over a set of numbers, to an error or to the journal's writes on the committed
  leaves. Then one lemma per action (`...Follows`): the step keeps `Inv` and is the
  abstract step of the same name, or none. `Inv` was an invariant of TLC runs (up to
  331 053 distinct states) before it was proved.

Only model-checked:

* liveness (`WriterGetsIn`, `EveryoneReturns`, `GateAnswers`, `ApplyEnds`), which TLAPS
  cannot prove under fairness;
* of `Concurrent`, what happens when leaves split or are unlinked (`conc_grow`,
  `conc_shrink`): TreeSound and FreeStaysWiped, which are about nothing else, and
  CommitExact there. Some of it fails in other workloads (see "Observed"), so a
  proof would have to say which mixtures of splits, deletes and savepoints are safe;
  the runs' workloads are such mixtures, and no condition weaker than them is known.

## 5. Plan

Done, in this order: gate, tripwire, concurrent transactions, WAL commit, peer
handles, pager commit, sqlx pool with the regime switches, session.

1. Proofs: `Concurrent` with splits alone (append splits move no row), then with
   deletes that leave no leaf empty.
2. Composition of `Concurrent`'s commit with `WalCommit`'s append: a COMMIT that
   returns an error after its install; of the regime switches with the tripwire.
3. Cross-process locks (`xlock.rs`) and peers in WAL mode, with processes dying while
   they hold locks.
4. Root moves and catalog; index trees; ROLLBACK TO in two phases; the statement
   journal.

## 6. Not modelled

`xlock.rs`, spill and eviction, the statement journal and the catalog are in reach
and not done (see the plan). SQL front end, planner, executor, scalar functions, formats, plugins, C ABI,
command-line programs: sequential code on data, out of a model checker's reach
and better compared with SQLite. `PROJECT.json` ("components") has the reason for
each part.
