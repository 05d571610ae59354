----------------------------- MODULE Concurrent -----------------------------
(***************************************************************************)
(* Optimistic multi-writer transactions: BEGIN CONCURRENT                  *)
(* (storage/concurrent.rs) on one table B+tree (storage/btree.rs).         *)
(*                                                                         *)
(* A transaction copies every page it fetches into a private shadow and    *)
(* reads and writes the shadows only.  Each commit bumps commit_epoch and  *)
(* stamps the pages and the rows it wrote with it.  COMMIT validates what  *)
(* the transaction read and wrote against the stamps, then installs its    *)
(* shadows, or MERGES (replays its row journal on the committed tree), or  *)
(* is refused.                                                             *)
(*                                                                         *)
(* The tree is one interior page, Root, over leaves that split when full   *)
(* and are unlinked when empty.  A page's bytes are a function of the row: *)
(* the child that Root routes the row to, or the leaf's cell of the row.   *)
(* A step is a statement, or the part of one between two points at which   *)
(* another thread's commit can change the outcome; the install gate makes  *)
(* a commit one step for every fetch (module InstallGate).                 *)
(*                                                                         *)
(* Not here: the catalog page 0, moves of the root, index trees, the WAL.  *)
(***************************************************************************)
EXTENDS Naturals, Sequences, FiniteSets, TLC, Functions, SequencesExt

CONSTANTS
    Txn,        \* connections
    Row,        \* row ids
    Val,        \* row payloads the statements write
    Seed,       \* the payload of the rows present at first
    Boundary,   \* at first rows <= Boundary are in leaf 2, the others in 3
    Loaded,     \* the rows present at first
    LeafCap,    \* cells that fit in a leaf
    Work,       \* the statements the clients run: <<kind, row>>
    MaxPages,   \* bound: page ids
    MaxEpoch,   \* bound: commit_epoch
    MaxOps,     \* bound: statements of one transaction
    MaxSaves    \* bound: savepoints open in one transaction

ASSUME ConcurrentAssumption ==
    /\ Row \subseteq Nat \ {0} /\ Val \cup {Seed} \subseteq Nat \ {0}
    /\ IsFiniteSet(Row) /\ IsFiniteSet(Val) /\ Val # {} /\ Loaded \subseteq Row
    /\ Boundary \in Row /\ \E r \in Row : r > Boundary
    /\ LeafCap \in Nat \ {0, 1}
    /\ {MaxPages, MaxEpoch, MaxOps, MaxSaves} \subseteq Nat /\ MaxPages > 3

VARIABLES
    page,               \* the committed bytes (the live page cache)
    stamps,             \* page -> epoch of the install that last wrote it
    row_stamps,         \* row -> epoch of the commit that last wrote it
    commit_epoch,
    n_pages,            \* the next page id
    committed_n_pages,
    freelist,           \* page -> how often it is on the live freelist
    pc,                 \* where each connection is
    txn,                \* the open transactions' ConcurrentTxn
    client              \* what the statement layer was told (SnapshotStore)

tree == <<page, stamps, row_stamps, commit_epoch, n_pages, committed_n_pages, freelist>>
vars == <<tree, pc, txn, client>>

Page == 1 .. MaxPages
Root == 1
Absent == 0
Unknown == MaxPages + Max(Val \cup {Seed}) + 1
Zeroed == [r \in Row |-> Unknown]       \* a page the freelist has wiped

Rows(leaf) == {r \in Row : leaf[r] # Absent}

\* The table a descent from Root reaches.
TableOf(pg) == [r \in Row |-> pg[pg[Root][r]][r]]

\* f's values put over g's, and the value v at x.
Over(f, g) == [x \in DOMAIN f \cup DOMAIN g |-> IF x \in DOMAIN f THEN f[x] ELSE g[x]]
With(g, x, v) == [y \in DOMAIN g \cup {x} |-> IF y = x THEN v ELSE g[y]]

\* ConcurrentTxn::new.  dirtied holds the shadows whose dirty flag is set (the
\* code's set of that name may keep a freed id, which no decision looks at).
NewTxn(epoch, n) ==
    [begin_epoch |-> epoch, begin_n_pages |-> n,
     shadows |-> <<>>, dirtied |-> {}, decision_reads |-> {},
     read_stamps |-> [p \in Page |-> 0], shadow_epoch |-> [p \in Page |-> 0],
     page_kind |-> [p \in Page |-> "none"],
     sem_pages |-> {}, sem_rows |-> [r \in Row |-> 0], view_advanced |-> FALSE,
     row_journal |-> <<>>, allocated |-> <<>>, freed |-> <<>>, discarded |-> <<>>,
     savepoints |-> <<>>, err |-> FALSE, ops |-> 0]

Store == INSTANCE SnapshotStore WITH
            table <- TableOf(page), Cell <- Val \cup {Seed, Absent}

Init ==
    /\ page = [p \in Page |->
                 CASE p = Root -> [r \in Row |-> IF r <= Boundary THEN 2 ELSE 3]
                   [] p \in {2, 3} ->
                        [r \in Row |-> IF r \in Loaded /\ (r <= Boundary <=> p = 2)
                                       THEN Seed ELSE Absent]
                   [] OTHER -> Zeroed]
    /\ stamps = [p \in Page |-> 0] /\ row_stamps = [r \in Row |-> 0]
    /\ commit_epoch = 1 /\ n_pages = 4 /\ committed_n_pages = 4
    /\ freelist = [p \in Page |-> 0]
    /\ pc = [t \in Txn |-> "idle"]
    /\ txn = [t \in Txn |-> NewTxn(0, 0)]
    /\ client = [t \in Txn |-> Store!Idle]

-----------------------------------------------------------------------------
(* Fetching pages *)

Fail(T) == [T EXCEPT !.err = TRUE]

\* The rest of a function that returns early on an error.
Then(T, Rest(_)) == IF T.err THEN T ELSE Rest(T)

\* T's bytes of page p are part of the state a savepoint must restore.
ExistedAt(T, sp, p) ==
    \/ p < T.begin_n_pages
    \/ sp.allocated_mark > 0 /\ p <= T.allocated[sp.allocated_mark]

\* The bytes m of page p, kept at a savepoint.
Captured(sp, p, m) == [sp EXCEPT !.undo = With(sp.undo, p, m)]

\* Mutant: a later fetch replaces the bytes captured first.
CaptureShadowUndo_KeepsLast(T, p) ==
    [T EXCEPT !.savepoints =
        [i \in DOMAIN @ |->
            IF ExistedAt(T, @[i], p) THEN Captured(@[i], p, T.shadows[p]) ELSE @[i]]]

\* Each savepoint keeps the bytes of a page as first fetched since.
CaptureShadowUndo(T, p) ==
    [T EXCEPT !.savepoints =
        [i \in DOMAIN @ |->
            IF ExistedAt(T, @[i], p) /\ p \notin DOMAIN @[i].undo
            THEN Captured(@[i], p, T.shadows[p]) ELSE @[i]]]

\* Mutant: the row reads are not validated.
ReadSetStale_PagesOnly(T) == \E p \in T.sem_pages : stamps[p] # T.read_stamps[p]

\* A page read moved since it was materialized, or a row read was written.
ReadSetStale(T) ==
    \/ \E p \in T.sem_pages : stamps[p] # T.read_stamps[p]
    \/ \E r \in Row : T.sem_rows[r] # 0 /\ row_stamps[r] > T.sem_rows[r]

KindOf(p) ==
    IF p = Root THEN "interior" ELSE IF page[p] = Zeroed THEN "free" ELSE "leaf"

\* writer_shadow_fetch of a page T has no shadow of.  A page a sibling
\* committed after BEGIN is served at its newest bytes if nothing T has read
\* is stale, and never while a savepoint is open.
Materialize(T, p) ==
    LET late == stamps[p] > T.begin_epoch \/ p >= T.begin_n_pages
    IN  IF \/ late /\ (T.savepoints # <<>> \/ ReadSetStale(T))
           \/ p >= n_pages
        THEN Fail(T)
        ELSE CaptureShadowUndo(
               [T EXCEPT !.view_advanced = @ \/ late,
                         !.read_stamps[p] = stamps[p],
                         !.shadows = With(@, p, page[p]),
                         !.shadow_epoch[p] = commit_epoch,
                         !.page_kind[p] = KindOf(p)], p)

\* Why a page is fetched: for a write path, for a scan, for a row lookup.
Structural == [kind |-> "structural", row |-> 0]
Scanning == [kind |-> "scan", row |-> 0]
Point(r) == [kind |-> "point", row |-> r]

\* Once the view has advanced, a read is validated on the spot.
NoteSemanticRead(T, p, why) ==
    LET r == why.row
        e == IF T.sem_rows[r] = 0 THEN T.shadow_epoch[p]
             ELSE Min({T.sem_rows[r], T.shadow_epoch[p]})
        byRow == [T EXCEPT !.sem_rows[r] = e]
        byPage == [T EXCEPT !.sem_pages = @ \cup {p}]
    IN  CASE why.kind = "structural" \/ T.page_kind[p] \in {"none", "interior"} -> T
          [] why.kind = "point" /\ T.page_kind[p] = "free" -> T
          [] why.kind = "point" /\ T.page_kind[p] = "leaf" ->
               IF T.view_advanced /\ row_stamps[r] > e THEN Fail(byRow) ELSE byRow
          [] OTHER ->
               IF T.view_advanced /\ stamps[p] # T.read_stamps[p]
               THEN Fail(byPage) ELSE byPage

\* A wiped page has no valid page type: the descent ends in an error.
Typed(T, p) == IF T.shadows[p] = Zeroed THEN Fail(T) ELSE T

\* A shadow hit, or a new shadow.
Shadow(T, p) == IF p \in DOMAIN T.shadows THEN CaptureShadowUndo(T, p) ELSE Materialize(T, p)

\* writer_shadow_fetch, and the page-type check of the descent.
Fetch(T, p, why) ==
    Then(Then(Then(T, LAMBDA A : Shadow(A, p)),
              LAMBDA A : NoteSemanticRead(A, p, why)),
         LAMBDA A : Typed(A, p))

Leaf(T, r) == T.shadows[Root][r]

\* A descent to the leaf of row r.
Descend(T, r, why) ==
    Then(Fetch(T, Root, why), LAMBDA A : Fetch(A, Leaf(A, r), why))

Found(T, r) == T.shadows[Leaf(T, r)][r]

-----------------------------------------------------------------------------
(* The B-tree entry functions: on success they journal the operation, on   *)
(* an error they invalidate the journal                                    *)

NoteJournalInvalidated(T) == [T EXCEPT !.row_journal = <<>>]

NoteRowWrite(T, kind, r, v, ok) ==
    [T EXCEPT !.row_journal = Append(@, [kind |-> kind, row |-> r, val |-> v, ok |-> ok])]

SetCell(T, p, r, v) ==
    [T EXCEPT !.shadows[p][r] = v, !.dirtied = @ \cup {p}]

\* Mutant: the page that steered a write is not remembered.
NoteDecisionRead_Nothing(T, p) == T

NoteDecisionRead(T, p) == [T EXCEPT !.decision_reads = @ \cup {p}]

\* Split leaf p of T for the new cell of r, page id n.  A cell past the right
\* edge goes alone to the new page; otherwise the upper half moves there.
SplitLeaf(T, p, r, v, n) ==
    LET leaf == T.shadows[p]
        append == r > Max(Rows(leaf)) /\ Leaf(T, Max(Row)) = p
        all == SetToSortSeq(Rows(leaf) \cup {r}, <)
        cut == IF append THEN r ELSE all[(LeafCap + 1) \div 2 + 1]
        cells == [leaf EXCEPT ![r] = v]
        lower == [q \in Row |-> IF q < cut THEN cells[q] ELSE Absent]
        upper == [q \in Row |-> IF q >= cut THEN cells[q] ELSE Absent]
        route == [q \in Row |-> IF q >= cut /\ Leaf(T, q) = p THEN n ELSE Leaf(T, q)]
        D == IF append THEN NoteDecisionRead(T, p) ELSE T
    IN  [D EXCEPT !.shadows = With(With(With(@, n, upper), p, lower), Root, route),
                  !.dirtied = @ \cup {Root, n} \cup (IF append THEN {} ELSE {p}),
                  !.allocated = Append(@, n)]

\* The tail of an entry function: journal what Apply does, or give up.
Journalled(T, Apply(_)) == IF T.err THEN NoteJournalInvalidated(T) ELSE Apply(T)

PlaceCell(T, p, r, v, n) ==
    IF Cardinality(Rows(T.shadows[p])) < LeafCap THEN SetCell(T, p, r, v)
    ELSE SplitLeaf(T, p, r, v, n)

\* Root steers the insert and is noted before the leaf is fetched.
InsertTable(T, r, v, n) ==
    Journalled(Then(Fetch(T, Root, Structural),
                    LAMBDA A : Fetch(NoteDecisionRead(A, Root), Leaf(A, r), Structural)),
               LAMBDA A : NoteRowWrite(PlaceCell(A, Leaf(A, r), r, v, n),
                                       "insert", r, v, TRUE))

UpdateTable(T, r, v) ==
    Journalled(Descend(T, r, Structural),
               LAMBDA A : IF Found(A, r) = Absent THEN NoteRowWrite(A, "replace", r, v, FALSE)
                          ELSE NoteRowWrite(SetCell(A, Leaf(A, r), r, v),
                                            "replace", r, v, TRUE))

\* An empty leaf that is not an only child is unlinked: its rows fall to the
\* next leaf, or for the right-most one to the leaf before it.  Its shadow is
\* dropped and the page waits in freed for the commit.
MaybeRecycleEmptyChild(T, p) ==
    LET others == {q \in Row : Leaf(T, q) # p}
        mine == Row \ others
        next == {q \in others : q > Max(mine)}
        heir == Leaf(T, IF next # {} THEN Min(next) ELSE Max(others))
    IN  IF Rows(T.shadows[p]) # {} \/ others = {} THEN T
        ELSE [T EXCEPT
                !.shadows = With(Restrict(@, DOMAIN @ \ {p}), Root,
                                 [q \in Row |-> IF q \in mine THEN heir ELSE Leaf(T, q)]),
                !.dirtied = (@ \ {p}) \cup {Root},
                !.freed = Append(@, p)]

EmptyCell(T, p, r) == MaybeRecycleEmptyChild(SetCell(T, p, r, Absent), p)

DeleteTable(T, r) ==
    Journalled(Descend(T, r, Structural),
               LAMBDA A : IF Found(A, r) = Absent
                          THEN NoteRowWrite(A, "delete", r, Absent, FALSE)
                          ELSE NoteRowWrite(EmptyCell(A, Leaf(A, r), r),
                                            "delete", r, Absent, TRUE))

-----------------------------------------------------------------------------
(* Statements *)

Open(t) == pc[t] = "open"

\* What t's statement layer learns: row r held v, and it has then written w.
\* A row the transaction wrote itself tells nothing of the committed table.
Told(c, r, v) ==
    IF c.own[r] # Unknown THEN c
    ELSE IF c.seen[r] \in {Unknown, v} THEN [c EXCEPT !.seen[r] = v]
         ELSE [c EXCEPT !.torn = TRUE]
Hit(c, r, v) ==
    IF c.own[r] # Unknown \/ c.hit[r] # Unknown THEN c ELSE [c EXCEPT !.hit[r] = v]
ToldAll(c, read) ==
    LET new == {r \in DOMAIN read : c.own[r] = Unknown}
    IN  [c EXCEPT !.torn = @ \/ \E r \in new : c.seen[r] \notin {Unknown, read[r]},
                  !.seen = [r \in Row |-> IF r \in new /\ @[r] = Unknown THEN read[r] ELSE @[r]]]
Wrote(c, r, w) == [c EXCEPT !.own[r] = w]

Done(T) == [T EXCEPT !.err = FALSE, !.ops = @ + 1]

\* The end of a statement: T is t's new state and, unless the statement
\* failed, c its client.  A failed statement leaves the transaction open.
Finish(t, T, c) ==
    /\ txn' = [txn EXCEPT ![t] = Done(T)]
    /\ client' = [client EXCEPT ![t] = IF T.err THEN @ ELSE c]
    /\ n_pages' = n_pages + (Len(T.allocated) - Len(txn[t].allocated))
    /\ UNCHANGED <<page, stamps, row_stamps, commit_epoch, committed_n_pages, freelist, pc>>

Runs(t, kind, r) ==
    Open(t) /\ <<kind, r>> \in Work /\ txn[t].ops < MaxOps

\* The first fetch of a statement whose later ones see another commit.
FetchRoot(t) ==
    /\ Runs(t, "descend", 0) /\ Root \notin DOMAIN txn[t].shadows
    /\ Finish(t, Fetch(txn[t], Root, Structural), client[t])

\* SELECT by rowid: lookup_table.
Select(t, r) ==
    /\ Runs(t, "select", r)
    /\ LET T == Descend(txn[t], r, Point(r))
       IN  Finish(t, T, Told(client[t], r, Found(T, r)))

\* One leaf of a scan.
ScanLeaf(t, r) ==
    /\ Runs(t, "scan", r)
    /\ LET T == Descend(txn[t], r, Scanning)
           mine == {q \in Row : Leaf(T, q) = Leaf(T, r)}
       IN  Finish(t, T, ToldAll(client[t], [q \in mine |-> Found(T, q)]))

\* INSERT: insert_table_absent, a lookup and then insert_table.
Insert(t, r, v) ==
    /\ Runs(t, "insert", r) /\ n_pages <= MaxPages
    /\ LET L == Descend(txn[t], r, Point(r))
           T == InsertTable(L, r, v, n_pages)
           c == Told(client[t], r, Found(L, r))
       IN  IF L.err \/ Found(L, r) # Absent THEN Finish(t, L, c)
           ELSE Finish(t, T, Wrote(c, r, v))

\* UPDATE by rowid: a lookup and then update_table.
Update(t, r, v) ==
    /\ Runs(t, "update", r)
    /\ LET L == Descend(txn[t], r, Point(r))
           T == UpdateTable(L, r, v)
           c == Told(client[t], r, Found(L, r))
       IN  IF L.err \/ Found(L, r) = Absent THEN Finish(t, L, c)
           ELSE Finish(t, T, Wrote(c, r, v))

\* DELETE by rowid: delete_table_get_payload, no lookup before it.
Delete(t, r) ==
    /\ Runs(t, "delete", r)
    /\ LET T == DeleteTable(txn[t], r)
           before == Found(Descend(txn[t], r, Structural), r)
           c == Hit(client[t], r, before)
       IN  Finish(t, T, IF before = Absent THEN c ELSE Wrote(c, r, Absent))

-----------------------------------------------------------------------------
(* Savepoints *)

Savepoint(t) ==
    /\ Runs(t, "savepoint", 0) /\ Len(txn[t].savepoints) < MaxSaves
    /\ LET T == txn[t]
           level == [undo |-> <<>>, allocated_mark |-> Len(T.allocated),
                     freed_mark |-> Len(T.freed), journal_mark |-> Len(T.row_journal)]
       IN  Finish(t, [T EXCEPT !.savepoints = Append(@, level)],
                  [client[t] EXCEPT !.saves = Append(@, client[t].own)])

JournalAt(T, level) ==
    SubSeq(T.row_journal, 1, Min({level.journal_mark, Len(T.row_journal)}))

\* Mutant: a page dropped as net-zero stays in the dirty set.
DirtyAfter_KeepsDropped(T, undo, left) == T.dirtied \cup DOMAIN undo

\* Restored pages are dirty, pages no longer shadowed are not.
DirtyAfter(T, undo, left) == (T.dirtied \cup DOMAIN undo) \cap left

\* ROLLBACK TO level i: pages allocated since are discarded, frees and journal
\* entries since are dropped, pages fetched since get their bytes back.  A page
\* that is then as it is committed is no longer a shadow.
RestoredTo(T, i) ==
    LET level == T.savepoints[i]
        dropped == SubSeq(T.allocated, level.allocated_mark + 1, Len(T.allocated))
        junk == Range(dropped)
        undo == Restrict(level.undo, DOMAIN level.undo \ junk)
        kept == Over(undo, Restrict(T.shadows, DOMAIN T.shadows \ junk))
        netZero == {p \in DOMAIN undo : p < T.begin_n_pages /\ undo[p] = page[p]}
        left == DOMAIN kept \ netZero
    IN  [T EXCEPT
            !.savepoints = Append(SubSeq(T.savepoints, 1, i - 1), [level EXCEPT !.undo = <<>>]),
            !.allocated = SubSeq(T.allocated, 1, level.allocated_mark),
            !.freed = SubSeq(T.freed, 1, level.freed_mark),
            !.row_journal = JournalAt(T, level),
            !.discarded = T.discarded \o dropped,
            !.shadows = Restrict(kept, left),
            !.dirtied = DirtyAfter(T, undo, left)]

RollbackTo(t, i) ==
    /\ Runs(t, "rollback to", 0) /\ i \in DOMAIN txn[t].savepoints
    /\ LET T == RestoredTo(txn[t], i)
       IN  /\ txn' = [txn EXCEPT ![t] = Done(T)]
           /\ client' = [client EXCEPT ![t].own = client[t].saves[i],
                                       ![t].saves = SubSeq(@, 1, i)]
    /\ UNCHANGED <<tree, pc>>

Release(t, i) ==
    /\ Runs(t, "release", 0) /\ i \in DOMAIN txn[t].savepoints
    /\ Finish(t, [txn[t] EXCEPT !.savepoints = SubSeq(@, 1, i - 1)],
              [client[t] EXCEPT !.saves = SubSeq(@, 1, i - 1)])

-----------------------------------------------------------------------------
(* BEGIN, COMMIT, ROLLBACK *)

\* begin_concurrent: three steps, each one atomic read or write.
BeginPages(t) ==
    /\ pc[t] = "idle" /\ commit_epoch < MaxEpoch
    /\ pc' = [pc EXCEPT ![t] = "pages"]
    /\ txn' = [txn EXCEPT ![t] = NewTxn(0, committed_n_pages)]
    /\ client' = [client EXCEPT ![t] = [Store!Idle EXCEPT !.open = TRUE,
                                                          !.cands = {TableOf(page)}]]
    /\ UNCHANGED tree

BeginEpoch(t) ==
    /\ pc[t] = "pages"
    /\ pc' = [pc EXCEPT ![t] = "epoch"]
    /\ txn' = [txn EXCEPT ![t].begin_epoch = commit_epoch]
    /\ UNCHANGED <<tree, client>>

Register(t) ==
    /\ pc[t] = "epoch"
    /\ pc' = [pc EXCEPT ![t] = "open"]
    /\ UNCHANGED <<tree, txn, client>>

\* commit_lock is held until the stamps have been pruned.
CommitLockFree == \A u \in Txn : pc[u] # "ending"

\* splice_txn_freed: the pages go to the live freelist and are wiped.
SpliceTxnFreed(pg, ids) == [p \in Page |-> IF p \in Range(ids) THEN Zeroed ELSE pg[p]]
FreelistWith(ids) ==
    [p \in Page |-> freelist[p] + Cardinality({k \in DOMAIN ids : ids[k] = p})]

\* The transaction is gone, the others' view of the committed table grows.
End(t, others) ==
    /\ pc' = [pc EXCEPT ![t] = "ending"]
    /\ txn' = [txn EXCEPT ![t] = NewTxn(0, 0)]
    /\ client' = [u \in Txn |-> IF u = t THEN Store!Idle ELSE others[u]]

\* install_txn_shadows and the stamps of F, then the splice of the frees.
Install(t, F, freed) ==
    LET epoch == commit_epoch + 1
        pg == SpliceTxnFreed([p \in Page |-> IF p \in F.dirtied THEN F.shadows[p] ELSE page[p]],
                             freed)
        written == {F.row_journal[k].row : k \in DOMAIN F.row_journal}
    IN  /\ page' = pg
        /\ commit_epoch' = epoch
        /\ stamps' = [p \in Page |-> IF p \in F.dirtied THEN epoch ELSE stamps[p]]
        /\ row_stamps' = [r \in Row |-> IF r \in written THEN epoch ELSE row_stamps[r]]
        /\ End(t, [u \in Txn |-> IF client[u].open
                                 THEN [client[u] EXCEPT !.cands = @ \cup {TableOf(pg)}]
                                 ELSE client[u]])

\* A refused COMMIT: the shadows are dropped, the fresh pages recycled.
Refuse(t, recycle) ==
    /\ page' = SpliceTxnFreed(page, recycle)
    /\ freelist' = FreelistWith(recycle)
    /\ End(t, client)
    /\ UNCHANGED <<stamps, row_stamps, commit_epoch, committed_n_pages>>

\* replay_one inside the fresh transaction F: the outcome must be the one the
\* original operation had, and an inserted row must not be there.
SameOutcome(F, op) == IF Last(F.row_journal).ok = op.ok THEN F ELSE Fail(F)

ReplayInsert(F, op) ==
    IF Found(F, op.row) # Absent THEN Fail(F)
    ELSE InsertTable(F, op.row, op.val, n_pages + Len(F.allocated))

ReplayOne(F, op) ==
    IF F.err THEN F
    ELSE CASE op.kind = "insert" ->
                Then(Descend(F, op.row, Point(op.row)), LAMBDA A : ReplayInsert(A, op))
           [] op.kind = "replace" -> UpdateTable(F, op.row, op.val)
           [] op.kind = "delete" ->
                Then(DeleteTable(F, op.row), LAMBDA A : SameOutcome(A, op))

Replay(journal) ==
    LET go[k \in 0 .. Len(journal)] ==
          IF k = 0 THEN NewTxn(commit_epoch, committed_n_pages)
          ELSE ReplayOne(go[k - 1], journal[k])
    IN  go[Len(journal)]

IsWriter(T) ==
    T.dirtied # {} \/ T.row_journal # <<>> \/ T.allocated # <<>> \/ T.freed # <<>>

\* Mutant: only the pages to install are validated.
Conflicts_DirtyOnly(T) == {p \in T.dirtied : stamps[p] # T.read_stamps[p]}

\* Mutant: the interior page is taken for read-only.
Conflicts_LeavesOnly(T) ==
    {p \in T.dirtied \cup T.decision_reads : p # Root /\ stamps[p] # T.read_stamps[p]}

Conflicts(T) ==
    {p \in T.dirtied \cup T.decision_reads : stamps[p] # T.read_stamps[p]}

RowMoved(T) ==
    \E k \in DOMAIN T.row_journal : row_stamps[T.row_journal[k].row] > T.begin_epoch

\* Mutant: the pages the transaction wanted to free are freed as well.
Recycle_FreedToo(T) == T.allocated \o T.discarded \o T.freed

\* What a transaction that does not install leaves behind.
Recycle(T) == T.allocated \o T.discarded

CommitRefused(t) ==
    LET T == txn[t]
    IN  /\ Open(t) /\ CommitLockFree
        /\ \/ IsWriter(T) /\ ReadSetStale(T)
           \/ Conflicts(T) # {} /\ T.row_journal = <<>>
           \/ RowMoved(T)
        /\ Refuse(t, Recycle(T))
        /\ UNCHANGED n_pages

CommitFast(t) ==
    LET T == txn[t]
        freed == T.freed \o T.discarded
    IN  /\ Open(t) /\ CommitLockFree
        /\ IsWriter(T) => ~ReadSetStale(T)
        /\ Conflicts(T) = {} /\ ~RowMoved(T)
        /\ Install(t, T, freed)
        /\ freelist' = FreelistWith(freed)
        /\ committed_n_pages' = n_pages
        /\ UNCHANGED n_pages

\* resolve_page_conflict with a journal none of whose rows moved.
CommitMerge(t) ==
    LET T == txn[t]
        F == Replay(T.row_journal)
    IN  /\ Open(t) /\ CommitLockFree
        /\ IsWriter(T) => ~ReadSetStale(T)
        /\ Conflicts(T) # {} /\ T.row_journal # <<>> /\ ~RowMoved(T)
        /\ n_pages + Len(T.row_journal) <= MaxPages + 1
        /\ n_pages' = n_pages + Len(F.allocated)
        /\ IF F.err
           THEN Refuse(t, Recycle(T) \o F.allocated)
           ELSE /\ Install(t, F, Recycle(T) \o F.freed)
                /\ freelist' = FreelistWith(Recycle(T) \o F.freed)
                /\ committed_n_pages' = n_pages'

Rollback(t) ==
    LET recycle == Recycle(txn[t])
    IN  /\ Open(t) /\ CommitLockFree
        /\ page' = SpliceTxnFreed(page, recycle)
        /\ freelist' = FreelistWith(recycle)
        /\ committed_n_pages' = IF recycle = <<>> THEN committed_n_pages ELSE n_pages
        /\ End(t, client)
        /\ UNCHANGED <<stamps, row_stamps, commit_epoch, n_pages>>

\* prune_stamps_if_idle, the last step of a commit or a rollback.
PruneStampsIfIdle(t) ==
    LET idle == \A u \in Txn : pc[u] # "open"
    IN  /\ pc[t] = "ending"
        /\ pc' = [pc EXCEPT ![t] = "idle"]
        /\ stamps' = IF idle THEN [p \in Page |-> 0] ELSE stamps
        /\ row_stamps' = IF idle THEN [r \in Row |-> 0] ELSE row_stamps
        /\ UNCHANGED <<page, commit_epoch, n_pages, committed_n_pages, freelist, txn, client>>

Next ==
    \E t \in Txn :
        \/ BeginPages(t) \/ BeginEpoch(t) \/ Register(t)
        \/ FetchRoot(t)
        \/ \E r \in Row : Select(t, r) \/ ScanLeaf(t, r) \/ Delete(t, r)
        \/ \E r \in Row, v \in Val : Insert(t, r, v) \/ Update(t, r, v)
        \/ Savepoint(t)
        \/ \E i \in 1 .. MaxSaves : RollbackTo(t, i) \/ Release(t, i)
        \/ CommitRefused(t) \/ CommitFast(t) \/ CommitMerge(t)
        \/ Rollback(t) \/ PruneStampsIfIdle(t)

Spec == Init /\ [][Next]_vars

-----------------------------------------------------------------------------
(* Properties *)

\* Every value is in its range: no stamp is ahead of commit_epoch, no page
\* count regresses, whatever is dirty is a shadow, and no statement leaves
\* its error behind (concurrent.rs, ConcurrentTxn and ConcurrentManager).
TypeOK ==
    /\ \A p \in Page : page[p] \in [Row -> 0 .. Unknown] /\ stamps[p] \in 0 .. commit_epoch
    /\ row_stamps \in [Row -> 0 .. commit_epoch]
    /\ committed_n_pages <= n_pages /\ n_pages <= MaxPages + 1
    /\ freelist \in [Page -> Nat]
    /\ pc \in [Txn -> {"idle", "pages", "epoch", "open", "ending"}]
    /\ \A t \in Txn :
        LET T == txn[t]
        IN  /\ T.dirtied \subseteq DOMAIN T.shadows /\ DOMAIN T.shadows \subseteq Page
            /\ T.begin_epoch <= commit_epoch /\ T.begin_n_pages <= committed_n_pages
            /\ ~T.err

\* All a transaction was told is true of one committed table no older than
\* its BEGIN: the checks of writer_shadow_fetch and note_semantic_read never
\* return a mixed snapshot to the statement layer.
Opacity == \A t \in Txn : client[t].open => Store!Opaque(client[t])

\* The step ends t's transaction by installing it.
Commits(t) == Open(t) /\ commit_epoch' # commit_epoch /\ pc'[t] = "ending"

\* A commit changes the rows its transaction wrote, to what it wrote, and no
\* other row: an install of whole pages never carries a stale row back, and
\* a merge replays everything.
CommitExact ==
    [][\A t \in Txn : Commits(t) =>
          TableOf(page)' = Store!Apply(TableOf(page), client[t].own)]_vars

\* What a dirty shadow will install is the transaction's own writes on top
\* of committed rows: nothing that ROLLBACK TO has undone
\* (rollback_txn_savepoint restores the shadows' bytes).
ShadowsHoldOwnWrites ==
    \A t \in Txn : Open(t) =>
        \A p \in txn[t].dirtied \ {Root} : \A r \in Rows(txn[t].shadows[p]) :
            LET v == txn[t].shadows[p][r]
                own == client[t].own[r]
            IN  \/ v = own
                \/ own = Unknown /\ \E tab \in client[t].cands : v = tab[r]

\* Pages, stamps, shadows, journals and merges implement the abstract table:
\* begin_concurrent, every statement, savepoint operation, commit_concurrent
\* and rollback_concurrent is a step SnapshotStore allows.
StoreSpec == Store!Spec

\* The committed tree is sound after any interleaving of splits and
\* recyclings by different transactions: each cell is in the leaf its row is
\* routed to, no page of the tree is free, and no page is free twice.
TreeSound ==
    LET leaves == Range(page[Root])
    IN  /\ \A p \in leaves : page[p] # Zeroed
        /\ \A p \in leaves, r \in Row : page[p][r] # Absent => page[Root][r] = p
        /\ \A p \in Page : freelist[p] # 0 =>
              freelist[p] = 1 /\ p \notin leaves \cup {Root}

\* A page that splice_txn_freed has wiped stays wiped: no later commit
\* installs a stale shadow of it, whose rows nobody would reach.
FreeStaysWiped == \A p \in Page : freelist[p] # 0 => page[p] = Zeroed
=============================================================================
