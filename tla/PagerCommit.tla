---------------------------- MODULE PagerCommit ----------------------------
(***************************************************************************)
(* The pager under one connection: pages are allocated from and freed to   *)
(* the trunk freelist, a mass delete cuts the tail of the file, a          *)
(* transaction is undone from captured pre-images.  In DELETE mode a       *)
(* commit rewrites the file in place, without a journal, in three phases:  *)
(* new pages, the header, old pages; the process may be killed between two *)
(* writes, and a write may fail.  In WAL mode a commit adds frames (its    *)
(* crashes are those of WalCommit) and a checkpoint folds them into the    *)
(* file.                                                                   *)
(*                                                                         *)
(* The B+tree on top is one node, Root, and its leaves: enough for a page  *)
(* that points at others and for every use the tree makes of the pager.    *)
(***************************************************************************)
EXTENDS Integers, Sequences, FiniteSets, SequencesExt, FiniteSetsExt

CONSTANTS
    MaxPages,   \* bound: pages of the file, page 0 (the header) included
    Root,       \* the page of the tree's node
    FirstPages, \* page count of the file at the start
    TrunkCap,   \* entries of a freelist trunk
    Journals,   \* subset of {"delete", "wal"}
    Faults,     \* subset of {"kill", "write_error"}
    MaxWrites   \* bound: statements that write

ASSUME PagerAssumption ==
    /\ MaxPages \in Nat /\ FirstPages \in 2..MaxPages /\ Root \in 1..FirstPages-1
    /\ TrunkCap \in Nat /\ MaxWrites \in Nat
    /\ Journals \subseteq {"delete", "wal"} /\ Faults \subseteq {"kill", "write_error"}

Page == 1..MaxPages-1

\* What a page holds.
Blank == [kind |-> "blank"]
Leaf(v) == [kind |-> "leaf", val |-> v]
Node(K) == [kind |-> "node", kids |-> K]
Trunk(nx, es) == [kind |-> "trunk", next |-> nx, entries |-> es]
None == [kind |-> "none"]       \* no pre-image captured, no frame in the log

VARIABLES
    mode,       \* the journal mode
    pager,      \* the handle: see OpenPager
    stage,      \* "idle", a phase of the flush, or "killed"
    todo,       \* pages the flush has still to write
    auto,       \* the flush ends an autocommit statement
    committed,  \* committed_n_pages
    file, len, hdr,     \* the main file: pages, length in pages, header
    writes,             \* statements that wrote, for the bound
    risk, scars,        \* history: what the unit of work in progress did, and
                        \* what the units that did not end well did
    saved               \* history: the database at the last commit

vars == <<mode, pager, stage, todo, auto, committed, file, len, hdr, writes, risk, scars, saved>>

Header(w) == [n |-> w.n, head |-> w.head, count |-> w.count]
NoTxn == [n |-> 0, head |-> 0, count |-> 0]

\* A handle: the header fields n_pages, freelist_head and freelist_count, page
\* 0 as the last flush left it, the pages as the cache shows them, the dirty
\* ones, the frames of the log, pending_truncate, the base of the transaction's
\* savepoint and the pre-images it captured.
OpenPager(h, pages) ==
    [n |-> h.n, head |-> h.head, count |-> h.count, zero |-> h, mem |-> pages,
     dirty |-> {}, map |-> [p \in Page |-> None], cut |-> 0,
     txn |-> NoTxn, undo |-> [p \in Page |-> None]]

InTxn(w) == w.txn # NoTxn

-----------------------------------------------------------------------------
(* Pages in the cache.  The operators map one state of the handle to the next. *)

\* get_page for a write: the first fetch inside a transaction captures a page
\* that was there at BEGIN.
Capture(w, p) ==
    IF p < w.txn.n /\ w.undo[p] = None THEN [w EXCEPT !.undo[p] = w.mem[p]] ELSE w

\* A change of a page, noted dirty; the same for all the pages of f.
Put(w, p, c) == [Capture(w, p) EXCEPT !.mem[p] = c, !.dirty = @ \cup {p}]
PutAll(w, f) ==
    [w EXCEPT !.mem = [p \in Page |-> IF p \in DOMAIN f THEN f[p] ELSE @[p]],
              !.dirty = @ \cup DOMAIN f,
              !.undo = [p \in Page |-> IF p \in DOMAIN f /\ p < w.txn.n /\ @[p] = None
                                       THEN w.mem[p] ELSE @[p]]]

\* allocate_page: heal a count without a chain, then pop the last entry of the
\* head trunk, or the emptied trunk itself, or extend the file.
Heal(w) == IF w.head = 0 THEN [w EXCEPT !.count = 0] ELSE w
HeadTrunk(w) == w.mem[w.head]
AllocId(w) ==
    IF Heal(w).count = 0 THEN w.n
    ELSE IF HeadTrunk(w).entries # <<>> THEN Last(HeadTrunk(w).entries) ELSE w.head
AllocateHealed(w) ==
    IF w.count = 0 THEN [w EXCEPT !.n = @ + 1]
    ELSE LET t == HeadTrunk(w)
             v == [w EXCEPT !.count = @ - 1]
         IN IF t.entries # <<>> THEN Put(v, w.head, Trunk(t.next, Front(t.entries)))
            ELSE [v EXCEPT !.head = t.next]
AllocatePage(w) == Put(AllocateHealed(Heal(w)), AllocId(w), Blank)

\* free_page: an entry of the head trunk, or a new head trunk when that one is
\* full.  The body of an entry is only blanked in the cache, unless the file
\* has no such page yet.
FreeEntry(w, p) ==
    LET t == HeadTrunk(w)
        v == Put(Capture(w, p), w.head, Trunk(t.next, Append(t.entries, p)))
    IN [v EXCEPT !.mem[p] = Blank, !.count = @ + 1,
                 !.dirty = IF p >= len /\ w.map[p] = None THEN @ \cup {p} ELSE @ \ {p}]
FreePage(w, p) ==
    IF p = w.head THEN w
    ELSE IF w.head # 0 /\ Len(HeadTrunk(w).entries) < TrunkCap THEN FreeEntry(w, p)
    ELSE [Put(w, p, Trunk(w.head, <<>>)) EXCEPT !.head = p, !.count = @ + 1]

\* The pages of s, freed one after the other.
FreeAll(w, s) ==
    LET go[i \in 0..Len(s)] == IF i = 0 THEN w ELSE FreePage(go[i - 1], s[i])
    IN go[Len(s)]

\* The trunks of the freelist that starts at h, in the pages m.
Chain(h, m) ==
    LET walk[i \in 0..MaxPages] ==
          IF i = 0 THEN IF h = 0 THEN <<>> ELSE <<h>>
          ELSE LET s == walk[i - 1]
               IN IF Len(s) < i \/ Last(s) \notin Page THEN s
                  ELSE IF m[Last(s)].kind # "trunk" \/ m[Last(s)].next = 0 THEN s
                  ELSE Append(s, m[Last(s)].next)
    IN walk[MaxPages]
TrunkPages(w) == Chain(w.head, w.mem)

\* All pages of the freelist whose trunks are those of c.
FreeList(c, m) == c \o FlattenSeq([i \in DOMAIN c |-> m[c[i]].entries])

\* truncate_tail: the cut, not below the base of a savepoint.
CutAt(w, freed) ==
    LET k == Min({j \in 1..w.n : j..w.n-1 \subseteq freed})
    IN IF InTxn(w) THEN Max({k, w.txn.n}) ELSE k

\* The elements of s below k.
Below(s, k) ==
    LET keep[i \in 0..Len(s)] ==
          IF i = 0 THEN <<>>
          ELSE IF s[i] < k THEN Append(keep[i - 1], s[i]) ELSE keep[i - 1]
    IN keep[Len(s)]

\* The freelist without what lies at or above k: kept trunks lose entries and
\* are linked to the next kept one; the rest of a dropped trunk is freed again.
Scrubbed(w, i, kept, k) ==
    LET t == w.mem[kept[i]]
    IN Trunk(IF i < Len(kept) THEN kept[i + 1] ELSE t.next, Below(t.entries, k))
Rewritten(w, i, kept, k) ==
    i < Len(kept) \/ Below(w.mem[kept[i]].entries, k) # w.mem[kept[i]].entries

\* Mutant: the entries of a dropped trunk are forgotten.
OrphansLeaked(w, k) == <<>>

Orphans(w, k) ==
    FlattenSeq([i \in DOMAIN TrunkPages(w) |->
                  IF TrunkPages(w)[i] < k THEN <<>>
                  ELSE Below(w.mem[TrunkPages(w)[i]].entries, k)])
ScrubTrunks(w, kept, k) ==
    LET changed == {i \in DOMAIN kept : Rewritten(w, i, kept, k)}
        at(p) == CHOOSE i \in changed : kept[i] = p
    IN PutAll(w, [p \in {kept[i] : i \in changed} |-> Scrubbed(w, at(p), kept, k)])
ScrubFreelist(w, kept, k) ==
    LET v == ScrubTrunks(w, kept, k)
    IN [v EXCEPT !.head = IF kept = <<>> THEN 0 ELSE kept[1],
                 !.count = Len(FreeList(kept, v.mem))]

TruncateTail(w, freed) ==
    LET k == CutAt(w, freed)
        v == FreeAll(ScrubFreelist(w, Below(TrunkPages(w), k), k), Orphans(w, k))
    IN IF k = w.n THEN w
       ELSE [v EXCEPT !.n = k, !.cut = k,
                      !.mem = [p \in Page |-> IF p < k THEN @[p] ELSE Blank],
                      !.map = [p \in Page |-> IF p < k THEN @[p] ELSE None],
                      !.dirty = {p \in @ : p < k}]

-----------------------------------------------------------------------------
(* The database a header and a set of pages describe. *)

Reach(h, m) == {Root} \cup (IF m[Root].kind = "node" THEN m[Root].kids ELSE {})
                      \cup (ToSet(Chain(h.head, m)) \cap Page)
View(h, m) == [h |-> h, pages |-> [p \in Reach(h, m) |-> m[p]]]
Live(w) == View(Header(w), w.mem)

\* What the media hold: the newest frame of a page, else the file.
Stored(w, p) == IF w.map[p] # None THEN w.map[p] ELSE file[p]
StoredPages == [p \in Page |-> Stored(pager, p)]
StoredHeader == IF mode = "wal" THEN pager.zero ELSE hdr

FirstHeader == [n |-> FirstPages, head |-> 0, count |-> 0]
FirstImage == [p \in Page |-> IF p = Root THEN Node(1..FirstPages-1 \ {Root})
                              ELSE IF p < FirstPages THEN Leaf(0) ELSE Blank]

Init ==
    /\ mode \in Journals
    /\ pager = OpenPager(FirstHeader, FirstImage)
    /\ stage = "idle" /\ todo = {} /\ auto = FALSE
    /\ committed = FirstPages
    /\ file = FirstImage /\ len = FirstPages /\ hdr = FirstHeader
    /\ writes = 0 /\ risk = {} /\ scars = {} /\ saved = Live(OpenPager(FirstHeader, FirstImage))

-----------------------------------------------------------------------------
(* Statements.  One in autocommit is flushed before the next begins. *)

Kids == pager.mem[Root].kids
Unlink(w, K) == Put(w, Root, Node(w.mem[Root].kids \ K))

\* The pages the statements go through are what they should be.  What the code
\* makes of a page of another kind (an error, or worse) is not modelled.
Sound(w) ==
    /\ w.mem[Root].kind = "node"
    /\ \A p \in w.mem[Root].kids : p < w.n /\ w.mem[p].kind = "leaf"
    /\ \A i \in DOMAIN TrunkPages(w) : /\ TrunkPages(w)[i] < w.n
                                       /\ w.mem[TrunkPages(w)[i]].kind = "trunk"

\* History: what a statement does that a commit in place, or a fold, can trip on.
Risks(w, v) ==
       (IF v.count < w.count THEN {"reused"} ELSE {})
    \cup (IF v.count > w.count THEN {"freed"} ELSE {})
    \cup (IF v.n > w.n /\ w.cut # 0 THEN {"regrown"} ELSE {})
    \cup (IF v.n > w.n THEN {"grown"} ELSE {})
    \cup (IF v.n < w.n THEN {"cut"} ELSE {})
    \cup (IF \E t \in ToSet(TrunkPages(v)) : t >= v.n THEN {"unlinked"} ELSE {})

Ready == stage = "idle" /\ writes < MaxWrites /\ Sound(pager)

Does(w) ==
    /\ pager' = w /\ writes' = writes + 1 /\ risk' = risk \cup Risks(pager, w)
    /\ IF InTxn(w) THEN UNCHANGED <<stage, todo, auto>>
       ELSE stage' = "new" /\ todo' = w.dirty /\ auto' = TRUE
    /\ UNCHANGED <<mode, committed, file, len, hdr, scars, saved>>

\* A row that needs a new leaf.
Insert ==
    /\ Ready /\ AllocId(pager) < MaxPages
    /\ LET w == Put(AllocatePage(pager), AllocId(pager), Leaf(0))
       IN Does(Put(w, Root, Node(w.mem[Root].kids \cup {AllocId(pager)})))

\* Mutant: no pre-image of the page is captured.
UpdatePinned(c) ==
    Ready /\ c \in Kids /\ Does([pager EXCEPT !.mem[c] = Leaf(1 - @.val), !.dirty = @ \cup {c}])

\* An update in place.
Update(c) ==
    Ready /\ c \in Kids /\ Does(Put(pager, c, Leaf(1 - pager.mem[c].val)))

\* The delete of a leaf's last row.
Delete(c) == Ready /\ c \in Kids /\ Does(FreePage(Unlink(pager, {c}), c))

\* delete_rowids_inorder: every leaf that empties is unlinked and freed, then
\* the tail of the file is cut.
DropLeaves(w, s) ==
    LET go[i \in 0..Len(s)] == IF i = 0 THEN w ELSE FreePage(Unlink(go[i - 1], {s[i]}), s[i])
    IN go[Len(s)]
MassDelete(s) ==
    /\ Ready /\ ToSet(s) \subseteq Kids
    /\ Does(TruncateTail(DropLeaves(pager, s), ToSet(s)))

Begin ==
    /\ stage = "idle" /\ ~InTxn(pager)
    /\ pager' = [pager EXCEPT !.txn = Header(pager), !.undo = [p \in Page |-> None]]
    /\ risk' = {}
    /\ UNCHANGED <<mode, stage, todo, auto, committed, file, len, hdr, scars, saved, writes>>

\* COMMIT: the savepoints go first, then the flush begins.
Commit ==
    /\ stage = "idle" /\ InTxn(pager)
    /\ pager' = [pager EXCEPT !.txn = NoTxn]
    /\ IF pager.dirty = {} THEN UNCHANGED <<stage, todo, auto>>
       ELSE stage' = "new" /\ todo' = pager.dirty /\ auto' = FALSE
    /\ UNCHANGED <<mode, committed, file, len, hdr, risk, scars, saved, writes>>

\* ROLLBACK: pre-images back into the cache, dirty; the pages, the header fields
\* and the length of BEGIN; the cut disarmed.
RestoreBase(w, c) ==
    LET b == w.txn
    IN [w EXCEPT !.n = b.n, !.head = b.head, !.count = b.count, !.cut = c, !.txn = NoTxn,
                 !.mem = [p \in Page |-> IF p >= b.n THEN Blank
                                         ELSE IF w.undo[p] # None THEN w.undo[p] ELSE @[p]],
                 !.dirty = {p \in @ \cup {q \in Page : w.undo[q] # None} : p < b.n}]

\* Mutant: the cut stays armed.
RolledBackArmed(w) == RestoreBase(w, w.cut)

RolledBack(w) == RestoreBase(w, 0)
Trimmed(pages, l) == [p \in Page |-> IF p < l THEN pages[p] ELSE Blank]
\* History: the length of BEGIN is not what the header of the main file says.
Trims == IF pager.txn.n < hdr.n THEN {"trimmed"} ELSE {}
Rollback ==
    /\ stage = "idle" /\ InTxn(pager)
    /\ pager' = RolledBack(pager)
    /\ len' = Min({len, pager.txn.n}) /\ file' = Trimmed(file, len')
    /\ risk' = {} /\ scars' = scars \cup Trims
    /\ UNCHANGED <<mode, stage, todo, auto, committed, hdr, saved, writes>>

-----------------------------------------------------------------------------
(* The flush in DELETE mode.  Every write of a phase takes the highest page   *)
(* left: the runs of adjacent pages the code coalesces only remove cuts.      *)

Flushing == mode = "delete" /\ stage \in {"new", "old"}

\* Mutant: the header is written first.
NoNewPages == {}

\* Mutant: all pages are written before the header.
AllPages == todo

\* The pages of the first phase: the durable header does not count them yet.
NewPages == {p \in todo : p >= committed}

WritePage(p) ==
    /\ file' = [file EXCEPT ![p] = pager.mem[p]] /\ len' = Max({len, p + 1})
    /\ todo' = todo \ {p}
    /\ UNCHANGED <<mode, pager, auto, committed, hdr, risk, scars, saved, writes>>

WriteNew ==
    /\ Flushing /\ stage = "new" /\ NewPages # {}
    /\ WritePage(Max(NewPages)) /\ UNCHANGED stage

WriteHeader ==
    /\ Flushing /\ stage = "new" /\ NewPages = {}
    /\ hdr' = Header(pager) /\ pager' = [pager EXCEPT !.zero = Header(pager)]
    /\ stage' = "old"
    /\ UNCHANGED <<mode, todo, auto, committed, file, len, risk, scars, saved, writes>>

WriteOld ==
    /\ Flushing /\ stage = "old" /\ todo # {}
    /\ WritePage(Max(todo)) /\ UNCHANGED stage

\* The file is cut to pending_truncate, whatever the page count has become.
Finish ==
    /\ Flushing /\ stage = "old" /\ todo = {}
    /\ pager' = [pager EXCEPT !.dirty = {}, !.cut = 0]
    /\ len' = IF pager.cut = 0 THEN len ELSE Min({len, pager.cut})
    /\ file' = Trimmed(file, len')
    /\ committed' = pager.n
    /\ stage' = "idle" /\ auto' = FALSE
    /\ risk' = {} /\ scars' = scars \cup (risk \cap {"regrown", "unlinked"}) /\ saved' = Live(pager)
    /\ UNCHANGED <<mode, todo, hdr, writes>>

-----------------------------------------------------------------------------
(* The commit and the fold in WAL mode. *)

\* flush_wal: every dirty page, and page 0 when it changed, becomes a frame.
AppendFrames ==
    /\ mode = "wal" /\ stage = "new"
    /\ pager' = [pager EXCEPT !.dirty = {}, !.zero = Header(pager),
                    !.map = [p \in Page |-> IF p \in todo THEN pager.mem[p] ELSE @[p]]]
    /\ committed' = pager.n
    /\ stage' = "idle" /\ todo' = {} /\ auto' = FALSE
    /\ risk' = {} /\ scars' = scars \cup (risk \cap {"regrown", "unlinked"}) /\ saved' = Live(pager)
    /\ UNCHANGED <<mode, file, len, hdr, writes>>

\* Mutant: the last page below the cut is skipped.
FoldedShort == {p \in Page : pager.map[p] # None /\ (pager.cut = 0 \/ p + 1 < pager.cut)}

\* checkpoint_wal_locked: the frames below an armed cut, served from the cache,
\* then page 0, then the length of the page count; the log starts over.
Folded == {p \in Page : pager.map[p] # None /\ (pager.cut = 0 \/ p < pager.cut)}
\* History: the cache held pages of a transaction under way.
EarlyFold == IF InTxn(pager) /\ \E p \in Folded : pager.mem[p] # pager.map[p]
             THEN {"early_fold"} ELSE {}
Checkpoint ==
    /\ mode = "wal" /\ stage = "idle"
    /\ pager.zero # hdr \/ \E p \in Page : pager.map[p] # None
    /\ hdr' = pager.zero
    /\ len' = Max({pager.n, IF pager.cut = 0 THEN pager.zero.n ELSE 0})
    /\ file' = Trimmed([p \in Page |-> IF p \in Folded THEN pager.mem[p] ELSE file[p]], len')
    /\ pager' = [pager EXCEPT !.cut = 0, !.map = [p \in Page |-> None]]
    /\ scars' = scars \cup EarlyFold
    /\ UNCHANGED <<mode, stage, todo, auto, committed, risk, saved, writes>>

-----------------------------------------------------------------------------
(* Faults, in DELETE mode. *)

\* History: the flush had begun to write.
Torn == IF Flushing THEN risk \cup {"torn"} ELSE {}

\* A write of an autocommit flush fails: the handle is restored from the file
\* and its header, and the file is trimmed to it.
StatementFails ==
    /\ "write_error" \in Faults /\ Flushing /\ auto
    /\ pager' = OpenPager(hdr, Trimmed(file, hdr.n))
    /\ len' = Min({len, hdr.n}) /\ file' = Trimmed(file, len')
    /\ committed' = hdr.n
    /\ stage' = "idle" /\ todo' = {} /\ auto' = FALSE
    /\ risk' = {} /\ scars' = scars \cup Torn
    /\ UNCHANGED <<mode, hdr, saved, writes>>

\* A write of COMMIT fails: the transaction is over, its pages stay in the cache
\* and are no longer in the dirty set.
CommitFails ==
    /\ "write_error" \in Faults /\ Flushing /\ ~auto
    /\ pager' = [pager EXCEPT !.dirty = {}]
    /\ stage' = "idle" /\ todo' = {}
    /\ risk' = {} /\ scars' = scars \cup Torn \cup {"failed_commit"}
    /\ UNCHANGED <<mode, auto, committed, file, len, hdr, saved, writes>>

Kill ==
    /\ "kill" \in Faults /\ mode = "delete" /\ stage # "killed"
    /\ stage' = "killed" /\ todo' = {} /\ auto' = FALSE
    /\ risk' = {} /\ scars' = scars \cup Torn
    /\ UNCHANGED <<mode, pager, committed, file, len, hdr, saved, writes>>

\* The open of a file: refused when it is shorter than its header says; the
\* free count is recounted along a chain that ends.
Recount(h) ==
    LET c == Chain(h.head, file)
    IN IF \A i \in DOMAIN c : c[i] < h.n /\ file[c[i]].kind = "trunk"
       THEN [h EXCEPT !.count = Len(FreeList(c, file))]
       ELSE h
Reopen ==
    /\ stage = "killed" /\ len >= hdr.n
    /\ stage' = "idle" /\ pager' = OpenPager(Recount(hdr), file)
    /\ committed' = hdr.n
    /\ UNCHANGED <<mode, todo, auto, file, len, hdr, risk, scars, saved, writes>>

-----------------------------------------------------------------------------
\* The leaves a mass delete empties, in the order of their rows.
MassDeletes ==
    [K \in SUBSET Page |-> {s \in SeqOf(K, Cardinality(K)) : /\ Len(s) = Cardinality(K)
                                                             /\ IsInjective(s)}]

Next ==
    \/ Insert
    \/ \E c \in Page : Update(c) \/ Delete(c)
    \/ \E K \in (SUBSET Kids) \ {{}} : \E s \in MassDeletes[K] : MassDelete(s)
    \/ Begin \/ Commit \/ Rollback
    \/ WriteNew \/ WriteHeader \/ WriteOld \/ Finish
    \/ AppendFrames \/ Checkpoint
    \/ StatementFails \/ CommitFails \/ Kill \/ Reopen

Spec == Init /\ [][Next]_vars

-----------------------------------------------------------------------------
(* Properties. *)

Content == {Blank} \cup [kind : {"leaf"}, val : {0, 1}] \cup [kind : {"node"}, kids : SUBSET Page]
           \cup [kind : {"trunk"}, next : 0..MaxPages-1, entries : Seq(Page \ {Root})]
Headers == [n : 1..MaxPages, head : 0..MaxPages-1, count : Nat]
Handle == [n : 1..MaxPages, head : 0..MaxPages-1, count : Nat, zero : Headers,
           mem : [Page -> Content], dirty : SUBSET Page, map : [Page -> Content \cup {None}],
           cut : 0..MaxPages, txn : Headers \cup {NoTxn}, undo : [Page -> Content \cup {None}]]

\* The state of the pager, the flush and the file has the shape the code gives
\* it: a cut is never armed above the page count, no trunk lists the page of the
\* tree's node, a flush writes only what is dirty, and there is nothing behind
\* the end of the file.
TypeOK ==
    /\ pager \in Handle /\ pager.cut <= pager.n
    /\ todo \subseteq pager.dirty
    /\ stage \in {"idle", "new", "old", "killed"} /\ auto \in BOOLEAN
    /\ file \in [Page -> Content] /\ hdr \in Headers
    /\ len \in 1..MaxPages /\ committed \in 1..MaxPages
    /\ \A p \in Page : p >= len => file[p] = Blank

Past == risk \cup scars

\* The ordering contract of flush_inner_delete: at every moment, a kill included,
\* the main file is as long as its header claims.  Not so once pages grow back
\* over an armed cut, a rollback trims the file behind a log, or a COMMIT fails
\* and forgets which pages were dirty.
FileCoversHeader == Past \cap {"regrown", "trimmed", "failed_commit"} = {} => len >= hdr.n

FileKids == file[Root].kids

\* The three-phase schedule: what a kill or a failed write leaves is a node
\* whose children are leaves the header counts, as long as no page left the tree
\* or came back to it in the same unit of work.
TreeReadable ==
    mode = "delete" /\ Past \subseteq {"grown", "torn"} =>
        \A p \in FileKids : p < hdr.n /\ p < len /\ file[p].kind = "leaf"

\* Between statements the freelist is disjoint from the tree, holds no page
\* twice, is counted exactly, and the two together are the whole file; until a
\* flush is torn, a cut drops a trunk that the last kept one still names, or
\* pages that grew back over an armed cut are lost.
FreePages(w) == FreeList(TrunkPages(w), w.mem)
PagesAccounted ==
    stage = "idle" /\ Past \cap {"unlinked", "torn"} = {} /\ "regrown" \notin scars =>
        LET f == FreePages(pager)
        IN /\ Sound(pager) /\ IsInjective(f) /\ Len(f) = pager.count
           /\ ToSet(f) \cap ({Root} \cup Kids) = {}
           /\ ToSet(f) \cup {Root} \cup Kids = 1..pager.n-1

\* What is committed is what the media hold, in the log or in the file, in and
\* out of a transaction; in DELETE mode, whenever no flush is under way.
Holds ==
    /\ View(StoredHeader, StoredPages) = saved
    /\ \A p \in DOMAIN saved.pages : pager.map[p] = None => p < len
CommittedIsStored == stage \in {"idle", "killed"} /\ scars \subseteq {"trimmed"} => Holds

\* The same whatever came before: a cut armed by a committed mass delete goes
\* with the file, never with pages committed since.
StoredEver == stage = "idle" /\ scars \cap {"early_fold", "unlinked"} = {} => Holds

\* ROLLBACK gives back the database of BEGIN, which is the last one committed;
\* until a flush is torn or a commit leaves the file short of it.
RollbackRestores ==
    [][Rollback /\ scars \cap {"torn", "regrown", "unlinked"} = {} => Live(pager') = saved]_vars
=============================================================================
