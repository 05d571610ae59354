-------------------------- MODULE ConcurrentProofs --------------------------
(***************************************************************************)
(* BEGIN CONCURRENT keeps the promise of SnapshotStore while the tree has  *)
(* its shape: transactions that insert, update, read, scan and nest        *)
(* savepoints in leaves with room for their rows, for any number of        *)
(* connections, rows, values, statements and savepoints.                   *)
(*                                                                         *)
(* The invariant gives every open transaction ONE committed table, tab,    *)
(* that all it was told is true of.  It ties tab to the shadows (Image,    *)
(* Based), to what a savepoint has captured (Saves), to the journal that a *)
(* merge would replay (Journal), and to the stamps: as long as those of    *)
(* what was read have not moved, the committed rows are still tab's        *)
(* (Firm, Tracked, Since).                                                 *)
(***************************************************************************)
EXTENDS Concurrent, FiniteSetTheorems, WellFoundedInduction, SequenceTheorems, TLAPS

-----------------------------------------------------------------------------
(* Workloads that leave the shape of the tree alone. *)

\* No leaf is emptied (maybe_recycle_empty_child has nothing to do) and none
\* overflows (split_leaf is not called): the root routes as it did at first.
InPlace == (\A r \in Row : <<"delete", r>> \notin Work) /\ Cardinality(Row) <= LeafCap

\* What a cell holds; the pages, and the leaf of a row.
Cell == Val \cup {Seed, Absent}
Leaves == {2, 3}
Top == {1, 2, 3}
Home(r) == IF r <= Boundary THEN 2 ELSE 3
Route == [r \in Row |-> Home(r)]

\* The bytes of leaf p: cells of its rows only.
LeafImage(m, p) == m \in [Row -> Cell] /\ \A r \in Row : Home(r) # p => m[r] = Absent

\* The committed state a transaction can tell: pages, stamps, epoch.
Db == [page |-> page, stamps |-> stamps, rows |-> row_stamps, epoch |-> commit_epoch]
Dbs == [page : [Page -> [Row -> Nat]], stamps : [Page -> Nat], rows : [Row -> Nat], epoch : Nat]
Sound(d) ==
    /\ d \in Dbs /\ d.page[Root] = Route /\ \A p \in Leaves : LeafImage(d.page[p], p)
    /\ d.stamps[Root] = 0 /\ \A p \in Page : d.stamps[p] <= d.epoch
    /\ d.epoch # 0 /\ \A r \in Row : d.rows[r] <= d.epoch

-----------------------------------------------------------------------------
(* Transactions. *)

\* Page copies, journal entries, savepoint levels, transactions and clients.
Copies == UNION {[D -> [Row -> Nat]] : D \in SUBSET Top}
Entry == [kind : {"insert", "replace"}, row : Row, val : Val, ok : {TRUE}]
Level == [undo : Copies, allocated_mark : {0}, freed_mark : {0}, journal_mark : Nat]
Txns ==
    [begin_epoch : Nat, begin_n_pages : {4}, shadows : Copies, dirtied : SUBSET Leaves,
     decision_reads : SUBSET {1}, read_stamps : [Page -> Nat], shadow_epoch : [Page -> Nat],
     page_kind : [Page -> {"none", "interior", "leaf"}], sem_pages : SUBSET Leaves,
     sem_rows : [Row -> Nat], view_advanced : BOOLEAN, row_journal : Seq(Entry),
     allocated : {<<>>}, freed : {<<>>}, discarded : {<<>>}, savepoints : Seq(Level),
     err : BOOLEAN, ops : Nat]

Partial == [Row -> Cell \cup {Unknown}]
Nothing == [r \in Row |-> Unknown]
Clients ==
    [open : {TRUE}, cands : SUBSET [Row -> Cell], torn : {FALSE}, saves : Seq(Partial),
     seen : Partial, hit : {Nothing}, own : Partial]

\* The pages T has had a shadow of.
Fetched(T) == {p \in Top : T.page_kind[p] # "none"}

\* A page T has fetched has its stamp, or one from after T's BEGIN.
Kinds(T, d) ==
    /\ T.begin_epoch <= d.epoch
    /\ DOMAIN T.shadows \cup T.sem_pages \subseteq Fetched(T) /\ T.dirtied \subseteq DOMAIN T.shadows
    /\ \A i \in 1 .. Len(T.savepoints) : DOMAIN T.savepoints[i].undo \subseteq Fetched(T)
    /\ \A p \in Fetched(T) :
         /\ T.page_kind[p] = (IF p = 1 THEN "interior" ELSE "leaf")
         /\ T.shadow_epoch[p] # 0 /\ T.shadow_epoch[p] <= d.epoch
         /\ T.read_stamps[p] <= d.stamps[p]
         /\ d.stamps[p] = T.read_stamps[p] \/ d.stamps[p] > T.begin_epoch
    /\ \A r \in Row : T.sem_rows[r] <= d.epoch

\* The stamps say that no commit has changed row r of leaf p since T has it.
Firm(T, d, p, r) == d.stamps[p] = T.read_stamps[p] \/ d.rows[r] <= T.shadow_epoch[p]

\* The bytes m of page p are own's rows on top of what T has fetched; tab is
\* the committed table T has been told of.
Based(T, c, tab, d, p, r, v) ==
    /\ Firm(T, d, p, r) => v = d.page[p][r]
    /\ ~T.view_advanced \/ Firm(T, d, p, r) => v = tab[r]
    /\ \E old \in c.cands : v = old[r]
Image(T, c, tab, d, m, own, p) ==
    IF p = 1 THEN m = Route
    ELSE /\ LeafImage(m, p)
         /\ \A r \in Row : Home(r) = p =>
              IF own[r] # Unknown THEN m[r] = own[r] ELSE Based(T, c, tab, d, p, r, m[r])

\* Shadows, and what the savepoints have captured, are such bytes.
Images(T, c, tab, d) ==
    /\ \A p \in DOMAIN T.shadows : Image(T, c, tab, d, T.shadows[p], c.own, p)
    /\ \A i \in 1 .. Len(T.savepoints) : \A p \in DOMAIN T.savepoints[i].undo :
          Image(T, c, tab, d, T.savepoints[i].undo[p], c.saves[i], p)

\* The rows journal j says were written, and its last words on them.
RowsOf(j) == {j[k].row : k \in 1 .. Len(j)}
Says(j, own) ==
    \A r \in Row : IF r \in RowsOf(j)
                   THEN \E k \in 1 .. Len(j) : /\ j[k].row = r /\ own[r] = j[k].val
                                               /\ \A l \in 1 .. Len(j) : l > k => j[l].row # r
                   ELSE own[r] = Unknown

\* A savepoint has captured every page written since, and remembers the journal.
Saves(T, c) ==
    /\ Len(T.savepoints) = Len(c.saves)
    /\ \A i \in 1 .. Len(T.savepoints) :
         /\ \A r \in Row : Home(r) \notin DOMAIN T.savepoints[i].undo => c.saves[i][r] = c.own[r]
         /\ T.savepoints[i].journal_mark <= Len(T.row_journal)
         /\ Says(SubSeq(T.row_journal, 1, T.savepoints[i].journal_mark), c.saves[i])
         /\ \A j \in 1 .. i - 1 :
              /\ DOMAIN T.savepoints[i].undo \subseteq DOMAIN T.savepoints[j].undo
              /\ T.savepoints[j].journal_mark <= T.savepoints[i].journal_mark

\* The journal says what was written; a row it replaces first was there.
Journal(T, c) ==
    /\ Says(T.row_journal, c.own)
    /\ \A k \in 1 .. Len(T.row_journal) : T.row_journal[k].kind = "replace" =>
          \/ \E l \in 1 .. k - 1 : T.row_journal[l].row = T.row_journal[k].row
          \/ c.seen[T.row_journal[k].row] \notin {Unknown, Absent}
    /\ \A r \in Row : c.own[r] # Unknown => T.sem_rows[r] # 0

\* A write whose page is not dirty is one that changed nothing.
NetZero(T, c, d) ==
    \A r \in Row : /\ c.own[r] # Unknown /\ Home(r) \notin T.dirtied
                   /\ d.stamps[Home(r)] <= T.begin_epoch \/ d.rows[r] <= T.sem_rows[r]
                   => d.page[Home(r)][r] = c.own[r]

\* What was read can be validated by the row's stamp or by the page's.
ByRow(T, d, r, v) ==
    T.sem_rows[r] # 0 /\ (d.rows[r] <= T.sem_rows[r] => d.page[Home(r)][r] = v)
ByPage(T, d, r, v) ==
    /\ Home(r) \in T.sem_pages
    /\ d.stamps[Home(r)] = T.read_stamps[Home(r)] => d.page[Home(r)][r] = v
Tracked(T, c, d) ==
    \A r \in Row : c.seen[r] # Unknown => ByRow(T, d, r, c.seen[r]) \/ ByPage(T, d, r, c.seen[r])

\* tab is no older than BEGIN: it has what no commit has stamped since.
Since(T, tab, d) == \A r \in Row : d.stamps[Home(r)] <= T.begin_epoch => d.page[Home(r)][r] = tab[r]

\* The table of the committed pages.
TableIn(d) == [r \in Row |-> d.page[Home(r)][r]]

\* An open transaction, with the table it has been told of.
Works(T, c, tab, d) ==
    /\ T \in Txns /\ c \in Clients /\ tab \in c.cands /\ TableIn(d) \in c.cands
    /\ Kinds(T, d) /\ Images(T, c, tab, d) /\ Saves(T, c) /\ Journal(T, c)
    /\ NetZero(T, c, d) /\ Tracked(T, c, d) /\ Since(T, tab, d)
    /\ \A r \in Row : c.seen[r] \in {Unknown, tab[r]}

\* A transaction that has not read anything.
Fresh(T, c, d) ==
    /\ T.begin_epoch \in 0 .. d.epoch /\ T = NewTxn(T.begin_epoch, 4)
    /\ c.cands \subseteq [Row -> Cell] /\ TableIn(d) \in c.cands
    /\ c = [Store!Idle EXCEPT !.open = TRUE, !.cands = c.cands]

\* What connection t's place says of its transaction T and its client c.
Pcs == {"idle", "pages", "epoch", "open", "ending"}
Slot(at, T, c, d) ==
    /\ at \in {"idle", "ending"} => T = NewTxn(0, 0) /\ c = Store!Idle
    /\ at \in {"pages", "epoch"} => Fresh(T, c, d)
    /\ at = "open" => T.err = FALSE /\ \E tab \in c.cands : Works(T, c, tab, d)

\* The invariant of the induction.
Inv ==
    /\ Sound(Db) /\ n_pages = 4 /\ committed_n_pages = 4 /\ freelist = [p \in Page |-> 0]
    /\ \A p \in Page \ Top : page[p] = Zeroed
    /\ pc \in [Txn -> Pcs] /\ txn = [t \in Txn |-> txn[t]] /\ client = [t \in Txn |-> client[t]]
    /\ \A t \in Txn : Slot(pc[t], txn[t], client[t], Db)

-----------------------------------------------------------------------------
(* Numbers and constants. *)

\* A set that holds 0 and with every number the next one holds them all.
LEMMA NatSet ==
  ASSUME NEW S, 0 \in S, \A n \in Nat : n \in S => n + 1 \in S
  PROVE  Nat \subseteq S
  <1>1. SUFFICES ASSUME Nat \ S # {} PROVE FALSE
    OBVIOUS
  <1> DEFINE U == Nat \ S
  <1>2. PICK x \in U : \A y \in U : ~(<<y, x>> \in OpToRel(<, Nat))
    <2>1. U \subseteq Nat /\ U # {}
      BY <1>1
    <2> HIDE DEF U
    <2> QED BY <2>1, WFMin, NatLessThanWellFounded
  <1>3. x # 0 /\ x - 1 \in Nat /\ x - 1 < x
    OBVIOUS
  <1>4. x - 1 \notin U
    BY <1>2, <1>3 DEF OpToRel
  <1>5. x - 1 \in S /\ x = (x - 1) + 1
    BY <1>3, <1>4
  <1> QED BY <1>3, <1>5

\* A finite set of numbers has a largest one.
LEMMA MaxIs ==
  ASSUME NEW S \in SUBSET Nat, S # {}, IsFiniteSet(S)
  PROVE  Max(S) \in S /\ \A y \in S : y <= Max(S)
  <1> DEFINE Has(X) == \E x \in X : \A y \in X : y <= x
             N == {n \in Nat : \A X \in SUBSET Nat : IsFiniteSet(X) /\ Cardinality(X) = n + 1 => Has(X)}
  <1>1. 0 \in N
    <2> SUFFICES ASSUME NEW X \in SUBSET Nat, IsFiniteSet(X), Cardinality(X) = 1 PROVE Has(X)
      OBVIOUS
    <2>1. PICK x : X = {x}
      BY FS_Singleton
    <2> QED BY <2>1
  <1>2. ASSUME NEW n \in Nat, n \in N PROVE n + 1 \in N
    <2> SUFFICES ASSUME NEW X \in SUBSET Nat, IsFiniteSet(X), Cardinality(X) = n + 2 PROVE Has(X)
      OBVIOUS
    <2>1. X # {}
      BY FS_EmptySet
    <2>2. PICK x \in X : TRUE
      BY <2>1
    <2>3. IsFiniteSet(X \ {x}) /\ Cardinality(X \ {x}) = n + 1
      BY <2>2, FS_RemoveElement
    <2>4. Has(X \ {x})
      BY <1>2, <2>3
    <2>5. PICK z \in X \ {x} : \A y \in X \ {x} : y <= z
      BY <2>4
    <2>6. CASE x <= z
      BY <2>5, <2>6
    <2>7. CASE ~(x <= z)
      <3>1. z \in Nat /\ x \in Nat
        BY <2>2, <2>5
      <3>2. \A y \in X : y \in Nat /\ (y = x \/ y <= z)
        BY <2>5
      <3>3. \A y \in X : y <= x
        BY <2>7, <3>1, <3>2
      <3> QED BY <2>2, <3>3
    <2> QED BY <2>6, <2>7
  <1>3. Nat \subseteq N
    <2> HIDE DEF N
    <2> QED BY <1>1, <1>2, NatSet
  <1>4. Cardinality(S) \in Nat /\ Cardinality(S) # 0
    BY FS_EmptySet, FS_CardinalityType
  <1>5. Has(S)
    <2>1. Cardinality(S) - 1 \in N
      BY <1>3, <1>4
    <2> QED BY <1>4, <2>1
  <1>6. PICK x \in S : \A y \in S : x >= y
    BY <1>5
  <1>7. Max(S) \in S /\ \A y \in S : Max(S) >= y
    BY <1>6 DEF Max
  <1> QED BY <1>7

\* The mark of what was not read or written is no cell and no page.
LEMMA UnknownIs ==
  /\ Unknown \in Nat /\ Unknown \notin Cell /\ Unknown > MaxPages
  /\ Cell \subseteq Nat /\ Val \subseteq Cell /\ Absent \notin Val /\ Absent # Unknown
  <1> DEFINE S == Val \cup {Seed}
  <1>1. S \subseteq Nat /\ 0 \notin S /\ S # {} /\ IsFiniteSet(S) /\ MaxPages \in Nat
    BY ConcurrentAssumption, FS_AddElement
  <1> HIDE DEF S
  <1>2. Max(S) \in S /\ \A y \in S : y <= Max(S)
    BY <1>1, MaxIs
  <1>3. Unknown = MaxPages + Max(S) + 1
    BY DEF Unknown, S
  <1>4. Max(S) \in Nat
    BY <1>1, <1>2
  <1>5. Unknown \in Nat /\ Unknown > MaxPages /\ Unknown # 0 /\ \A y \in S : y < Unknown
    BY <1>1, <1>2, <1>3, <1>4
  <1>6. Cell = S \cup {0}
    BY DEF Cell, S, Absent
  <1>7. \A y \in S : y # Unknown
    BY <1>1, <1>5
  <1> QED BY <1>1, <1>5, <1>6, <1>7 DEF Absent, S

\* The first pages, and where the rows are.
LEMMA PagesAre ==
  /\ Root = 1 /\ Root \in Page /\ Leaves \subseteq Page /\ Top \subseteq Page /\ 1 \in Top
  /\ \A p \in Top : p \in Nat /\ p < 4 /\ (p = 1 \/ p \in Leaves)
  /\ \A p \in Leaves : p \in Top /\ p # 1
  /\ Page \subseteq Nat /\ Row \subseteq Nat /\ Boundary \in Row /\ Boundary \in Nat
  /\ \A r \in Row : Home(r) \in Leaves /\ Home(r) # Root
  BY ConcurrentAssumption DEF Root, Page, Leaves, Home, Top

\* A leaf is never taken for a wiped page, nor is the interior page.
LEMMA NotZeroed ==
  /\ \A m, p : LeafImage(m, p) => m # Zeroed
  /\ Route # Zeroed /\ Route \in [Row -> Nat]
  <1>1. Boundary \in Row
    BY PagesAre
  <1>2. Zeroed[Boundary] = Unknown
    BY <1>1 DEF Zeroed
  <1>3. ASSUME NEW m, NEW p, LeafImage(m, p) PROVE m # Zeroed
    <2>1. m[Boundary] \in Cell
      BY <1>1, <1>3 DEF LeafImage
    <2> QED BY <1>2, <2>1, UnknownIs
  <1>4. Route[Boundary] \in {2, 3} /\ MaxPages \in Nat /\ MaxPages > 3
    BY <1>1, PagesAre, ConcurrentAssumption DEF Route, Leaves
  <1>5. Route # Zeroed
    BY <1>2, <1>4, UnknownIs
  <1>6. Route \in [Row -> Nat]
    BY PagesAre DEF Route, Leaves
  <1> QED BY <1>3, <1>5, <1>6

-----------------------------------------------------------------------------
(* Records. *)

\* Sets of page copies.
LEMMA CopiesAre ==
  /\ \A s \in Copies : /\ DOMAIN s \subseteq Top /\ s \in [DOMAIN s -> [Row -> Nat]]
                       /\ \A p \in DOMAIN s : s[p] \in [Row -> Nat]
  /\ \A D \in SUBSET Top : \A s \in [D -> [Row -> Nat]] : s \in Copies
  /\ <<>> \in Copies /\ DOMAIN <<>> = {}
  <1>1. ASSUME NEW s \in Copies
        PROVE  /\ DOMAIN s \subseteq Top /\ s \in [DOMAIN s -> [Row -> Nat]]
               /\ \A p \in DOMAIN s : s[p] \in [Row -> Nat]
    <2>1. PICK D \in SUBSET Top : s \in [D -> [Row -> Nat]]
      BY DEF Copies
    <2> QED BY <2>1
  <1>2. ASSUME NEW D \in SUBSET Top, NEW s \in [D -> [Row -> Nat]] PROVE s \in Copies
    BY DEF Copies
  <1>3. <<>> \in [{} -> [Row -> Nat]] /\ {} \in SUBSET Top /\ DOMAIN <<>> = {}
    OBVIOUS
  <1> QED BY <1>1, <1>2, <1>3

\* One more page, and fewer pages.
LEMMA WithIs ==
  ASSUME NEW s \in Copies, NEW p \in Top, NEW m \in [Row -> Nat]
  PROVE  /\ With(s, p, m) \in Copies /\ DOMAIN With(s, p, m) = DOMAIN s \cup {p}
         /\ With(s, p, m)[p] = m /\ \A q \in DOMAIN s : q # p => With(s, p, m)[q] = s[q]
  <1>1. DOMAIN s \subseteq Top /\ \A q \in DOMAIN s : s[q] \in [Row -> Nat]
    BY CopiesAre
  <1>2. DOMAIN With(s, p, m) = DOMAIN s \cup {p} /\ \A q \in DOMAIN s \cup {p} : With(s, p, m)[q] = IF q = p THEN m ELSE s[q]
    BY DEF With
  <1>3. With(s, p, m) \in [DOMAIN s \cup {p} -> [Row -> Nat]]
    BY <1>1 DEF With
  <1>4. DOMAIN s \cup {p} \in SUBSET Top
    BY <1>1
  <1>5. With(s, p, m) \in Copies
    BY <1>3, <1>4, CopiesAre
  <1> QED BY <1>2, <1>5

\* The fields of a transaction.
LEMMA TxnIs ==
  ASSUME NEW T \in Txns
  PROVE  /\ T.begin_epoch \in Nat /\ T.begin_n_pages = 4 /\ T.shadows \in Copies
         /\ T.dirtied \subseteq Leaves /\ T.decision_reads \subseteq {1}
         /\ T.read_stamps \in [Page -> Nat] /\ T.shadow_epoch \in [Page -> Nat]
         /\ T.page_kind \in [Page -> {"none", "interior", "leaf"}]
         /\ T.sem_pages \subseteq Leaves /\ T.sem_rows \in [Row -> Nat]
         /\ T.view_advanced \in BOOLEAN /\ T.row_journal \in Seq(Entry)
         /\ T.allocated = <<>> /\ T.freed = <<>> /\ T.discarded = <<>>
         /\ T.savepoints \in Seq(Level) /\ T.err \in BOOLEAN /\ T.ops \in Nat
         /\ DOMAIN T.shadows \subseteq Top /\ \A p \in DOMAIN T.shadows : T.shadows[p] \in [Row -> Nat]
  BY CopiesAre DEF Txns

\* A level of the savepoint stack.
LEMMA LevelIs ==
  ASSUME NEW l \in Level
  PROVE  /\ l.undo \in Copies /\ l.allocated_mark = 0 /\ l.freed_mark = 0 /\ l.journal_mark \in Nat
         /\ DOMAIN l.undo \subseteq Top /\ \A p \in DOMAIN l.undo : l.undo[p] \in [Row -> Nat]
         /\ \A s \in Copies : /\ [l EXCEPT !.undo = s] \in Level /\ [l EXCEPT !.undo = s].undo = s
                              /\ [l EXCEPT !.undo = s].journal_mark = l.journal_mark
  BY CopiesAre DEF Level

\* The two transactions differ in savepoints and err at most.
Alike(T, A) ==
    /\ A.begin_epoch = T.begin_epoch /\ A.begin_n_pages = T.begin_n_pages
    /\ A.shadows = T.shadows /\ A.dirtied = T.dirtied /\ A.decision_reads = T.decision_reads
    /\ A.read_stamps = T.read_stamps /\ A.shadow_epoch = T.shadow_epoch /\ A.page_kind = T.page_kind
    /\ A.sem_pages = T.sem_pages /\ A.sem_rows = T.sem_rows /\ A.view_advanced = T.view_advanced
    /\ A.row_journal = T.row_journal

\* Setting one field leaves the others, and the type.
LEMMA SetSavepoints ==
  ASSUME NEW T \in Txns, NEW s \in Seq(Level)
  PROVE  LET A == [T EXCEPT !.savepoints = s]
         IN  /\ A \in Txns /\ A.savepoints = s /\ A.err = T.err /\ A.ops = T.ops /\ Alike(T, A)
  BY DEF Txns, Alike

\* The same of the error,
LEMMA SetErr ==
  ASSUME NEW T \in Txns, NEW b \in BOOLEAN
  PROVE  LET A == [T EXCEPT !.err = b]
         IN  /\ A \in Txns /\ A.savepoints = T.savepoints /\ A.err = b /\ A.ops = T.ops /\ Alike(T, A)
  BY DEF Txns, Alike

\* and of the error with the count of statements.
LEMMA SetOps ==
  ASSUME NEW T \in Txns, NEW b \in BOOLEAN
  PROVE  LET A == [T EXCEPT !.err = b, !.ops = @ + 1]
         IN  /\ A \in Txns /\ A.savepoints = T.savepoints /\ A.err = b /\ Alike(T, A)
  <1> DEFINE n == T.ops + 1
             E == [T EXCEPT !.err = b]
             A == [E EXCEPT !.ops = n]
  <1>1. E \in Txns /\ E.savepoints = T.savepoints /\ E.err = b /\ Alike(T, E)
    BY SetErr
  <1>2. n \in Nat /\ [T EXCEPT !.err = b, !.ops = @ + 1] = A
    BY DEF Txns
  <1> HIDE DEF n, E
  <1>3. A \in Txns /\ A.savepoints = E.savepoints /\ A.err = E.err /\ Alike(E, A)
    BY <1>1, <1>2 DEF Txns, Alike
  <1> HIDE DEF A
  <1> QED BY <1>1, <1>2, <1>3 DEF Alike

\* A savepoint captures a page that has a shadow.
LEMMA CaptureIs ==
  ASSUME NEW T \in Txns, NEW p \in DOMAIN T.shadows
  PROVE  LET A == CaptureShadowUndo(T, p)
         IN  /\ A \in Txns /\ Alike(T, A) /\ A.err = T.err /\ A.ops = T.ops
             /\ Len(A.savepoints) = Len(T.savepoints)
             /\ \A i \in 1 .. Len(T.savepoints) :
                  /\ A.savepoints[i].journal_mark = T.savepoints[i].journal_mark
                  /\ DOMAIN A.savepoints[i].undo = DOMAIN T.savepoints[i].undo \cup {p}
                  /\ \A q \in DOMAIN T.savepoints[i].undo :
                        A.savepoints[i].undo[q] = T.savepoints[i].undo[q]
                  /\ p \notin DOMAIN T.savepoints[i].undo => A.savepoints[i].undo[p] = T.shadows[p]
  <1> DEFINE f(i) == IF ExistedAt(T, T.savepoints[i], p) /\ p \notin DOMAIN T.savepoints[i].undo
                     THEN [T.savepoints[i] EXCEPT !.undo = With(T.savepoints[i].undo, p, T.shadows[p])]
                     ELSE T.savepoints[i]
             s == [i \in DOMAIN T.savepoints |-> f(i)]
             A == CaptureShadowUndo(T, p)
  <1>1. p \in Top /\ T.shadows[p] \in [Row -> Nat] /\ T.begin_n_pages = 4 /\ p < 4
    BY TxnIs, PagesAre
  <1>2. /\ T.savepoints \in Seq(Level) /\ DOMAIN T.savepoints = 1 .. Len(T.savepoints)
        /\ Len(T.savepoints) \in Nat
    BY TxnIs
  <1>3. ASSUME NEW i \in 1 .. Len(T.savepoints)
        PROVE  /\ f(i) \in Level /\ f(i).journal_mark = T.savepoints[i].journal_mark
               /\ DOMAIN f(i).undo = DOMAIN T.savepoints[i].undo \cup {p}
               /\ \A q \in DOMAIN T.savepoints[i].undo : f(i).undo[q] = T.savepoints[i].undo[q]
               /\ p \notin DOMAIN T.savepoints[i].undo => f(i).undo[p] = T.shadows[p]
    <2> DEFINE l == T.savepoints[i]
               w == With(l.undo, p, T.shadows[p])
    <2>1. l \in Level
      BY <1>2
    <2>2. ExistedAt(T, l, p)
      BY <1>1 DEF ExistedAt
    <2>3. l.undo \in Copies
      BY <2>1, LevelIs
    <2>4. /\ w \in Copies /\ DOMAIN w = DOMAIN l.undo \cup {p}
          /\ w[p] = T.shadows[p] /\ \A q \in DOMAIN l.undo : q # p => w[q] = l.undo[q]
      BY <1>1, <2>3, WithIs
    <2>5. f(i) = IF p \notin DOMAIN l.undo THEN [l EXCEPT !.undo = w] ELSE l
      BY <2>2
    <2> HIDE DEF l, w, f
    <2>6. [l EXCEPT !.undo = w] \in Level /\ [l EXCEPT !.undo = w].undo = w
          /\ [l EXCEPT !.undo = w].journal_mark = l.journal_mark
      BY <2>1, <2>4, LevelIs
    <2>7. CASE p \notin DOMAIN l.undo
      BY <2>4, <2>5, <2>6, <2>7 DEF l
    <2>8. CASE p \in DOMAIN l.undo
      BY <2>1, <2>5, <2>8 DEF l
    <2> QED BY <2>7, <2>8
  <1>5. A = [T EXCEPT !.savepoints = s]
    BY DEF CaptureShadowUndo, Captured
  <1> HIDE DEF f
  <1>4. s \in Seq(Level) /\ Len(s) = Len(T.savepoints) /\ \A i \in 1 .. Len(T.savepoints) : s[i] = f(i)
    BY <1>2, <1>3
  <1> HIDE DEF s, A
  <1>6. A \in Txns /\ A.savepoints = s /\ A.err = T.err /\ A.ops = T.ops /\ Alike(T, A)
    BY <1>4, <1>5, SetSavepoints
  <1> QED BY <1>3, <1>4, <1>6 DEF A

-----------------------------------------------------------------------------
(* Fetching pages. *)

\* Pages and rows of a committed state.
LEMMA DbIs ==
  ASSUME NEW d, Sound(d)
  PROVE  /\ d.page \in [Page -> [Row -> Nat]] /\ d.stamps \in [Page -> Nat]
         /\ d.rows \in [Row -> Nat] /\ d.epoch \in Nat /\ d.epoch # 0
         /\ d.page[1] = Route /\ \A p \in Leaves : LeafImage(d.page[p], p)
         /\ d.stamps[1] = 0 /\ (\A p \in Page : d.stamps[p] <= d.epoch)
         /\ (\A r \in Row : d.rows[r] <= d.epoch)
         /\ TableIn(d) \in [Row -> Cell]
  <1>1. d \in Dbs /\ d.page[Root] = Route /\ (\A p \in Leaves : LeafImage(d.page[p], p))
        /\ d.stamps[Root] = 0 /\ (\A p \in Page : d.stamps[p] <= d.epoch)
        /\ d.epoch # 0 /\ \A r \in Row : d.rows[r] <= d.epoch
    BY DEF Sound
  <1>2. \A r \in Row : d.page[Home(r)][r] \in Cell
    BY <1>1, PagesAre DEF LeafImage
  <1> QED BY <1>1, <1>2, PagesAre DEF Dbs, TableIn

\* What Works is made of.
LEMMA WorksAre ==
  ASSUME NEW T, NEW c, NEW tab, NEW d
  PROVE  Works(T, c, tab, d) <=>
           /\ T \in Txns /\ c \in Clients /\ tab \in c.cands /\ TableIn(d) \in c.cands
           /\ Kinds(T, d) /\ Images(T, c, tab, d) /\ Saves(T, c) /\ Journal(T, c)
           /\ NetZero(T, c, d) /\ Tracked(T, c, d) /\ Since(T, tab, d)
           /\ \A r \in Row : c.seen[r] \in {Unknown, tab[r]}
  BY DEF Works

\* The fields of a client.
LEMMA ClientIs ==
  ASSUME NEW c \in Clients
  PROVE  /\ c.open = TRUE /\ c.cands \subseteq [Row -> Cell] /\ c.torn = FALSE /\ c.saves \in Seq(Partial)
         /\ c.seen \in Partial /\ c.hit = Nothing /\ c.own \in Partial
         /\ \A r \in Row : c.seen[r] \in Cell \cup {Unknown} /\ c.own[r] \in Cell \cup {Unknown}
  BY DEF Clients, Partial

\* An image is one for every transaction with the same stamps.
LEMMA ImageAlike ==
  ASSUME NEW T, NEW A, NEW c, NEW tab, NEW d, NEW m, NEW own, NEW p,
         Alike(T, A), Image(T, c, tab, d, m, own, p)
  PROVE  Image(A, c, tab, d, m, own, p)
  BY DEF Alike, Image, Based, Firm

\* The same of all the images of a transaction,
LEMMA ImagesAlike ==
  ASSUME NEW T, NEW A, NEW c, NEW tab, NEW d,
         Alike(T, A), A.savepoints = T.savepoints, Images(T, c, tab, d)
  PROVE  Images(A, c, tab, d)
  <1>1. A.shadows = T.shadows
    BY DEF Alike
  <1> QED BY <1>1, ImageAlike DEF Images

\* All but the savepoints: the rest of a working transaction.
Core(T, c, tab, d) ==
    /\ c \in Clients /\ tab \in c.cands /\ TableIn(d) \in c.cands /\ Journal(T, c)
    /\ NetZero(T, c, d) /\ Tracked(T, c, d) /\ Since(T, tab, d)
    /\ \A r \in Row : c.seen[r] \in {Unknown, tab[r]}

\* and of the rest of what is known of it.
LEMMA CoreAlike ==
  ASSUME NEW T, NEW A, NEW c, NEW tab, NEW d, Alike(T, A), Core(T, c, tab, d)
  PROVE  Core(A, c, tab, d)
  BY DEF Alike, Core, Journal, NetZero, Tracked, ByRow, ByPage, Since

\* A working transaction is its core, its pages and its savepoints.
LEMMA WorksCore ==
  ASSUME NEW T, NEW c, NEW tab, NEW d
  PROVE  Works(T, c, tab, d) <=>
           T \in Txns /\ Core(T, c, tab, d) /\ Kinds(T, d) /\ Images(T, c, tab, d) /\ Saves(T, c)
  BY DEF Works, Core

\* A transaction that differs in its error or its count works as well.
LEMMA WorksAlike ==
  ASSUME NEW T, NEW A \in Txns, NEW c, NEW tab, NEW d,
         Alike(T, A), A.savepoints = T.savepoints, Works(T, c, tab, d)
  PROVE  Works(A, c, tab, d)
  <1>1. T \in Txns /\ Core(T, c, tab, d) /\ Kinds(T, d) /\ Images(T, c, tab, d) /\ Saves(T, c)
    BY WorksCore
  <1>2. Core(A, c, tab, d) /\ Images(A, c, tab, d)
    BY <1>1, CoreAlike, ImagesAlike
  <1>3. Kinds(A, d)
    BY <1>1 DEF Kinds, Fetched, Alike
  <1>4. Saves(A, c)
    BY <1>1 DEF Saves, Alike
  <1> QED BY <1>2, <1>3, <1>4, WorksCore

\* Every savepoint has page p.
Covered(T, p) == \A i \in 1 .. Len(T.savepoints) : p \in DOMAIN T.savepoints[i].undo

\* capture_shadow_undo: what is captured first is what the savepoint saved.
LEMMA CaptureWorks ==
  ASSUME NEW T, NEW c, NEW tab, NEW d, Works(T, c, tab, d), NEW p \in DOMAIN T.shadows
  PROVE  LET A == CaptureShadowUndo(T, p)
         IN  /\ Works(A, c, tab, d) /\ Covered(A, p) /\ A.err = T.err /\ Alike(T, A)
             /\ \A q \in Top : Covered(T, q) => Covered(A, q)
  <1> DEFINE A == CaptureShadowUndo(T, p)
  <1>1. T \in Txns /\ Core(T, c, tab, d) /\ Kinds(T, d) /\ Images(T, c, tab, d) /\ Saves(T, c)
    BY WorksCore
  <1>2. /\ A \in Txns /\ Alike(T, A) /\ A.err = T.err
        /\ Len(A.savepoints) = Len(T.savepoints)
        /\ \A i \in 1 .. Len(T.savepoints) :
             /\ A.savepoints[i].journal_mark = T.savepoints[i].journal_mark
             /\ DOMAIN A.savepoints[i].undo = DOMAIN T.savepoints[i].undo \cup {p}
             /\ \A q \in DOMAIN T.savepoints[i].undo :
                   A.savepoints[i].undo[q] = T.savepoints[i].undo[q]
             /\ p \notin DOMAIN T.savepoints[i].undo => A.savepoints[i].undo[p] = T.shadows[p]
    BY <1>1, CaptureIs
  <1> HIDE DEF A
  <1>3. Core(A, c, tab, d)
    BY <1>1, <1>2, CoreAlike
  <1>4. p \in Top /\ p \in Fetched(T)
    BY <1>1, TxnIs DEF Kinds
  <1>5. Kinds(A, d)
    <2>1. Fetched(A) = Fetched(T)
      BY <1>2 DEF Fetched, Alike
    <2>2. \A i \in 1 .. Len(A.savepoints) : DOMAIN A.savepoints[i].undo \subseteq Fetched(A)
      BY <1>1, <1>2, <1>4, <2>1 DEF Kinds
    <2> QED BY <1>1, <1>2, <2>1, <2>2 DEF Kinds, Alike
  <1>6. Images(A, c, tab, d)
    <2>1. A.shadows = T.shadows
      BY <1>2 DEF Alike
    <2>2. \A q \in DOMAIN A.shadows : Image(A, c, tab, d, A.shadows[q], c.own, q)
      BY <1>1, <1>2, <2>1, ImageAlike DEF Images
    <2>3. ASSUME NEW i \in 1 .. Len(A.savepoints), NEW q \in DOMAIN A.savepoints[i].undo
          PROVE  Image(A, c, tab, d, A.savepoints[i].undo[q], c.saves[i], q)
      <3>1. CASE q \in DOMAIN T.savepoints[i].undo
        <4>1. Image(T, c, tab, d, T.savepoints[i].undo[q], c.saves[i], q)
          BY <1>1, <1>2, <3>1 DEF Images
        <4> QED BY <1>2, <3>1, <4>1, ImageAlike
      <3>2. CASE q \notin DOMAIN T.savepoints[i].undo
        <4>1. q = p /\ A.savepoints[i].undo[q] = T.shadows[p]
          BY <1>2, <3>2
        <4>2. Image(A, c, tab, d, T.shadows[p], c.own, p)
          BY <2>1, <2>2
        <4>3. \A r \in Row : Home(r) = p => c.saves[i][r] = c.own[r]
          BY <1>1, <1>2, <3>2, <4>1 DEF Saves
        <4>4. Image(A, c, tab, d, T.shadows[p], c.saves[i], p)
          BY <4>2, <4>3 DEF Image
        <4> QED BY <4>1, <4>4
      <3> QED BY <3>1, <3>2
    <2> QED BY <2>2, <2>3 DEF Images
  <1>7. Saves(A, c)
    <2>1. A.row_journal = T.row_journal
      BY <1>2 DEF Alike
    <2>2. \A i \in 1 .. Len(T.savepoints) : \A j \in 1 .. i - 1 : j \in 1 .. Len(T.savepoints)
      BY <1>1, TxnIs
    <2> QED BY <1>1, <1>2, <2>1, <2>2 DEF Saves
  <1>8. Works(A, c, tab, d)
    BY <1>2, <1>3, <1>5, <1>6, <1>7, WorksCore
  <1>9. Covered(A, p) /\ \A q \in Top : Covered(T, q) => Covered(A, q)
    BY <1>2 DEF Covered
  <1> QED BY <1>2, <1>8, <1>9 DEF A

\* The page was committed after BEGIN; something T has read is stale.
Late(T, p, d) == d.stamps[p] > T.begin_epoch
Stale(T, d) == \/ \E p \in T.sem_pages : d.stamps[p] # T.read_stamps[p]
               \/ \E r \in Row : T.sem_rows[r] # 0 /\ d.rows[r] > T.sem_rows[r]

\* T with a new shadow of page p.
Served(T, p, d) ==
    [T EXCEPT !.view_advanced = @ \/ Late(T, p, d),
              !.read_stamps[p] = d.stamps[p],
              !.shadows = With(@, p, d.page[p]),
              !.shadow_epoch[p] = d.epoch,
              !.page_kind[p] = IF p = 1 THEN "interior" ELSE "leaf"]

\* What the new shadow changes, and what it leaves.
LEMMA ServedIs ==
  ASSUME NEW T \in Txns, NEW p \in Top, NEW d, Sound(d)
  PROVE  LET A == Served(T, p, d)
         IN  /\ A \in Txns /\ A.err = T.err /\ A.savepoints = T.savepoints
             /\ A.begin_epoch = T.begin_epoch /\ A.dirtied = T.dirtied
             /\ A.sem_pages = T.sem_pages /\ A.sem_rows = T.sem_rows /\ A.row_journal = T.row_journal
             /\ A.view_advanced = (T.view_advanced \/ Late(T, p, d))
             /\ A.read_stamps[p] = d.stamps[p] /\ A.shadow_epoch[p] = d.epoch
             /\ A.page_kind[p] = (IF p = 1 THEN "interior" ELSE "leaf")
             /\ DOMAIN A.shadows = DOMAIN T.shadows \cup {p} /\ A.shadows[p] = d.page[p]
             /\ \A q \in DOMAIN T.shadows : q # p => A.shadows[q] = T.shadows[q]
             /\ \A q \in Top : q # p => /\ A.read_stamps[q] = T.read_stamps[q]
                                              /\ A.shadow_epoch[q] = T.shadow_epoch[q]
                                              /\ A.page_kind[q] = T.page_kind[q]
  <1>1. p \in Page /\ Top \subseteq Page
    BY PagesAre
  <1>2. d.page[p] \in [Row -> Nat] /\ d.stamps[p] \in Nat /\ d.epoch \in Nat
    BY <1>1, DbIs
  <1> DEFINE s == With(T.shadows, p, d.page[p])
             v == (T.view_advanced \/ Late(T, p, d))
             k == IF p = 1 THEN "interior" ELSE "leaf"
             rs == [T.read_stamps EXCEPT ![p] = d.stamps[p]]
             se == [T.shadow_epoch EXCEPT ![p] = d.epoch]
             pk == [T.page_kind EXCEPT ![p] = k]
  <1>3. T.shadows \in Copies /\ T.read_stamps \in [Page -> Nat] /\ T.shadow_epoch \in [Page -> Nat]
        /\ T.page_kind \in [Page -> {"none", "interior", "leaf"}]
    BY TxnIs
  <1>4. s \in Copies /\ DOMAIN s = DOMAIN T.shadows \cup {p} /\ s[p] = d.page[p]
        /\ \A q \in DOMAIN T.shadows : q # p => s[q] = T.shadows[q]
    BY <1>2, <1>3, WithIs
  <1>5. /\ rs \in [Page -> Nat] /\ se \in [Page -> Nat] /\ pk \in [Page -> {"none", "interior", "leaf"}]
        /\ rs[p] = d.stamps[p] /\ se[p] = d.epoch /\ pk[p] = k
        /\ \A q \in Top : q # p => /\ rs[q] = T.read_stamps[q] /\ se[q] = T.shadow_epoch[q]
                                         /\ pk[q] = T.page_kind[q]
    BY <1>1, <1>2, <1>3
  <1>6. Served(T, p, d) = [T EXCEPT !.view_advanced = v, !.read_stamps = rs, !.shadows = s,
                                    !.shadow_epoch = se, !.page_kind = pk]
    BY DEF Served, Txns
  <1>7. v \in BOOLEAN
    OBVIOUS
  <1> HIDE DEF s, v, rs, se, pk
  <1> DEFINE A == [T EXCEPT !.view_advanced = v, !.read_stamps = rs, !.shadows = s,
                            !.shadow_epoch = se, !.page_kind = pk]
  <1>8. A \in Txns
    BY <1>4, <1>5, <1>7 DEF Txns
  <1>9. /\ A.err = T.err /\ A.savepoints = T.savepoints
        /\ A.begin_epoch = T.begin_epoch /\ A.dirtied = T.dirtied
        /\ A.sem_pages = T.sem_pages /\ A.sem_rows = T.sem_rows /\ A.row_journal = T.row_journal
        /\ A.view_advanced = v /\ A.read_stamps = rs /\ A.shadows = s /\ A.shadow_epoch = se /\ A.page_kind = pk
    BY DEF Txns
  <1> HIDE DEF A
  <1> QED BY <1>4, <1>5, <1>6, <1>8, <1>9 DEF A, v, k

\* Images of other pages are not touched.
LEMMA ImageServed ==
  ASSUME NEW T \in Txns, NEW p \in Top, NEW d, Sound(d), NEW c, NEW tab, NEW m, NEW own,
         NEW q \in Top, q # p, ~Late(T, p, d), Image(T, c, tab, d, m, own, q)
  PROVE  Image(Served(T, p, d), c, tab, d, m, own, q)
  <1> DEFINE A == Served(T, p, d)
  <1>1. A.read_stamps[q] = T.read_stamps[q] /\ A.shadow_epoch[q] = T.shadow_epoch[q]
        /\ A.view_advanced = (T.view_advanced \/ Late(T, p, d))
    BY ServedIs
  <1> HIDE DEF A
  <1>2. Image(A, c, tab, d, m, own, q)
    BY <1>1 DEF Image, Based, Firm
  <1> QED BY <1>2 DEF A

\* The kinds and stamps of the pages T has fetched, with the new one.
LEMMA KindsServed ==
  ASSUME NEW T \in Txns, NEW p \in Top, NEW d, Sound(d), Kinds(T, d)
  PROVE  Kinds(Served(T, p, d), d) /\ Fetched(Served(T, p, d)) = Fetched(T) \cup {p}
  <1> DEFINE A == Served(T, p, d)
  <1>1. /\ A \in Txns /\ A.savepoints = T.savepoints
        /\ A.begin_epoch = T.begin_epoch /\ A.dirtied = T.dirtied
        /\ A.sem_pages = T.sem_pages /\ A.sem_rows = T.sem_rows
        /\ A.read_stamps[p] = d.stamps[p] /\ A.shadow_epoch[p] = d.epoch
        /\ A.page_kind[p] = (IF p = 1 THEN "interior" ELSE "leaf")
        /\ DOMAIN A.shadows = DOMAIN T.shadows \cup {p}
        /\ \A q \in Top : q # p => /\ A.read_stamps[q] = T.read_stamps[q]
                                         /\ A.shadow_epoch[q] = T.shadow_epoch[q]
                                         /\ A.page_kind[q] = T.page_kind[q]
    BY ServedIs
  <1> HIDE DEF A
  <1>2. Fetched(A) = Fetched(T) \cup {p}
    BY <1>1 DEF Fetched
  <1>3. d.epoch \in Nat /\ d.epoch # 0 /\ d.stamps[p] \in Nat
    BY DbIs, PagesAre
  <1>4. ASSUME NEW q \in Fetched(A)
        PROVE  /\ A.page_kind[q] = (IF q = 1 THEN "interior" ELSE "leaf")
               /\ A.shadow_epoch[q] # 0 /\ A.shadow_epoch[q] <= d.epoch
               /\ A.read_stamps[q] <= d.stamps[q]
               /\ d.stamps[q] = A.read_stamps[q] \/ d.stamps[q] > A.begin_epoch
    <2>1. CASE q = p
      BY <1>1, <1>3, <2>1
    <2>2. CASE q # p
      <3>1. q \in Fetched(T) /\ q \in Top
        BY <1>2, <2>2 DEF Fetched
      <3> QED BY <1>1, <2>2, <3>1 DEF Kinds
    <2> QED BY <2>1, <2>2
  <1>5. Kinds(A, d)
    BY <1>1, <1>2, <1>4 DEF Kinds
  <1> QED BY <1>2, <1>5 DEF A

\* A page nobody has committed since BEGIN: it is as tab has it.
LEMMA ServedOnTime ==
  ASSUME NEW T, NEW c, NEW tab, NEW d, Sound(d), Works(T, c, tab, d),
         NEW p \in Top \ DOMAIN T.shadows, ~Late(T, p, d)
  PROVE  Works(Served(T, p, d), c, tab, d)
  <1> DEFINE A == Served(T, p, d)
  <1>1. /\ T \in Txns /\ Core(T, c, tab, d) /\ Kinds(T, d) /\ Images(T, c, tab, d) /\ Saves(T, c)
        /\ p \in Top
    BY WorksCore
  <1>2. /\ A \in Txns /\ A.savepoints = T.savepoints
        /\ A.begin_epoch = T.begin_epoch /\ A.dirtied = T.dirtied
        /\ A.sem_pages = T.sem_pages /\ A.sem_rows = T.sem_rows /\ A.row_journal = T.row_journal
        /\ A.read_stamps[p] = d.stamps[p] /\ A.shadow_epoch[p] = d.epoch
        /\ DOMAIN A.shadows = DOMAIN T.shadows \cup {p} /\ A.shadows[p] = d.page[p]
        /\ \A q \in DOMAIN T.shadows : q # p => A.shadows[q] = T.shadows[q]
        /\ \A q \in Top : q # p => A.read_stamps[q] = T.read_stamps[q]
    BY <1>1, ServedIs
  <1>3. Kinds(A, d) /\ Fetched(A) = Fetched(T) \cup {p}
    BY <1>1, KindsServed
  <1>4. d.stamps[p] \in Nat /\ T.begin_epoch \in Nat /\ d.stamps[p] <= T.begin_epoch
    BY <1>1, DbIs, PagesAre, TxnIs DEF Late
  <1>5. p \in Fetched(T) => T.read_stamps[p] = d.stamps[p]
    BY <1>1, <1>4 DEF Kinds
  <1>6. p # 1 => p \in Leaves /\ LeafImage(d.page[p], p)
    BY <1>1, DbIs, PagesAre
  <1>7. p = 1 => d.page[p] = Route
    BY DbIs
  <1>8. \A r \in Row : Home(r) = p => d.page[p][r] = tab[r] /\ TableIn(d)[r] = d.page[p][r]
    BY <1>1, <1>4 DEF Core, Since, TableIn
  <1>9. p \notin T.dirtied
    BY <1>1 DEF Kinds
  <1>10. Image(A, c, tab, d, d.page[p], c.own, p)
    <2>1. ASSUME NEW r \in Row, Home(r) = p, c.own[r] # Unknown PROVE d.page[p][r] = c.own[r]
      BY <1>1, <1>4, <1>9, <2>1 DEF Core, NetZero
    <2>2. ASSUME NEW r \in Row, Home(r) = p PROVE Based(A, c, tab, d, p, r, d.page[p][r])
      BY <1>1, <1>8, <2>2 DEF Based, Core
    <2> QED BY <1>6, <1>7, <2>1, <2>2 DEF Image
  <1>11. \A q \in DOMAIN A.shadows : Image(A, c, tab, d, A.shadows[q], c.own, q)
    <2> SUFFICES ASSUME NEW q \in DOMAIN A.shadows PROVE Image(A, c, tab, d, A.shadows[q], c.own, q)
      OBVIOUS
    <2>1. CASE q = p
      BY <1>2, <1>10, <2>1
    <2>2. CASE q # p
      <3>1. q \in DOMAIN T.shadows /\ q \in Top /\ A.shadows[q] = T.shadows[q]
        BY <1>1, <1>2, <2>2, TxnIs
      <3>2. Image(T, c, tab, d, T.shadows[q], c.own, q)
        BY <1>1, <3>1 DEF Images
      <3> QED BY <1>1, <2>2, <3>1, <3>2, ImageServed
    <2> QED BY <2>1, <2>2
  <1>12. ASSUME NEW i \in 1 .. Len(A.savepoints), NEW q \in DOMAIN A.savepoints[i].undo
         PROVE  Image(A, c, tab, d, A.savepoints[i].undo[q], c.saves[i], q)
    <2> DEFINE m == T.savepoints[i].undo[q]
    <2>1. /\ Image(T, c, tab, d, m, c.saves[i], q) /\ q \in Fetched(T) /\ q \in Top
      BY <1>1, <1>2 DEF Images, Kinds, Fetched
    <2> HIDE DEF m
    <2>2. CASE q # p
      BY <1>1, <1>2, <2>1, <2>2, ImageServed DEF m
    <2>3. CASE q = p
      <3>1. ASSUME NEW r \in Row, Home(r) = p, Based(T, c, tab, d, p, r, m[r])
            PROVE  Based(A, c, tab, d, p, r, m[r])
        <4>1. Firm(T, d, p, r)
          BY <1>5, <2>1, <2>3 DEF Firm
        <4>2. m[r] = d.page[p][r] /\ m[r] = tab[r] /\ \E old \in c.cands : m[r] = old[r]
          BY <3>1, <4>1 DEF Based
        <4> QED BY <4>2 DEF Based
      <3>2. Image(A, c, tab, d, m, c.saves[i], q)
        BY <2>1, <2>3, <3>1 DEF Image
      <3> QED BY <1>2, <3>2 DEF m
    <2> QED BY <2>2, <2>3
  <1>13. Images(A, c, tab, d)
    BY <1>11, <1>12 DEF Images
  <1>14. Saves(A, c)
    BY <1>1, <1>2 DEF Saves
  <1>15. Core(A, c, tab, d)
    <2>1. Journal(A, c) /\ NetZero(A, c, d) /\ Since(A, tab, d)
      BY <1>1, <1>2 DEF Core, Journal, NetZero, Since
    <2>2. \A q \in T.sem_pages : A.read_stamps[q] = T.read_stamps[q]
      <3> SUFFICES ASSUME NEW q \in T.sem_pages PROVE A.read_stamps[q] = T.read_stamps[q]
        OBVIOUS
      <3>1. q \in Fetched(T) /\ q \in Top
        BY <1>1 DEF Kinds, Fetched
      <3> QED BY <1>2, <1>5, <3>1
    <2>3. Tracked(A, c, d)
      BY <1>1, <1>2, <2>2 DEF Core, Tracked, ByRow, ByPage
    <2> QED BY <1>1, <2>1, <2>3 DEF Core
  <1> QED BY <1>2, <1>3, <1>13, <1>14, <1>15, WorksCore

\* A page committed since BEGIN: nothing read is stale, and T sees the present.
LEMMA ServedLate ==
  ASSUME NEW T, NEW c, NEW tab, NEW d, Sound(d), Works(T, c, tab, d),
         NEW p \in Top \ DOMAIN T.shadows, Late(T, p, d), ~Stale(T, d), T.savepoints = <<>>
  PROVE  Works(Served(T, p, d), c, TableIn(d), d)
  <1> DEFINE A == Served(T, p, d)
             now == TableIn(d)
  <1>1. /\ T \in Txns /\ Core(T, c, tab, d) /\ Kinds(T, d) /\ Images(T, c, tab, d) /\ Saves(T, c)
        /\ p \in Top
    BY WorksCore
  <1>2. /\ A \in Txns /\ A.savepoints = T.savepoints
        /\ A.begin_epoch = T.begin_epoch /\ A.dirtied = T.dirtied
        /\ A.view_advanced = (T.view_advanced \/ Late(T, p, d))
        /\ A.sem_pages = T.sem_pages /\ A.sem_rows = T.sem_rows /\ A.row_journal = T.row_journal
        /\ A.read_stamps[p] = d.stamps[p] /\ A.shadow_epoch[p] = d.epoch
        /\ DOMAIN A.shadows = DOMAIN T.shadows \cup {p} /\ A.shadows[p] = d.page[p]
        /\ \A q \in DOMAIN T.shadows : q # p => A.shadows[q] = T.shadows[q]
        /\ \A q \in Top : q # p => /\ A.read_stamps[q] = T.read_stamps[q]
                                         /\ A.shadow_epoch[q] = T.shadow_epoch[q]
    BY <1>1, ServedIs
  <1>3. Kinds(A, d)
    BY <1>1, KindsServed
  <1>4. p # 1 /\ p \in Leaves /\ LeafImage(d.page[p], p)
    BY <1>1, DbIs, TxnIs, PagesAre DEF Late
  <1>5. \A r \in Row : now[r] = d.page[Home(r)][r]
    BY DEF TableIn
  <1>6. /\ \A q \in T.sem_pages : d.stamps[q] = T.read_stamps[q]
        /\ \A r \in Row : T.sem_rows[r] # 0 => d.rows[r] <= T.sem_rows[r]
    <2>1. \A r \in Row : d.rows[r] \in Nat /\ T.sem_rows[r] \in Nat
      BY <1>1, DbIs, TxnIs
    <2> QED BY <2>1 DEF Stale
  <1> HIDE DEF now
  <1>7. \A r \in Row : c.seen[r] \in {Unknown, now[r]}
    BY <1>1, <1>5, <1>6 DEF Core, Tracked, ByRow, ByPage
  <1>8. p \notin T.dirtied
    BY <1>1 DEF Kinds
  <1>9. now \in c.cands
    BY <1>1 DEF Core, now
  <1>10. Image(A, c, now, d, d.page[p], c.own, p)
    <2>1. ASSUME NEW r \in Row, Home(r) = p, c.own[r] # Unknown PROVE d.page[p][r] = c.own[r]
      BY <1>1, <1>6, <1>8, <2>1 DEF Core, NetZero, Journal
    <2>2. ASSUME NEW r \in Row, Home(r) = p PROVE Based(A, c, now, d, p, r, d.page[p][r])
      BY <1>5, <1>9, <2>2 DEF Based
    <2> QED BY <1>4, <2>1, <2>2 DEF Image
  <1>11. ASSUME NEW q \in DOMAIN A.shadows PROVE Image(A, c, now, d, A.shadows[q], c.own, q)
    <2>1. CASE q = p
      BY <1>2, <1>10, <2>1
    <2>2. CASE q # p
      <3>1. q \in DOMAIN T.shadows /\ q \in Top /\ A.shadows[q] = T.shadows[q]
            /\ A.read_stamps[q] = T.read_stamps[q] /\ A.shadow_epoch[q] = T.shadow_epoch[q]
        BY <1>1, <1>2, <2>2, TxnIs
      <3>2. Image(T, c, tab, d, T.shadows[q], c.own, q)
        BY <1>1, <3>1 DEF Images
      <3>3. ASSUME NEW r \in Row, Home(r) = q, NEW v, Based(T, c, tab, d, q, r, v)
            PROVE  Based(A, c, now, d, q, r, v)
        BY <1>2, <1>5, <3>1, <3>3 DEF Based, Firm
      <3>4. Image(A, c, now, d, T.shadows[q], c.own, q)
        BY <3>2, <3>3 DEF Image
      <3> QED BY <3>1, <3>4
    <2> QED BY <2>1, <2>2
  <1>12. Len(A.savepoints) = 0
    BY <1>2
  <1>13. Images(A, c, now, d)
    BY <1>11, <1>12 DEF Images
  <1>14. Saves(A, c)
    BY <1>1, <1>2 DEF Saves
  <1>15. Core(A, c, now, d)
    <2>1. Journal(A, c) /\ NetZero(A, c, d)
      BY <1>1, <1>2 DEF Core, Journal, NetZero
    <2>2. Since(A, now, d)
      BY <1>5 DEF Since
    <2>3. \A q \in T.sem_pages : A.read_stamps[q] = d.stamps[q]
      <3> SUFFICES ASSUME NEW q \in T.sem_pages PROVE A.read_stamps[q] = d.stamps[q]
        OBVIOUS
      <3>1. q \in Fetched(T) /\ q \in Top
        BY <1>1 DEF Kinds, Fetched
      <3> QED BY <1>2, <1>6, <3>1
    <2>4. Tracked(A, c, d)
      BY <1>1, <1>2, <1>6, <2>3 DEF Core, Tracked, ByRow, ByPage
    <2> QED BY <1>1, <1>7, <1>9, <2>1, <2>2, <2>4 DEF Core
  <1>16. Works(A, c, now, d)
    BY <1>2, <1>3, <1>13, <1>14, <1>15, WorksCore
  <1> QED BY <1>16 DEF now

\* The committed state, in the words of the variables.
LEMMA DbNow ==
  Db.page = page /\ Db.stamps = stamps /\ Db.rows = row_stamps /\ Db.epoch = commit_epoch
  BY DEF Db

\* ReadSetStale, in the words of the committed state.
LEMMA StaleIs ==
  ASSUME NEW T PROVE ReadSetStale(T) <=> Stale(T, Db)
  BY DbNow DEF ReadSetStale, Stale

\* writer_shadow_fetch of a page T has no shadow of.
LEMMA MaterializeIs ==
  ASSUME NEW T \in Txns, NEW p \in Top, Sound(Db), n_pages = 4
  PROVE  Materialize(T, p) = IF Late(T, p, Db) /\ (T.savepoints # <<>> \/ Stale(T, Db))
                             THEN Fail(T) ELSE CaptureShadowUndo(Served(T, p, Db), p)
  <1>1. p \in Nat /\ p < 4 /\ T.begin_n_pages = 4
    BY PagesAre, TxnIs
  <1>2. ~(p >= n_pages) /\ ~(p >= T.begin_n_pages)
    BY <1>1
  <1>3. KindOf(p) = IF p = 1 THEN "interior" ELSE "leaf"
    <2>1. p # 1 => page[p] # Zeroed
      BY DbNow, DbIs, PagesAre, NotZeroed
    <2> QED BY <2>1, PagesAre DEF KindOf
  <1>4. (stamps[p] > T.begin_epoch \/ p >= T.begin_n_pages) <=> Late(T, p, Db)
    BY <1>2, DbNow DEF Late
  <1> DEFINE S == [T EXCEPT !.view_advanced = @ \/ (stamps[p] > T.begin_epoch \/ p >= T.begin_n_pages),
                            !.read_stamps[p] = stamps[p],
                            !.shadows = With(@, p, page[p]),
                            !.shadow_epoch[p] = commit_epoch,
                            !.page_kind[p] = KindOf(p)]
  <1>5. Materialize(T, p) = IF \/ (stamps[p] > T.begin_epoch \/ p >= T.begin_n_pages)
                                  /\ (T.savepoints # <<>> \/ ReadSetStale(T))
                               \/ p >= n_pages
                            THEN Fail(T) ELSE CaptureShadowUndo(S, p)
    BY DEF Materialize
  <1>6. S = Served(T, p, Db)
    BY <1>3, <1>4, DbNow DEF Served
  <1> HIDE DEF S
  <1> QED BY <1>2, <1>4, <1>5, <1>6, StaleIs

\* An error leaves the transaction as it is.
LEMMA FailIs ==
  ASSUME NEW T \in Txns
  PROVE  Fail(T) \in Txns /\ Fail(T).err /\ Alike(T, Fail(T)) /\ Fail(T).savepoints = T.savepoints
  <1> DEFINE A == [T EXCEPT !.err = TRUE]
  <1>1. A \in Txns /\ A.savepoints = T.savepoints /\ A.err = TRUE /\ Alike(T, A)
    BY SetErr
  <1>2. Fail(T) = A
    BY DEF Fail
  <1> HIDE DEF A
  <1> QED BY <1>1, <1>2

\* A transaction whose statement has failed still works.
LEMMA FailWorks ==
  ASSUME NEW T, NEW c, NEW tab, NEW d, Works(T, c, tab, d)
  PROVE  Works(Fail(T), c, tab, d) /\ Fail(T).err
  <1>1. T \in Txns
    BY WorksCore
  <1>2. Fail(T) \in Txns /\ Fail(T).err /\ Alike(T, Fail(T)) /\ Fail(T).savepoints = T.savepoints
    BY <1>1, FailIs
  <1> QED BY <1>2, WorksAlike

\* What T holds of its pages is still there in A.
Keeps(T, A) ==
    /\ DOMAIN T.shadows \subseteq DOMAIN A.shadows
    /\ \A q \in DOMAIN T.shadows : Covered(T, q) => Covered(A, q)

\* A shadow hit, or a new shadow.
LEMMA ShadowWorks ==
  ASSUME NEW T, NEW c, NEW tab, Sound(Db), n_pages = 4, Works(T, c, tab, Db), NEW p \in Top, ~T.err
  PROVE  LET A == Shadow(T, p)
         IN  /\ \E now \in c.cands : Works(A, c, now, Db) /\ (p \in DOMAIN T.shadows => now = tab)
             /\ ~A.err => p \in DOMAIN A.shadows /\ Covered(A, p) /\ Keeps(T, A)
             /\ p \in DOMAIN T.shadows => ~A.err /\ Alike(T, A)
  <1> DEFINE A == Shadow(T, p)
  <1>1. T \in Txns /\ tab \in c.cands /\ TableIn(Db) \in c.cands
    BY WorksAre
  <1>2. DOMAIN T.shadows \subseteq Top
    BY <1>1, TxnIs
  <1>3. CASE p \in DOMAIN T.shadows
    <2> DEFINE B == CaptureShadowUndo(T, p)
    <2>1. A = B
      BY <1>3 DEF Shadow
    <2>2. /\ Works(B, c, tab, Db) /\ Covered(B, p) /\ B.err = T.err /\ Alike(T, B)
          /\ \A q \in Top : Covered(T, q) => Covered(B, q)
      BY <1>3, CaptureWorks
    <2> HIDE DEF A, B
    <2>3. B.shadows = T.shadows
      BY <2>2 DEF Alike
    <2>4. Keeps(T, B)
      BY <1>2, <2>2, <2>3 DEF Keeps
    <2>5. ~B.err /\ p \in DOMAIN B.shadows
      BY <1>3, <2>2, <2>3
    <2> QED BY <1>1, <1>3, <2>1, <2>2, <2>4, <2>5 DEF A
  <1>4. CASE p \notin DOMAIN T.shadows
    <2> DEFINE F == Late(T, p, Db) /\ (T.savepoints # <<>> \/ Stale(T, Db))
               S == Served(T, p, Db)
               B == CaptureShadowUndo(S, p)
    <2>1. A = IF F THEN Fail(T) ELSE B
      BY <1>1, <1>4, MaterializeIs DEF Shadow
    <2>2. CASE F
      <3>1. A = Fail(T)
        BY <2>1, <2>2
      <3>2. Works(Fail(T), c, tab, Db) /\ Fail(T).err
        BY FailWorks
      <3> HIDE DEF A
      <3> QED BY <1>1, <1>4, <3>1, <3>2 DEF A
    <2>3. CASE ~F
      <3>1. \E now \in c.cands : Works(S, c, now, Db)
        <4>1. CASE ~Late(T, p, Db)
          <5>1. Works(S, c, tab, Db)
            BY <1>4, <4>1, ServedOnTime
          <5> QED BY <1>1, <5>1
        <4>2. CASE Late(T, p, Db)
          <5>1. T.savepoints = <<>> /\ ~Stale(T, Db)
            BY <2>3, <4>2
          <5>2. Works(S, c, TableIn(Db), Db)
            BY <1>4, <4>2, <5>1, ServedLate
          <5> QED BY <1>1, <5>2
        <4> QED BY <4>1, <4>2
      <3>2. PICK now \in c.cands : Works(S, c, now, Db)
        BY <3>1
      <3>3. S \in Txns /\ S.err = T.err /\ S.savepoints = T.savepoints /\ DOMAIN S.shadows = DOMAIN T.shadows \cup {p}
        BY <1>1, ServedIs
      <3> HIDE DEF S
      <3>4. /\ Works(B, c, now, Db) /\ Covered(B, p) /\ B.err = S.err /\ Alike(S, B)
            /\ \A q \in Top : Covered(S, q) => Covered(B, q)
        BY <3>2, <3>3, CaptureWorks
      <3>5. A = B
        BY <2>1, <2>3
      <3> HIDE DEF A, B
      <3>6. B.shadows = S.shadows
        BY <3>4 DEF Alike
      <3>7. \A q \in Top : Covered(T, q) => Covered(S, q)
        BY <3>3 DEF Covered
      <3>8. Keeps(T, B) /\ p \in DOMAIN B.shadows
        BY <1>2, <3>3, <3>4, <3>6, <3>7 DEF Keeps
      <3> QED BY <1>4, <3>4, <3>5, <3>8 DEF A
    <2> QED BY <2>2, <2>3
  <1> QED BY <1>3, <1>4

\* The two transactions differ in what they remember to have read, at most.
SameBut(T, A) ==
    /\ A.begin_epoch = T.begin_epoch /\ A.shadows = T.shadows /\ A.dirtied = T.dirtied
    /\ A.read_stamps = T.read_stamps /\ A.shadow_epoch = T.shadow_epoch /\ A.page_kind = T.page_kind
    /\ A.view_advanced = T.view_advanced /\ A.row_journal = T.row_journal
    /\ A.savepoints = T.savepoints

\* A row read is noted with an epoch.
LEMMA SetSemRow ==
  ASSUME NEW T \in Txns, NEW r \in Row, NEW e \in Nat
  PROVE  LET A == [T EXCEPT !.sem_rows[r] = e]
         IN  /\ A \in Txns /\ SameBut(T, A) /\ A.err = T.err /\ A.sem_pages = T.sem_pages
             /\ A.sem_rows[r] = e /\ \A q \in Row : q # r => A.sem_rows[q] = T.sem_rows[q]
  <1> DEFINE f == [T.sem_rows EXCEPT ![r] = e]
             A == [T EXCEPT !.sem_rows = f]
  <1>1. T.sem_rows \in [Row -> Nat]
    BY TxnIs
  <1>2. f \in [Row -> Nat] /\ f[r] = e /\ \A q \in Row : q # r => f[q] = T.sem_rows[q]
    BY <1>1
  <1>3. [T EXCEPT !.sem_rows[r] = e] = A
    BY DEF Txns
  <1> HIDE DEF f
  <1>4. A \in Txns /\ A.sem_rows = f /\ SameBut(T, A) /\ A.err = T.err /\ A.sem_pages = T.sem_pages
    BY <1>2 DEF Txns, SameBut
  <1> HIDE DEF A
  <1> QED BY <1>2, <1>3, <1>4

\* A page read is noted.
LEMMA SetSemPage ==
  ASSUME NEW T \in Txns, NEW p \in Leaves
  PROVE  LET A == [T EXCEPT !.sem_pages = @ \cup {p}]
         IN  /\ A \in Txns /\ SameBut(T, A) /\ A.err = T.err /\ A.sem_rows = T.sem_rows
             /\ A.sem_pages = T.sem_pages \cup {p}
  <1> DEFINE s == T.sem_pages \cup {p}
             A == [T EXCEPT !.sem_pages = s]
  <1>1. s \in SUBSET Leaves
    BY TxnIs
  <1>2. [T EXCEPT !.sem_pages = @ \cup {p}] = A
    OBVIOUS
  <1> HIDE DEF s
  <1>3. A \in Txns /\ A.sem_pages = s /\ SameBut(T, A) /\ A.err = T.err /\ A.sem_rows = T.sem_rows
    BY <1>1 DEF Txns, SameBut
  <1> HIDE DEF A
  <1> QED BY <1>2, <1>3 DEF s

\* More reads, or older ones, to validate.
LEMMA NotedWorks ==
  ASSUME NEW T, NEW A \in Txns, NEW c, NEW tab, NEW d, Sound(d), Works(T, c, tab, d), SameBut(T, A),
         T.sem_pages \subseteq A.sem_pages, A.sem_pages \subseteq Fetched(T),
         \A q \in Row : /\ A.sem_rows[q] <= d.epoch
                        /\ T.sem_rows[q] # 0 => A.sem_rows[q] # 0 /\ A.sem_rows[q] <= T.sem_rows[q]
  PROVE  Works(A, c, tab, d)
  <1>1. T \in Txns /\ Core(T, c, tab, d) /\ Kinds(T, d) /\ Images(T, c, tab, d) /\ Saves(T, c)
    BY WorksCore
  <1>2. Kinds(A, d)
    <2>1. Fetched(A) = Fetched(T)
      BY DEF SameBut, Fetched
    <2> QED BY <1>1, <2>1 DEF Kinds, SameBut
  <1>3. Images(A, c, tab, d)
    BY <1>1 DEF Images, Image, Based, Firm, SameBut
  <1>4. Saves(A, c)
    BY <1>1 DEF Saves, SameBut
  <1>5. Journal(A, c)
    BY <1>1 DEF Core, Journal, SameBut
  <1>6. \A q \in Row : d.rows[q] \in Nat /\ A.sem_rows[q] \in Nat /\ T.sem_rows[q] \in Nat
    BY <1>1, TxnIs, DbIs
  <1>7. \A q \in Row : T.sem_rows[q] # 0 /\ d.rows[q] <= A.sem_rows[q] => d.rows[q] <= T.sem_rows[q]
    BY <1>6
  <1>8. NetZero(A, c, d)
    BY <1>1, <1>7 DEF Core, NetZero, Journal, SameBut
  <1>9. Tracked(A, c, d)
    BY <1>1, <1>7 DEF Core, Tracked, ByRow, ByPage, SameBut
  <1>10. Since(A, tab, d)
    BY <1>1 DEF Core, Since, SameBut
  <1> QED BY <1>1, <1>2, <1>3, <1>4, <1>5, <1>8, <1>9, <1>10, WorksCore DEF Core

\* What T's shadow says of row r may be told.
Valid(T, c, tab, d, r) ==
    LET v == T.shadows[Home(r)][r]
    IN  c.own[r] = Unknown => v = tab[r] /\ (ByRow(T, d, r, v) \/ ByPage(T, d, r, v))

\* The smaller of two numbers.
LEMMA MinTwo ==
  ASSUME NEW a \in Nat, NEW b \in Nat
  PROVE  Min({a, b}) \in {a, b} /\ Min({a, b}) <= a /\ Min({a, b}) <= b
  <1>1. \E x \in {a, b} : \A y \in {a, b} : x =< y
    OBVIOUS
  <1>2. Min({a, b}) \in {a, b} /\ \A y \in {a, b} : Min({a, b}) =< y
    BY <1>1 DEF Min
  <1> QED BY <1>2

\* The base of a row T has not written.
LEMMA BaseOf ==
  ASSUME NEW T, NEW c, NEW tab, NEW d, Works(T, c, tab, d), NEW p \in DOMAIN T.shadows, p # 1,
         NEW r \in Row, Home(r) = p
  PROVE  /\ LeafImage(T.shadows[p], p)
         /\ c.own[r] # Unknown => T.shadows[p][r] = c.own[r]
         /\ c.own[r] = Unknown => Based(T, c, tab, d, p, r, T.shadows[p][r])
  <1>1. Image(T, c, tab, d, T.shadows[p], c.own, p)
    BY WorksCore DEF Images
  <1> QED BY <1>1 DEF Image

\* note_semantic_read of a row lookup.
LEMMA NotePoint ==
  ASSUME NEW T, NEW c, NEW tab, Sound(Db), Works(T, c, tab, Db), NEW r \in Row,
         Home(r) \in DOMAIN T.shadows, ~T.err
  PROVE  LET A == NoteSemanticRead(T, Home(r), Point(r))
         IN  /\ Works(A, c, tab, Db) /\ SameBut(T, A)
             /\ ~A.err => Valid(A, c, tab, Db, r) /\ A.sem_rows[r] # 0
  <1> DEFINE p == Home(r)
             se == T.shadow_epoch[p]
             e == IF T.sem_rows[r] = 0 THEN se ELSE Min({T.sem_rows[r], se})
             B == [T EXCEPT !.sem_rows[r] = e]
             A == NoteSemanticRead(T, p, Point(r))
  <1>1. T \in Txns /\ Kinds(T, Db) /\ p \in Leaves /\ p # 1 /\ p \in Fetched(T)
    BY WorksCore, PagesAre DEF Kinds
  <1>2. /\ T.page_kind[p] = "leaf" /\ se # 0 /\ se <= Db.epoch
    BY <1>1 DEF Kinds
  <1>3. se \in Nat /\ T.sem_rows[r] \in Nat /\ Db.epoch \in Nat /\ Db.rows[r] \in Nat
    BY <1>1, TxnIs, PagesAre, DbIs
  <1> HIDE DEF p, se
  <1>4. e \in Nat /\ e # 0 /\ e <= se /\ e <= Db.epoch /\ (T.sem_rows[r] # 0 => e <= T.sem_rows[r])
    <2>1. CASE T.sem_rows[r] = 0
      BY <1>2, <1>3, <2>1
    <2>2. CASE T.sem_rows[r] # 0
      <3>1. /\ Min({T.sem_rows[r], se}) \in {T.sem_rows[r], se} /\ Min({T.sem_rows[r], se}) <= T.sem_rows[r]
            /\ Min({T.sem_rows[r], se}) <= se
        BY <1>3, MinTwo
      <3> QED BY <1>2, <1>3, <2>2, <3>1
    <2> QED BY <2>1, <2>2
  <1>5. A = IF T.view_advanced /\ row_stamps[r] > e THEN Fail(B) ELSE B
    <2>1. Point(r).kind = "point" /\ Point(r).row = r
      BY DEF Point
    <2> QED BY <1>2, <2>1 DEF NoteSemanticRead, se
  <1> HIDE DEF e
  <1>6. /\ B \in Txns /\ SameBut(T, B) /\ B.err = T.err /\ B.sem_pages = T.sem_pages
        /\ B.sem_rows[r] = e /\ \A q \in Row : q # r => B.sem_rows[q] = T.sem_rows[q]
    BY <1>1, <1>4, SetSemRow
  <1> HIDE DEF B
  <1>7. \A q \in Row : T.sem_rows[q] \in Nat /\ T.sem_rows[q] <= Db.epoch
    BY <1>1, TxnIs DEF Kinds
  <1>8. \A q \in Row : /\ B.sem_rows[q] <= Db.epoch
                       /\ T.sem_rows[q] # 0 => B.sem_rows[q] # 0 /\ B.sem_rows[q] <= T.sem_rows[q]
    BY <1>4, <1>6, <1>7
  <1>9. T.sem_pages \subseteq Fetched(T)
    BY <1>1 DEF Kinds
  <1>10. Works(B, c, tab, Db)
    BY <1>6, <1>8, <1>9, NotedWorks
  <1>11. CASE T.view_advanced /\ row_stamps[r] > e
    <2>1. Works(Fail(B), c, tab, Db) /\ Fail(B).err
      BY <1>10, FailWorks
    <2>2. Alike(B, Fail(B)) /\ Fail(B).savepoints = B.savepoints
      BY <1>6, FailIs
    <2>3. SameBut(T, Fail(B))
      BY <1>6, <2>2 DEF SameBut, Alike
    <2> HIDE DEF A
    <2> QED BY <1>5, <1>11, <2>1, <2>3 DEF A, p
  <1>12. CASE ~(T.view_advanced /\ row_stamps[r] > e)
    <2>1. A = B
      BY <1>5, <1>12
    <2>2. ~T.view_advanced \/ Db.rows[r] <= e
      BY <1>3, <1>4, <1>12, DbNow
    <2>3. Db.rows[r] <= e => Firm(T, Db, p, r)
      BY <1>3, <1>4 DEF Firm, se
    <2>4. c.own[r] = Unknown => Based(T, c, tab, Db, p, r, T.shadows[p][r])
      BY <1>1, BaseOf DEF p
    <2>5. B.shadows = T.shadows
      BY <1>6 DEF SameBut
    <2>6. Valid(B, c, tab, Db, r)
      BY <1>4, <1>6, <2>2, <2>3, <2>4, <2>5 DEF Valid, Based, ByRow, p
    <2> HIDE DEF A
    <2> QED BY <1>4, <1>6, <1>10, <2>1, <2>6 DEF A, p
  <1> QED BY <1>11, <1>12

\* note_semantic_read of a leaf that is scanned.
LEMMA NoteScan ==
  ASSUME NEW T, NEW c, NEW tab, Sound(Db), Works(T, c, tab, Db), NEW p \in DOMAIN T.shadows,
         p # 1, ~T.err
  PROVE  LET A == NoteSemanticRead(T, p, Scanning)
         IN  /\ Works(A, c, tab, Db) /\ SameBut(T, A)
             /\ ~A.err => \A r \in Row : Home(r) = p => Valid(A, c, tab, Db, r)
  <1> DEFINE B == [T EXCEPT !.sem_pages = @ \cup {p}]
             A == NoteSemanticRead(T, p, Scanning)
  <1>1. T \in Txns /\ Kinds(T, Db) /\ p \in Leaves /\ p \in Fetched(T)
    <2>1. T \in Txns /\ Kinds(T, Db)
      BY WorksCore
    <2> QED BY <2>1, PagesAre, TxnIs DEF Kinds
  <1>2. T.page_kind[p] = "leaf"
    BY <1>1 DEF Kinds
  <1>3. A = IF T.view_advanced /\ stamps[p] # T.read_stamps[p] THEN Fail(B) ELSE B
    <2>1. Scanning.kind = "scan"
      BY DEF Scanning
    <2> QED BY <1>2, <2>1 DEF NoteSemanticRead
  <1>4. /\ B \in Txns /\ SameBut(T, B) /\ B.err = T.err /\ B.sem_rows = T.sem_rows
        /\ B.sem_pages = T.sem_pages \cup {p}
    BY <1>1, SetSemPage
  <1> HIDE DEF B
  <1>5. \A q \in Row : /\ B.sem_rows[q] <= Db.epoch
                       /\ T.sem_rows[q] # 0 => B.sem_rows[q] # 0 /\ B.sem_rows[q] <= T.sem_rows[q]
    BY <1>1, <1>4, TxnIs DEF Kinds
  <1>6. T.sem_pages \subseteq B.sem_pages /\ B.sem_pages \subseteq Fetched(T)
    BY <1>1, <1>4 DEF Kinds
  <1>7. Works(B, c, tab, Db)
    BY <1>4, <1>5, <1>6, NotedWorks
  <1>8. CASE T.view_advanced /\ stamps[p] # T.read_stamps[p]
    <2>1. Works(Fail(B), c, tab, Db) /\ Fail(B).err
      BY <1>7, FailWorks
    <2>2. Alike(B, Fail(B)) /\ Fail(B).savepoints = B.savepoints
      BY <1>4, FailIs
    <2>3. SameBut(T, Fail(B))
      BY <1>4, <2>2 DEF SameBut, Alike
    <2> HIDE DEF A
    <2> QED BY <1>3, <1>8, <2>1, <2>3 DEF A
  <1>9. CASE ~(T.view_advanced /\ stamps[p] # T.read_stamps[p])
    <2>1. A = B
      BY <1>3, <1>9
    <2>2. ASSUME NEW r \in Row, Home(r) = p PROVE Valid(B, c, tab, Db, r)
      <3>1. ~T.view_advanced \/ Firm(T, Db, p, r)
        BY <1>9, DbNow DEF Firm
      <3>2. c.own[r] = Unknown => Based(T, c, tab, Db, p, r, T.shadows[p][r])
        BY <2>2, BaseOf
      <3>3. B.shadows = T.shadows /\ B.read_stamps = T.read_stamps /\ p \in B.sem_pages
        BY <1>4 DEF SameBut
      <3>4. Db.stamps[p] = T.read_stamps[p] => Firm(T, Db, p, r)
        BY DEF Firm
      <3> QED BY <2>2, <3>1, <3>2, <3>3, <3>4 DEF Valid, Based, ByPage
    <2> HIDE DEF A
    <2> QED BY <1>4, <1>7, <2>1, <2>2 DEF A
  <1> QED BY <1>8, <1>9

\* What a fetch for a reason may say, when it succeeds.
Reasons(r) == {Structural, Scanning, Point(r)}
Answer(T, c, tab, why, r) ==
    /\ why = Point(r) => Valid(T, c, tab, Db, r) /\ T.sem_rows[r] # 0
    /\ why = Scanning => \A q \in Row : Home(q) = Home(r) => Valid(T, c, tab, Db, q)

\* The three reasons are different.
LEMMA ReasonsAre ==
  ASSUME NEW r
  PROVE  /\ Structural.kind = "structural" /\ Scanning.kind = "scan" /\ Point(r).kind = "point"
         /\ Structural # Scanning /\ Structural # Point(r) /\ Scanning # Point(r)
  BY DEF Structural, Scanning, Point

\* The page-type check of the descent passes.
LEMMA TypedIs ==
  ASSUME NEW T, NEW c, NEW tab, NEW d, Works(T, c, tab, d), NEW p \in DOMAIN T.shadows
  PROVE  Typed(T, p) = T /\ (p = 1 => T.shadows[p] = Route)
  <1>1. Image(T, c, tab, d, T.shadows[p], c.own, p)
    BY WorksCore DEF Images
  <1>2. T.shadows[p] # Zeroed
    BY <1>1, NotZeroed DEF Image
  <1> QED BY <1>1, <1>2 DEF Typed, Image

\* A fetch of the interior page.
LEMMA FetchRootWorks ==
  ASSUME NEW T, NEW c, NEW tab, Sound(Db), n_pages = 4, Works(T, c, tab, Db), ~T.err,
         NEW r, NEW why \in Reasons(r)
  PROVE  LET A == Fetch(T, Root, why)
         IN  /\ \E now \in c.cands : Works(A, c, now, Db) /\ (1 \in DOMAIN T.shadows => now = tab)
             /\ ~A.err => 1 \in DOMAIN A.shadows /\ Covered(A, 1) /\ A.shadows[1] = Route /\ Keeps(T, A)
             /\ 1 \in DOMAIN T.shadows => ~A.err /\ Alike(T, A)
  <1> DEFINE S == Shadow(T, 1)
             A == Fetch(T, Root, why)
  <1>1. /\ \E now \in c.cands : Works(S, c, now, Db) /\ (1 \in DOMAIN T.shadows => now = tab)
        /\ ~S.err => 1 \in DOMAIN S.shadows /\ Covered(S, 1) /\ Keeps(T, S)
        /\ 1 \in DOMAIN T.shadows => ~S.err /\ Alike(T, S)
    BY PagesAre, ShadowWorks
  <1> HIDE DEF S
  <1>2. PICK now \in c.cands : Works(S, c, now, Db) /\ (1 \in DOMAIN T.shadows => now = tab)
    BY <1>1
  <1>3. CASE S.err
    <2>1. A = S
      BY <1>3, PagesAre DEF Fetch, Then, S
    <2> HIDE DEF A
    <2> QED BY <1>1, <1>3, <2>1 DEF A
  <1>4. CASE ~S.err
    <2>1. 1 \in Fetched(S) /\ Kinds(S, Db)
      BY <1>1, <1>2, <1>4, WorksCore DEF Kinds
    <2>2. S.page_kind[1] = "interior"
      BY <2>1 DEF Kinds
    <2>3. NoteSemanticRead(S, 1, why) = S
      BY <2>2 DEF NoteSemanticRead
    <2>4. Typed(S, 1) = S /\ S.shadows[1] = Route
      BY <1>1, <1>2, <1>4, TypedIs
    <2>5. A = S
      BY <1>4, <2>3, <2>4, PagesAre DEF Fetch, Then, S
    <2> HIDE DEF A
    <2> QED BY <1>1, <1>4, <2>4, <2>5 DEF A
  <1> QED BY <1>3, <1>4

\* A fetch of the leaf of row r.
LEMMA FetchLeafWorks ==
  ASSUME NEW T, NEW c, NEW tab, Sound(Db), n_pages = 4, Works(T, c, tab, Db), ~T.err,
         NEW r \in Row, NEW why \in Reasons(r)
  PROVE  LET A == Fetch(T, Home(r), why)
         IN  /\ \E now \in c.cands : /\ Works(A, c, now, Db) /\ (~A.err => Answer(A, c, now, why, r))
                                     /\ Home(r) \in DOMAIN T.shadows => now = tab
             /\ ~A.err => Home(r) \in DOMAIN A.shadows /\ Covered(A, Home(r)) /\ Keeps(T, A)
             /\ Home(r) \in DOMAIN T.shadows /\ why = Structural => ~A.err /\ Alike(T, A)
  <1> DEFINE p == Home(r)
             S == Shadow(T, p)
             N == NoteSemanticRead(S, p, why)
             A == Fetch(T, p, why)
  <1>1. p \in Top /\ p # 1
    BY PagesAre
  <1>2. /\ \E now \in c.cands : Works(S, c, now, Db) /\ (p \in DOMAIN T.shadows => now = tab)
        /\ ~S.err => p \in DOMAIN S.shadows /\ Covered(S, p) /\ Keeps(T, S)
        /\ p \in DOMAIN T.shadows => ~S.err /\ Alike(T, S)
    BY <1>1, ShadowWorks
  <1>3. A = IF S.err THEN S ELSE IF N.err THEN N ELSE Typed(N, p)
    BY DEF Fetch, Then
  <1> HIDE DEF S
  <1>4. PICK now \in c.cands : Works(S, c, now, Db) /\ (p \in DOMAIN T.shadows => now = tab)
    BY <1>2
  <1>5. CASE S.err
    <2> HIDE DEF A
    <2>1. A = S
      BY <1>3, <1>5
    <2> QED BY <1>2, <1>4, <1>5, <2>1 DEF A
  <1>6. CASE ~S.err
    <2>1. /\ Works(N, c, now, Db) /\ SameBut(S, N) /\ (~N.err => Answer(N, c, now, why, r))
          /\ why = Structural => N = S
      <3>1. CASE why = Structural
        <4>1. N = S
          BY <3>1, ReasonsAre DEF NoteSemanticRead
        <4>2. Answer(N, c, now, why, r)
          BY <3>1, ReasonsAre DEF Answer
        <4> HIDE DEF N
        <4> QED BY <1>4, <4>1, <4>2 DEF SameBut
      <3>2. CASE why = Point(r)
        <4>1. /\ Works(N, c, now, Db) /\ SameBut(S, N)
              /\ ~N.err => Valid(N, c, now, Db, r) /\ N.sem_rows[r] # 0
          BY <1>2, <1>4, <1>6, <3>2, NotePoint
        <4> HIDE DEF N
        <4> QED BY <3>2, <4>1, ReasonsAre DEF Answer
      <3>3. CASE why = Scanning
        <4>1. /\ Works(N, c, now, Db) /\ SameBut(S, N)
              /\ ~N.err => \A q \in Row : Home(q) = p => Valid(N, c, now, Db, q)
          BY <1>1, <1>2, <1>4, <1>6, <3>3, NoteScan
        <4> HIDE DEF N
        <4> QED BY <3>3, <4>1, ReasonsAre DEF Answer
      <3> QED BY <3>1, <3>2, <3>3 DEF Reasons
    <2> HIDE DEF N
    <2>2. DOMAIN N.shadows = DOMAIN S.shadows /\ N.savepoints = S.savepoints
      BY <2>1 DEF SameBut
    <2>3. p \in DOMAIN N.shadows
      BY <1>2, <1>6, <2>2
    <2>4. Typed(N, p) = N
      BY <2>1, <2>3, TypedIs
    <2> HIDE DEF A
    <2>5. A = N
      BY <1>3, <1>6, <2>4
    <2>6. Covered(N, p) /\ Keeps(T, N)
      BY <1>2, <1>6, <2>2 DEF Covered, Keeps
    <2> QED BY <1>2, <1>4, <1>6, <2>1, <2>3, <2>5, <2>6 DEF A
  <1> QED BY <1>5, <1>6

\* A descent to the leaf of row r.
LEMMA DescendWorks ==
  ASSUME NEW T, NEW c, NEW tab, Sound(Db), n_pages = 4, Works(T, c, tab, Db), ~T.err,
         NEW r \in Row, NEW why \in Reasons(r)
  PROVE  LET A == Descend(T, r, why)
         IN  /\ \E now \in c.cands : Works(A, c, now, Db) /\ (~A.err => Answer(A, c, now, why, r))
             /\ ~A.err => /\ 1 \in DOMAIN A.shadows /\ Home(r) \in DOMAIN A.shadows
                          /\ Covered(A, 1) /\ Covered(A, Home(r))
                          /\ \A q \in Row : Leaf(A, q) = Home(q)
  <1> DEFINE R == Fetch(T, Root, why)
             B == Fetch(R, Home(r), why)
             A == Descend(T, r, why)
  <1>1. /\ \E now \in c.cands : Works(R, c, now, Db) /\ (1 \in DOMAIN T.shadows => now = tab)
        /\ ~R.err => 1 \in DOMAIN R.shadows /\ Covered(R, 1) /\ R.shadows[1] = Route /\ Keeps(T, R)
    BY FetchRootWorks
  <1>2. A = IF R.err THEN R ELSE Fetch(R, Leaf(R, r), why)
    BY DEF Descend, Then
  <1> HIDE DEF R
  <1>3. PICK one \in c.cands : Works(R, c, one, Db)
    BY <1>1
  <1>4. CASE R.err
    <2> HIDE DEF A
    <2>1. A = R
      BY <1>2, <1>4
    <2> QED BY <1>3, <1>4, <2>1 DEF A
  <1>5. CASE ~R.err
    <2>1. Leaf(R, r) = Home(r)
      BY <1>1, <1>5, PagesAre DEF Leaf, Route
    <2>2. /\ \E now \in c.cands : Works(B, c, now, Db) /\ (~B.err => Answer(B, c, now, why, r))
          /\ ~B.err => Home(r) \in DOMAIN B.shadows /\ Covered(B, Home(r)) /\ Keeps(R, B)
      BY <1>3, <1>5, FetchLeafWorks
    <2>3. A = B
      BY <1>2, <1>5, <2>1
    <2> HIDE DEF A, B
    <2>4. PICK now \in c.cands : Works(B, c, now, Db) /\ (~B.err => Answer(B, c, now, why, r))
      BY <2>2
    <2>5. ASSUME ~B.err
          PROVE  1 \in DOMAIN B.shadows /\ Covered(B, 1) /\ \A q \in Row : Leaf(B, q) = Home(q)
      <3>1. 1 \in DOMAIN B.shadows /\ Covered(B, 1)
        BY <1>1, <1>5, <2>2, <2>5 DEF Keeps
      <3>2. B.shadows[1] = Route
        BY <2>4, <3>1, TypedIs
      <3> QED BY <3>1, <3>2, PagesAre DEF Leaf, Route
    <2> QED BY <2>2, <2>3, <2>4, <2>5 DEF A
  <1> QED BY <1>4, <1>5

\* The two transactions have read the same.
Fixed(T, A) ==
    /\ A.begin_epoch = T.begin_epoch
    /\ A.read_stamps = T.read_stamps /\ A.shadow_epoch = T.shadow_epoch /\ A.page_kind = T.page_kind
    /\ A.sem_pages = T.sem_pages /\ A.sem_rows = T.sem_rows /\ A.view_advanced = T.view_advanced

\* An image is one for every transaction and client with the same stamps and tables.
LEMMA ImageFixed ==
  ASSUME NEW T, NEW A, NEW c, NEW b, NEW tab, NEW d, NEW m, NEW own, NEW p,
         Fixed(T, A), b.cands = c.cands, Image(T, c, tab, d, m, own, p)
  PROVE  Image(A, b, tab, d, m, own, p)
  BY DEF Fixed, Image, Based, Firm

\* note_decision_read.
LEMMA DecisionWorks ==
  ASSUME NEW T, NEW c, NEW tab, NEW d, Works(T, c, tab, d)
  PROVE  LET A == NoteDecisionRead(T, Root)
         IN  Works(A, c, tab, d) /\ A.err = T.err /\ A.shadows = T.shadows /\ A.savepoints = T.savepoints
             /\ A.sem_rows = T.sem_rows /\ A.row_journal = T.row_journal
  <1> DEFINE s == T.decision_reads \cup {Root}
             A == [T EXCEPT !.decision_reads = s]
  <1>1. T \in Txns /\ Core(T, c, tab, d) /\ Kinds(T, d) /\ Images(T, c, tab, d) /\ Saves(T, c)
    BY WorksCore
  <1>2. s \in SUBSET {1}
    BY <1>1, TxnIs, PagesAre
  <1>3. NoteDecisionRead(T, Root) = A
    BY DEF NoteDecisionRead
  <1> HIDE DEF s
  <1>4. A \in Txns /\ SameBut(T, A) /\ A.err = T.err /\ A.sem_rows = T.sem_rows /\ A.sem_pages = T.sem_pages
    BY <1>1, <1>2 DEF Txns, SameBut
  <1> HIDE DEF A
  <1>5. Kinds(A, d)
    <2>1. Fetched(A) = Fetched(T)
      BY <1>4 DEF SameBut, Fetched
    <2> QED BY <1>1, <1>4, <2>1 DEF Kinds, SameBut
  <1>6. Images(A, c, tab, d)
    BY <1>1, <1>4 DEF Images, Image, Based, Firm, SameBut
  <1>7. Saves(A, c)
    BY <1>1, <1>4 DEF Saves, SameBut
  <1>8. Core(A, c, tab, d)
    BY <1>1, <1>4 DEF Core, Journal, NetZero, Tracked, ByRow, ByPage, Since, SameBut
  <1> QED BY <1>3, <1>4, <1>5, <1>6, <1>7, <1>8, WorksCore DEF SameBut

-----------------------------------------------------------------------------
(* Writing rows. *)

\* The last word on a row is the entry just journalled.
LEMMA SaysAppend ==
  ASSUME NEW j \in Seq(Entry), NEW e \in Entry, NEW own \in Partial, NEW new \in Partial, Says(j, own),
         \A r \in Row : new[r] = IF r = e.row THEN e.val ELSE own[r]
  PROVE  Says(Append(j, e), new) /\ RowsOf(Append(j, e)) = RowsOf(j) \cup {e.row}
  <1> DEFINE a == Append(j, e)
  <1>1. /\ Len(j) \in Nat /\ Len(a) = Len(j) + 1 /\ a[Len(j) + 1] = e
        /\ \A k \in 1 .. Len(j) : a[k] = j[k] /\ k \in 1 .. Len(a) /\ k < Len(j) + 1
    OBVIOUS
  <1>2. \A k \in 1 .. Len(a) : k \in 1 .. Len(j) \/ k = Len(j) + 1
    BY <1>1
  <1> HIDE DEF a
  <1>3. RowsOf(a) = RowsOf(j) \cup {e.row}
    BY <1>1, <1>2 DEF RowsOf
  <1>4. ASSUME NEW r \in Row
        PROVE  IF r \in RowsOf(a)
               THEN \E k \in 1 .. Len(a) : /\ a[k].row = r /\ new[r] = a[k].val
                                           /\ \A l \in 1 .. Len(a) : l > k => a[l].row # r
               ELSE new[r] = Unknown
    <2>1. CASE r = e.row
      <3>1. Len(j) + 1 \in 1 .. Len(a) /\ a[Len(j) + 1].row = r /\ new[r] = a[Len(j) + 1].val
        BY <1>1, <2>1
      <3>2. \A l \in 1 .. Len(a) : ~(l > Len(j) + 1)
        BY <1>1
      <3> QED BY <1>3, <2>1, <3>1, <3>2
    <2>2. CASE r # e.row /\ r \in RowsOf(j)
      <3>1. PICK k \in 1 .. Len(j) : /\ j[k].row = r /\ own[r] = j[k].val
                                     /\ \A l \in 1 .. Len(j) : l > k => j[l].row # r
        BY <2>2 DEF Says
      <3>2. k \in 1 .. Len(a) /\ a[k].row = r /\ new[r] = a[k].val
        BY <1>1, <2>2, <3>1
      <3>3. \A l \in 1 .. Len(a) : l > k => a[l].row # r
        BY <1>1, <1>2, <2>2, <3>1
      <3> QED BY <1>3, <2>2, <3>2, <3>3
    <2>3. CASE r # e.row /\ r \notin RowsOf(j)
      BY <1>3, <2>3 DEF Says
    <2> QED BY <2>1, <2>2, <2>3
  <1> QED BY <1>3, <1>4 DEF Says, a

\* What came before is still there.
LEMMA PrefixAppend ==
  ASSUME NEW j \in Seq(Entry), NEW e \in Entry, NEW m \in Nat, m <= Len(j)
  PROVE  SubSeq(Append(j, e), 1, m) = SubSeq(j, 1, m)
  OBVIOUS

\* The kinds of entries.
Writes == {"insert", "replace"}

\* The entry of a write that found what it looked for.
Note(kind, r, v) == [kind |-> kind, row |-> r, val |-> v, ok |-> TRUE]

\* It is an entry.
LEMMA NoteIs ==
  ASSUME NEW r \in Row, NEW v \in Val, NEW kind \in Writes
  PROVE  /\ Note(kind, r, v) \in Entry /\ Note(kind, r, v).row = r /\ Note(kind, r, v).val = v
         /\ Note(kind, r, v).kind = kind
  BY DEF Note, Entry, Writes

\* A cell of leaf p written and journalled.
Put(T, p, kind, r, v) == NoteRowWrite(SetCell(T, p, r, v), kind, r, v, TRUE)

\* The fields after a cell of a leaf is written and journalled.
LEMMA WriteIs ==
  ASSUME NEW T \in Txns, NEW p \in DOMAIN T.shadows, p \in Leaves, NEW r \in Row, NEW v \in Val,
         NEW kind \in Writes
  PROVE  LET A == Put(T, p, kind, r, v)
         IN  /\ A \in Txns /\ Fixed(T, A) /\ A.err = T.err /\ A.savepoints = T.savepoints
             /\ A.dirtied = T.dirtied \cup {p} /\ DOMAIN A.shadows = DOMAIN T.shadows
             /\ \A x \in Row : A.shadows[p][x] = IF x = r THEN v ELSE T.shadows[p][x]
             /\ \A q \in DOMAIN T.shadows : q # p => A.shadows[q] = T.shadows[q]
             /\ A.row_journal = Append(T.row_journal, Note(kind, r, v))
  <1> DEFINE e == Note(kind, r, v)
             m == [T.shadows[p] EXCEPT ![r] = v]
             s == [T.shadows EXCEPT ![p] = m]
             D == T.dirtied \cup {p}
             j == Append(T.row_journal, e)
             B == [T EXCEPT !.shadows = s, !.dirtied = D]
             A == [B EXCEPT !.row_journal = j]
  <1>1. e \in Entry
    BY NoteIs
  <1>2. T.shadows \in Copies /\ T.dirtied \subseteq Leaves /\ T.row_journal \in Seq(Entry) /\ p \in Top
        /\ T.shadows[p] \in [Row -> Nat] /\ DOMAIN T.shadows \subseteq Top
        /\ T.shadows \in [DOMAIN T.shadows -> [Row -> Nat]]
    BY TxnIs, CopiesAre
  <1>3. m \in [Row -> Nat] /\ \A x \in Row : m[x] = IF x = r THEN v ELSE T.shadows[p][x]
    BY <1>2, UnknownIs
  <1>4. SetCell(T, p, r, v) = B
    BY DEF SetCell, Txns
  <1>5. Put(T, p, kind, r, v) = A
    <2>1. B.row_journal = T.row_journal
      BY DEF Txns
    <2> HIDE DEF B
    <2> QED BY <1>4, <2>1 DEF Put, NoteRowWrite, Note
  <1> HIDE DEF e, m
  <1>6. s \in [DOMAIN T.shadows -> [Row -> Nat]] /\ DOMAIN s = DOMAIN T.shadows /\ s[p] = m
        /\ \A q \in DOMAIN T.shadows : q # p => s[q] = T.shadows[q]
    BY <1>2, <1>3
  <1> HIDE DEF s
  <1>7. s \in Copies
    BY <1>2, <1>6, CopiesAre
  <1>8. D \in SUBSET Leaves /\ j \in Seq(Entry)
    BY <1>1, <1>2
  <1> HIDE DEF D, j
  <1>9. A \in Txns /\ Fixed(T, A) /\ A.err = T.err /\ A.savepoints = T.savepoints
        /\ A.shadows = s /\ A.dirtied = D /\ A.row_journal = j
    BY <1>7, <1>8 DEF Txns, Fixed
  <1> HIDE DEF A
  <1> QED BY <1>3, <1>5, <1>6, <1>9 DEF e, D, j

\* What a client's write changes.
LEMMA WroteIs ==
  ASSUME NEW c \in Clients, NEW r \in Row, NEW v \in Val
  PROVE  LET b == Wrote(c, r, v)
         IN  /\ b \in Clients /\ b.cands = c.cands /\ b.seen = c.seen /\ b.saves = c.saves
             /\ \A q \in Row : b.own[q] = IF q = r THEN v ELSE c.own[q]
  <1> DEFINE f == [c.own EXCEPT ![r] = v]
             b == [c EXCEPT !.own = f]
  <1>1. c.own \in Partial
    BY ClientIs
  <1>2. f \in Partial /\ \A q \in Row : f[q] = IF q = r THEN v ELSE c.own[q]
    BY <1>1, UnknownIs DEF Partial
  <1>3. Wrote(c, r, v) = b
    BY DEF Wrote, Clients
  <1> HIDE DEF f
  <1>4. b \in Clients /\ b.cands = c.cands /\ b.seen = c.seen /\ b.saves = c.saves /\ b.own = f
    BY <1>2 DEF Clients
  <1> HIDE DEF b
  <1> QED BY <1>2, <1>3, <1>4

\* A write of a row that was looked up, in a leaf every savepoint has captured.
LEMMA WriteWorks ==
  ASSUME NEW T, NEW c, NEW tab, NEW d, Works(T, c, tab, d), NEW r \in Row, NEW v \in Val,
         NEW kind \in Writes,
         Home(r) \in DOMAIN T.shadows, Covered(T, Home(r)), T.sem_rows[r] # 0,
         kind = "replace" => r \in RowsOf(T.row_journal) \/ c.seen[r] \notin {Unknown, Absent}
  PROVE  LET A == Put(T, Home(r), kind, r, v)
         IN  Works(A, Wrote(c, r, v), tab, d) /\ A.err = T.err
  <1> DEFINE p == Home(r)
             A == Put(T, p, kind, r, v)
             e == Note(kind, r, v)
             b == Wrote(c, r, v)
  <1>1. T \in Txns /\ Core(T, c, tab, d) /\ Kinds(T, d) /\ Images(T, c, tab, d) /\ Saves(T, c)
        /\ c \in Clients /\ tab \in c.cands /\ TableIn(d) \in c.cands
    BY WorksCore DEF Core
  <1>2. p \in Leaves /\ p # 1 /\ p \in Top /\ p \in DOMAIN T.shadows
    BY PagesAre
  <1> HIDE DEF p
  <1>3. /\ A \in Txns /\ Fixed(T, A) /\ A.err = T.err /\ A.savepoints = T.savepoints
        /\ A.dirtied = T.dirtied \cup {p} /\ DOMAIN A.shadows = DOMAIN T.shadows
        /\ \A x \in Row : A.shadows[p][x] = IF x = r THEN v ELSE T.shadows[p][x]
        /\ \A q \in DOMAIN T.shadows : q # p => A.shadows[q] = T.shadows[q]
        /\ A.row_journal = Append(T.row_journal, e)
    BY <1>1, <1>2, WriteIs
  <1>4. /\ b \in Clients /\ b.cands = c.cands /\ b.seen = c.seen /\ b.saves = c.saves
        /\ \A q \in Row : b.own[q] = IF q = r THEN v ELSE c.own[q]
    BY <1>1, WroteIs
  <1>5. e.row = r /\ e.val = v /\ e.kind = kind /\ e \in Entry
    BY NoteIs
  <1>6. v \in Cell /\ v # Unknown
    BY UnknownIs
  <1>7. p \in DOMAIN T.shadows
    BY <1>2
  <1>8. \A q \in Row : Home(q) \in Leaves
    BY PagesAre
  <1> HIDE DEF A, b, e, p
  <1>9. Kinds(A, d)
    <2>1. Fetched(A) = Fetched(T)
      BY <1>3 DEF Fixed, Fetched
    <2> QED BY <1>1, <1>3, <1>7, <2>1 DEF Kinds, Fixed
  <1>10. Images(A, b, tab, d)
    <2>1. ASSUME NEW q \in DOMAIN A.shadows PROVE Image(A, b, tab, d, A.shadows[q], b.own, q)
      <3>1. Image(T, c, tab, d, T.shadows[q], c.own, q)
        BY <1>1, <1>3, <2>1 DEF Images
      <3>2. Image(A, b, tab, d, T.shadows[q], c.own, q)
        BY <1>3, <1>4, <3>1, ImageFixed
      <3>3. CASE q # p
        <4>1. A.shadows[q] = T.shadows[q]
          BY <1>3, <3>3
        <4>2. \A x \in Row : Home(x) = q => b.own[x] = c.own[x]
          BY <1>4, <3>3 DEF p
        <4> QED BY <3>2, <4>1, <4>2 DEF Image
      <3>4. CASE q = p
        <4>1. LeafImage(T.shadows[p], p)
          BY <1>2, <3>2, <3>4 DEF Image
        <4>2. \A x \in Row : A.shadows[p][x] = IF x = r THEN v ELSE T.shadows[p][x]
          BY <1>3
        <4>3. A.shadows[p] \in [Row -> Cell]
          <5>1. A.shadows[p] \in [Row -> Nat]
            BY <1>2, <1>3, TxnIs
          <5> QED BY <1>6, <4>1, <4>2, <5>1 DEF LeafImage
        <4>4. LeafImage(A.shadows[p], p)
          BY <4>1, <4>2, <4>3 DEF LeafImage, p
        <4>5. ASSUME NEW x \in Row, Home(x) = p
              PROVE  IF b.own[x] # Unknown THEN A.shadows[p][x] = b.own[x]
                     ELSE Based(A, b, tab, d, p, x, A.shadows[p][x])
          <5>1. CASE x = r
            BY <1>4, <1>6, <4>2, <5>1
          <5>2. CASE x # r
            <6>1. IF c.own[x] # Unknown THEN T.shadows[p][x] = c.own[x]
                  ELSE Based(A, b, tab, d, p, x, T.shadows[p][x])
              BY <1>2, <3>2, <3>4, <4>5 DEF Image
            <6> QED BY <1>4, <4>2, <5>2, <6>1
          <5> QED BY <5>1, <5>2
        <4> QED BY <1>2, <3>4, <4>4, <4>5 DEF Image
      <3> QED BY <3>3, <3>4
    <2>2. ASSUME NEW i \in 1 .. Len(A.savepoints), NEW q \in DOMAIN A.savepoints[i].undo
          PROVE  Image(A, b, tab, d, A.savepoints[i].undo[q], b.saves[i], q)
      <3>1. Image(T, c, tab, d, T.savepoints[i].undo[q], c.saves[i], q)
        BY <1>1, <1>3 DEF Images
      <3> QED BY <1>3, <1>4, <3>1, ImageFixed
    <2> QED BY <2>1, <2>2 DEF Images
  <1>11. T.row_journal \in Seq(Entry) /\ T.savepoints \in Seq(Level) /\ c.own \in Partial /\ b.own \in Partial
    BY <1>1, <1>4, TxnIs, ClientIs
  <1>12. Says(A.row_journal, b.own) /\ RowsOf(A.row_journal) = RowsOf(T.row_journal) \cup {r}
    <2>1. Says(T.row_journal, c.own)
      BY <1>1 DEF Core, Journal
    <2> QED BY <1>3, <1>4, <1>5, <1>11, <2>1, SaysAppend
  <1>13. Saves(A, b)
    <2>1. ASSUME NEW i \in 1 .. Len(A.savepoints)
          PROVE  /\ \A q \in Row : Home(q) \notin DOMAIN A.savepoints[i].undo => b.saves[i][q] = b.own[q]
                 /\ A.savepoints[i].journal_mark <= Len(A.row_journal)
                 /\ Says(SubSeq(A.row_journal, 1, A.savepoints[i].journal_mark), b.saves[i])
      <3>1. /\ \A q \in Row : Home(q) \notin DOMAIN T.savepoints[i].undo => c.saves[i][q] = c.own[q]
            /\ T.savepoints[i].journal_mark <= Len(T.row_journal)
            /\ Says(SubSeq(T.row_journal, 1, T.savepoints[i].journal_mark), c.saves[i])
        BY <1>1, <1>3 DEF Saves
      <3>2. p \in DOMAIN T.savepoints[i].undo
        BY <1>3 DEF Covered, p
      <3>3. T.savepoints[i] \in Level
        BY <1>3, <1>11
      <3>4. T.savepoints[i].journal_mark \in Nat
        BY <3>3, LevelIs
      <3>5. SubSeq(A.row_journal, 1, T.savepoints[i].journal_mark)
              = SubSeq(T.row_journal, 1, T.savepoints[i].journal_mark)
        BY <1>3, <1>5, <1>11, <3>1, <3>4, PrefixAppend
      <3>6. Len(A.row_journal) = Len(T.row_journal) + 1
        BY <1>3, <1>11
      <3>7. T.savepoints[i].journal_mark <= Len(A.row_journal)
        BY <1>11, <3>1, <3>4, <3>6
      <3> QED BY <1>3, <1>4, <3>1, <3>2, <3>5, <3>7 DEF p
    <2>2. Len(A.savepoints) = Len(b.saves) /\ \A i \in 1 .. Len(A.savepoints) : \A k \in 1 .. i - 1 :
            /\ DOMAIN A.savepoints[i].undo \subseteq DOMAIN A.savepoints[k].undo
            /\ A.savepoints[k].journal_mark <= A.savepoints[i].journal_mark
      BY <1>1, <1>3, <1>4 DEF Saves
    <2> QED BY <2>1, <2>2 DEF Saves
  <1>14. Journal(A, b)
    <2>1. ASSUME NEW k \in 1 .. Len(A.row_journal), A.row_journal[k].kind = "replace"
          PROVE  \/ \E l \in 1 .. k - 1 : A.row_journal[l].row = A.row_journal[k].row
                 \/ b.seen[A.row_journal[k].row] \notin {Unknown, Absent}
      <3>1. /\ Len(T.row_journal) \in Nat /\ Len(A.row_journal) = Len(T.row_journal) + 1
            /\ A.row_journal[Len(T.row_journal) + 1] = e
            /\ \A l \in 1 .. Len(T.row_journal) : A.row_journal[l] = T.row_journal[l]
        BY <1>3, <1>11
      <3>2. CASE k \in 1 .. Len(T.row_journal)
        <4>1. \/ \E l \in 1 .. k - 1 : T.row_journal[l].row = T.row_journal[k].row
              \/ c.seen[T.row_journal[k].row] \notin {Unknown, Absent}
          BY <1>1, <2>1, <3>1, <3>2 DEF Core, Journal
        <4>2. \A l \in 1 .. k - 1 : l \in 1 .. Len(T.row_journal)
          BY <3>1, <3>2
        <4> QED BY <1>4, <3>1, <3>2, <4>1, <4>2
      <3>3. CASE k = Len(T.row_journal) + 1
        <4>1. A.row_journal[k] = e /\ kind = "replace" /\ k - 1 = Len(T.row_journal)
          BY <1>5, <2>1, <3>1, <3>3
        <4>2. CASE c.seen[r] \notin {Unknown, Absent}
          BY <1>4, <1>5, <4>1, <4>2
        <4>3. CASE r \in RowsOf(T.row_journal)
          <5>1. PICK l \in 1 .. Len(T.row_journal) : T.row_journal[l].row = r
            BY <4>3 DEF RowsOf
          <5> QED BY <1>5, <3>1, <4>1, <5>1
        <4> QED BY <4>1, <4>2, <4>3
      <3> QED BY <3>1, <3>2, <3>3
    <2>2. \A q \in Row : b.own[q] # Unknown => A.sem_rows[q] # 0
      BY <1>1, <1>3, <1>4 DEF Core, Journal, Fixed
    <2> QED BY <1>12, <2>1, <2>2 DEF Journal
  <1>15. NetZero(A, b, d)
    BY <1>1, <1>3, <1>4 DEF Core, NetZero, Fixed, p
  <1>16. Tracked(A, b, d) /\ Since(A, tab, d)
    BY <1>1, <1>3, <1>4 DEF Core, Tracked, ByRow, ByPage, Since, Fixed
  <1>17. Core(A, b, tab, d)
    BY <1>1, <1>4, <1>14, <1>15, <1>16 DEF Core
  <1> QED BY <1>3, <1>9, <1>10, <1>13, <1>17, WorksCore DEF A, b, p

-----------------------------------------------------------------------------
(* Statements. *)

\* b has been told what c was, and maybe more.
Learns(c, b) ==
    /\ b \in Clients /\ b.cands = c.cands /\ b.saves = c.saves
    /\ \A q \in Row : c.seen[q] \in {Unknown, b.seen[q]}

\* A client is told rows of tab that T can validate.
LEMMA SeenWorks ==
  ASSUME NEW T, NEW c, NEW tab, NEW d, Works(T, c, tab, d), NEW b \in Clients,
         b.cands = c.cands, b.saves = c.saves, b.own = c.own,
         \A q \in Row : \/ b.seen[q] = c.seen[q]
                        \/ b.seen[q] = tab[q] /\ (ByRow(T, d, q, tab[q]) \/ ByPage(T, d, q, tab[q]))
  PROVE  Works(T, b, tab, d) /\ Learns(c, b)
  <1>1. T \in Txns /\ Core(T, c, tab, d) /\ Kinds(T, d) /\ Images(T, c, tab, d) /\ Saves(T, c)
    BY WorksCore
  <1>2. Images(T, b, tab, d)
    BY <1>1 DEF Images, Image, Based
  <1>3. Saves(T, b)
    BY <1>1 DEF Saves
  <1>4. \A q \in Row : c.seen[q] \in {Unknown, tab[q]} /\ b.seen[q] \in {Unknown, tab[q]} /\ c.seen[q] \in {Unknown, b.seen[q]}
    BY <1>1 DEF Core
  <1>5. Journal(T, b)
    <2>1. T.row_journal \in Seq(Entry)
      BY <1>1, TxnIs
    <2>2. \A k \in 1 .. Len(T.row_journal) : T.row_journal[k].row \in Row
      <3>1. \A k \in 1 .. Len(T.row_journal) : T.row_journal[k] \in Entry
        BY <2>1
      <3>2. \A e \in Entry : e.row \in Row
        BY DEF Entry
      <3> QED BY <3>1, <3>2
    <2>3. \A q \in Row : c.seen[q] \notin {Unknown, Absent} => b.seen[q] \notin {Unknown, Absent}
      BY <1>4
    <2> QED BY <1>1, <2>2, <2>3 DEF Core, Journal
  <1>6. NetZero(T, b, d)
    BY <1>1 DEF Core, NetZero
  <1>7. Tracked(T, b, d)
    BY <1>1 DEF Core, Tracked
  <1>8. Core(T, b, tab, d)
    BY <1>1, <1>4, <1>5, <1>6, <1>7 DEF Core
  <1> QED BY <1>1, <1>2, <1>3, <1>4, <1>8, WorksCore DEF Learns

\* The answer of a lookup.
LEMMA TellWorks ==
  ASSUME NEW T, NEW c, NEW tab, NEW d, Works(T, c, tab, d), NEW r \in Row, Home(r) \in DOMAIN T.shadows,
         Valid(T, c, tab, d, r)
  PROVE  LET b == Told(c, r, T.shadows[Home(r)][r])
         IN  /\ Works(T, b, tab, d) /\ Learns(c, b) /\ b.own = c.own
             /\ c.own[r] = Unknown => b.seen[r] = T.shadows[Home(r)][r]
             /\ T.shadows[Home(r)][r] \in Cell
  <1> DEFINE v == T.shadows[Home(r)][r]
             f == [c.seen EXCEPT ![r] = v]
             b == Told(c, r, v)
  <1>1. c \in Clients /\ tab \in c.cands /\ \A q \in Row : c.seen[q] \in {Unknown, tab[q]}
    BY WorksCore DEF Core
  <1>2. LeafImage(T.shadows[Home(r)], Home(r))
    BY PagesAre, BaseOf
  <1>3. v \in Cell
    BY <1>2 DEF LeafImage
  <1>4. CASE c.own[r] # Unknown
    <2>1. b = c
      BY <1>4 DEF Told
    <2> HIDE DEF b
    <2>2. Learns(c, c)
      BY <1>1 DEF Learns
    <2> QED BY <1>3, <1>4, <2>1, <2>2 DEF b
  <1>5. CASE c.own[r] = Unknown
    <2>1. v = tab[r] /\ (ByRow(T, d, r, v) \/ ByPage(T, d, r, v))
      BY <1>5 DEF Valid
    <2>2. b = [c EXCEPT !.seen[r] = v]
      BY <1>1, <1>5, <2>1 DEF Told
    <2> HIDE DEF v
    <2>3. c.seen \in Partial
      BY <1>1, ClientIs
    <2>4. f \in Partial /\ \A q \in Row : f[q] = IF q = r THEN v ELSE c.seen[q]
      BY <1>3, <2>3 DEF Partial
    <2>5. b = [c EXCEPT !.seen = f]
      BY <1>1, <2>2 DEF Clients
    <2> HIDE DEF f, b
    <2>6. b \in Clients /\ b.cands = c.cands /\ b.saves = c.saves /\ b.own = c.own /\ b.seen = f
      BY <1>1, <2>4, <2>5 DEF Clients
    <2>7. \A q \in Row : \/ b.seen[q] = c.seen[q]
                         \/ b.seen[q] = tab[q] /\ (ByRow(T, d, q, tab[q]) \/ ByPage(T, d, q, tab[q]))
      BY <2>1, <2>4, <2>6
    <2>8. Works(T, b, tab, d) /\ Learns(c, b)
      BY <2>6, <2>7, SeenWorks
    <2> QED BY <1>3, <2>4, <2>6, <2>8 DEF b, v
  <1> QED BY <1>4, <1>5

\* The answers of a scan.
LEMMA TellAllWorks ==
  ASSUME NEW T, NEW c, NEW tab, NEW d, Works(T, c, tab, d), NEW S \in SUBSET Row,
         \A q \in S : Home(q) \in DOMAIN T.shadows /\ Valid(T, c, tab, d, q)
  PROVE  LET b == ToldAll(c, [q \in S |-> T.shadows[Home(q)][q]])
         IN  Works(T, b, tab, d) /\ Learns(c, b)
  <1> DEFINE g == [q \in S |-> T.shadows[Home(q)][q]]
             new == {q \in S : c.own[q] = Unknown}
             f == [q \in Row |-> IF q \in new /\ c.seen[q] = Unknown THEN g[q] ELSE c.seen[q]]
             b == ToldAll(c, g)
  <1>1. c \in Clients /\ tab \in c.cands /\ \A q \in Row : c.seen[q] \in {Unknown, tab[q]}
    BY WorksCore DEF Core
  <1>2. \A q \in new : /\ g[q] = tab[q] /\ (ByRow(T, d, q, tab[q]) \/ ByPage(T, d, q, tab[q]))
    BY DEF Valid
  <1>3. \A q \in S : g[q] \in Cell
    <2>1. \A q \in S : LeafImage(T.shadows[Home(q)], Home(q))
      BY PagesAre, BaseOf
    <2> QED BY <2>1 DEF LeafImage
  <1>4. DOMAIN g = S
    OBVIOUS
  <1> HIDE DEF g
  <1>5. ~ \E q \in new : c.seen[q] \notin {Unknown, g[q]}
    BY <1>1, <1>2
  <1>6. c.torn = FALSE /\ c.seen \in Partial
    BY <1>1, ClientIs
  <1>7. b = [c EXCEPT !.torn = FALSE, !.seen = f]
    BY <1>4, <1>5, <1>6 DEF ToldAll
  <1>8. f \in Partial
    BY <1>3, <1>6 DEF Partial
  <1>9. \A q \in Row : \/ f[q] = c.seen[q]
                       \/ f[q] = tab[q] /\ (ByRow(T, d, q, tab[q]) \/ ByPage(T, d, q, tab[q]))
    BY <1>2
  <1> HIDE DEF f, b
  <1>10. b \in Clients /\ b.cands = c.cands /\ b.saves = c.saves /\ b.own = c.own /\ b.seen = f
    BY <1>1, <1>7, <1>8 DEF Clients
  <1>11. Works(T, b, tab, d) /\ Learns(c, b)
    BY <1>9, <1>10, SeenWorks
  <1> QED BY <1>11 DEF b, g

\* A descent that finds its pages: nothing is read, and nothing fails.
LEMMA DescendHit ==
  ASSUME NEW T, NEW c, NEW tab, Sound(Db), n_pages = 4, Works(T, c, tab, Db), ~T.err,
         NEW r \in Row, 1 \in DOMAIN T.shadows, Home(r) \in DOMAIN T.shadows
  PROVE  LET A == Descend(T, r, Structural)
         IN  Works(A, c, tab, Db) /\ ~A.err /\ Covered(A, Home(r)) /\ Alike(T, A) /\ Leaf(A, r) = Home(r)
  <1> DEFINE R == Fetch(T, Root, Structural)
             B == Fetch(R, Home(r), Structural)
             A == Descend(T, r, Structural)
  <1>0. Structural \in Reasons(r)
    BY DEF Reasons
  <1>1. /\ \E now \in c.cands : Works(R, c, now, Db) /\ (1 \in DOMAIN T.shadows => now = tab)
        /\ ~R.err => 1 \in DOMAIN R.shadows /\ Covered(R, 1) /\ R.shadows[1] = Route /\ Keeps(T, R)
        /\ 1 \in DOMAIN T.shadows => ~R.err /\ Alike(T, R)
    BY <1>0, FetchRootWorks
  <1>2. A = IF R.err THEN R ELSE Fetch(R, Leaf(R, r), Structural)
    BY DEF Descend, Then
  <1> HIDE DEF R
  <1>3. Works(R, c, tab, Db) /\ ~R.err /\ Alike(T, R) /\ R.shadows[1] = Route
    BY <1>1
  <1>4. R.shadows = T.shadows
    BY <1>3 DEF Alike
  <1>5. /\ \E now \in c.cands : /\ Works(B, c, now, Db) /\ (~B.err => Answer(B, c, now, Structural, r))
                                /\ Home(r) \in DOMAIN R.shadows => now = tab
        /\ ~B.err => Home(r) \in DOMAIN B.shadows /\ Covered(B, Home(r)) /\ Keeps(R, B)
        /\ Home(r) \in DOMAIN R.shadows /\ Structural = Structural => ~B.err /\ Alike(R, B)
    BY <1>0, <1>3, FetchLeafWorks
  <1>6. Leaf(R, r) = Home(r)
    BY <1>3, PagesAre DEF Leaf, Route
  <1>7. A = B
    BY <1>2, <1>3, <1>6
  <1> HIDE DEF A, B
  <1>8. Works(B, c, tab, Db) /\ ~B.err /\ Alike(R, B) /\ Covered(B, Home(r))
    BY <1>4, <1>5
  <1>9. Alike(T, B) /\ Leaf(B, r) = Home(r)
    BY <1>3, <1>6, <1>8 DEF Alike, Leaf
  <1> QED BY <1>7, <1>8, <1>9 DEF A

\* Every row fits in its leaf.
LEMMA LeafHasRoom ==
  ASSUME InPlace, NEW leaf, NEW r \in Row, leaf[r] = Absent
  PROVE  Cardinality(Rows(leaf)) < LeafCap
  <1>1. Rows(leaf) \subseteq Row \ {r}
    BY DEF Rows
  <1>2. IsFiniteSet(Row) /\ LeafCap \in Nat
    BY ConcurrentAssumption
  <1>3. IsFiniteSet(Row \ {r}) /\ Cardinality(Row \ {r}) = Cardinality(Row) - 1
    BY <1>2, FS_RemoveElement
  <1>4. Cardinality(Rows(leaf)) <= Cardinality(Row \ {r}) /\ IsFiniteSet(Rows(leaf))
    BY <1>1, <1>3, FS_Subset
  <1>5. Cardinality(Row) \in Nat /\ Cardinality(Rows(leaf)) \in Nat /\ Cardinality(Row) <= LeafCap
    BY <1>2, <1>4, FS_CardinalityType DEF InPlace
  <1> QED BY <1>2, <1>3, <1>4, <1>5

\* insert_table after a lookup that found nothing.
LEMMA InsertWorks ==
  ASSUME InPlace, NEW T, NEW c, NEW tab, Sound(Db), n_pages = 4, Works(T, c, tab, Db), ~T.err,
         NEW r \in Row, NEW v \in Val, NEW n, 1 \in DOMAIN T.shadows, Home(r) \in DOMAIN T.shadows,
         T.sem_rows[r] # 0, T.shadows[Home(r)][r] = Absent
  PROVE  LET A == InsertTable(T, r, v, n)
         IN  Works(A, Wrote(c, r, v), tab, Db) /\ ~A.err
  <1> DEFINE R == Fetch(T, Root, Structural)
             D == NoteDecisionRead(R, Root)
             B == Fetch(D, Home(r), Structural)
             A == InsertTable(T, r, v, n)
  <1>0. Structural \in Reasons(r)
    BY DEF Reasons
  <1>1. /\ \E now \in c.cands : Works(R, c, now, Db) /\ (1 \in DOMAIN T.shadows => now = tab)
        /\ ~R.err => 1 \in DOMAIN R.shadows /\ Covered(R, 1) /\ R.shadows[1] = Route /\ Keeps(T, R)
        /\ 1 \in DOMAIN T.shadows => ~R.err /\ Alike(T, R)
    BY <1>0, FetchRootWorks
  <1>2. A = LET G == IF R.err THEN R ELSE Fetch(NoteDecisionRead(R, Root), Leaf(R, r), Structural)
            IN  IF G.err THEN NoteJournalInvalidated(G)
                ELSE NoteRowWrite(PlaceCell(G, Leaf(G, r), r, v, n), "insert", r, v, TRUE)
    BY DEF InsertTable, Journalled, Then
  <1> HIDE DEF R
  <1>3. Works(R, c, tab, Db) /\ ~R.err /\ Alike(T, R) /\ R.shadows[1] = Route
    BY <1>1
  <1>4. R.shadows = T.shadows /\ R.sem_rows = T.sem_rows
    BY <1>3 DEF Alike
  <1>5. Leaf(R, r) = Home(r)
    BY <1>3, PagesAre DEF Leaf, Route
  <1>6. Works(D, c, tab, Db) /\ D.err = R.err /\ D.shadows = R.shadows /\ D.sem_rows = R.sem_rows
    BY <1>3, DecisionWorks
  <1>7. A = IF B.err THEN NoteJournalInvalidated(B)
            ELSE NoteRowWrite(PlaceCell(B, Leaf(B, r), r, v, n), "insert", r, v, TRUE)
    BY <1>2, <1>3, <1>5
  <1> HIDE DEF D
  <1>8. /\ \E now \in c.cands : /\ Works(B, c, now, Db) /\ (~B.err => Answer(B, c, now, Structural, r))
                                /\ Home(r) \in DOMAIN D.shadows => now = tab
        /\ ~B.err => Home(r) \in DOMAIN B.shadows /\ Covered(B, Home(r)) /\ Keeps(D, B)
        /\ Home(r) \in DOMAIN D.shadows /\ Structural = Structural => ~B.err /\ Alike(D, B)
    BY <1>0, <1>3, <1>6, FetchLeafWorks
  <1> HIDE DEF B, A
  <1>9. Works(B, c, tab, Db) /\ ~B.err /\ Alike(D, B) /\ Covered(B, Home(r)) /\ Home(r) \in DOMAIN B.shadows
    BY <1>4, <1>6, <1>8
  <1>10. B.shadows = T.shadows /\ B.sem_rows = T.sem_rows
    BY <1>4, <1>6, <1>9 DEF Alike
  <1>11. Leaf(B, r) = Home(r)
    BY <1>4, <1>5, <1>10 DEF Leaf
  <1>12. Cardinality(Rows(B.shadows[Home(r)])) < LeafCap
    BY <1>10, LeafHasRoom
  <1>13. A = Put(B, Home(r), "insert", r, v)
    BY <1>7, <1>9, <1>11, <1>12 DEF PlaceCell, Put
  <1>14. "insert" \in Writes /\ "insert" # "replace"
    BY DEF Writes
  <1>15. Works(Put(B, Home(r), "insert", r, v), Wrote(c, r, v), tab, Db) /\ Put(B, Home(r), "insert", r, v).err = B.err
    BY <1>9, <1>10, <1>14, WriteWorks
  <1> QED BY <1>9, <1>13, <1>15 DEF A

\* update_table after a lookup that found the row.
LEMMA UpdateWorks ==
  ASSUME NEW T, NEW c, NEW tab, Sound(Db), n_pages = 4, Works(T, c, tab, Db), ~T.err,
         NEW r \in Row, NEW v \in Val, 1 \in DOMAIN T.shadows, Home(r) \in DOMAIN T.shadows,
         T.sem_rows[r] # 0, T.shadows[Home(r)][r] # Absent,
         c.own[r] = Unknown => c.seen[r] = T.shadows[Home(r)][r]
  PROVE  LET A == UpdateTable(T, r, v)
         IN  Works(A, Wrote(c, r, v), tab, Db) /\ ~A.err
  <1> DEFINE B == Descend(T, r, Structural)
             A == UpdateTable(T, r, v)
  <1>1. Works(B, c, tab, Db) /\ ~B.err /\ Covered(B, Home(r)) /\ Alike(T, B) /\ Leaf(B, r) = Home(r)
    BY DescendHit
  <1>2. A = IF B.err THEN NoteJournalInvalidated(B)
            ELSE IF Found(B, r) = Absent THEN NoteRowWrite(B, "replace", r, v, FALSE)
                 ELSE NoteRowWrite(SetCell(B, Leaf(B, r), r, v), "replace", r, v, TRUE)
    BY DEF UpdateTable, Journalled
  <1> HIDE DEF A, B
  <1>3. B.shadows = T.shadows /\ B.sem_rows = T.sem_rows /\ B.row_journal = T.row_journal
    BY <1>1 DEF Alike
  <1>4. Found(B, r) # Absent
    BY <1>1, <1>3 DEF Found
  <1>5. A = Put(B, Home(r), "replace", r, v)
    BY <1>1, <1>2, <1>4 DEF Put
  <1>6. "replace" \in Writes
    BY DEF Writes
  <1>7. r \in RowsOf(B.row_journal) \/ c.seen[r] \notin {Unknown, Absent}
    <2>1. CASE c.own[r] = Unknown
      <3>1. LeafImage(T.shadows[Home(r)], Home(r))
        BY PagesAre, BaseOf
      <3>2. c.seen[r] \in Cell
        BY <2>1, <3>1 DEF LeafImage
      <3> QED BY <2>1, <3>2, UnknownIs
    <2>2. CASE c.own[r] # Unknown
      BY <1>3, <2>2, WorksCore DEF Core, Journal, Says
    <2> QED BY <2>1, <2>2
  <1>8. Works(Put(B, Home(r), "replace", r, v), Wrote(c, r, v), tab, Db) /\ Put(B, Home(r), "replace", r, v).err = B.err
    BY <1>1, <1>3, <1>6, <1>7, WriteWorks
  <1> QED BY <1>1, <1>5, <1>8 DEF A

-----------------------------------------------------------------------------
(* Savepoints. *)

\* The first m elements.
LEMMA PrefixIs ==
  ASSUME NEW S, NEW s \in Seq(S), NEW m \in Nat, m <= Len(s)
  PROVE  LET a == SubSeq(s, 1, m)
         IN  /\ a \in Seq(S) /\ Len(a) = m /\ \A k \in 1 .. m : a[k] = s[k]
             /\ \A n \in Nat : n <= m => SubSeq(a, 1, n) = SubSeq(s, 1, n)
             /\ m = Len(s) => a = s
  OBVIOUS

\* One more element.
LEMMA AppendIs ==
  ASSUME NEW S, NEW s \in Seq(S), NEW e \in S
  PROVE  LET a == Append(s, e)
         IN  /\ a \in Seq(S) /\ Len(a) = Len(s) + 1 /\ a[Len(s) + 1] = e /\ Len(s) \in Nat
             /\ \A k \in 1 .. Len(s) : a[k] = s[k]
             /\ \A k \in 1 .. Len(a) : k \in 1 .. Len(s) \/ k = Len(s) + 1
  OBVIOUS

\* What a savepoint stack must say, level by level.
Nested(T, i) ==
    \A j \in 1 .. i - 1 : /\ DOMAIN T.savepoints[i].undo \subseteq DOMAIN T.savepoints[j].undo
                          /\ T.savepoints[j].journal_mark <= T.savepoints[i].journal_mark
Saved(T, c, i) ==
    /\ \A r \in Row : Home(r) \notin DOMAIN T.savepoints[i].undo => c.saves[i][r] = c.own[r]
    /\ T.savepoints[i].journal_mark <= Len(T.row_journal)
    /\ Says(SubSeq(T.row_journal, 1, T.savepoints[i].journal_mark), c.saves[i])

\* The savepoints, level by level.
LEMMA SavesAre ==
  ASSUME NEW T, NEW c
  PROVE  Saves(T, c) <=> /\ Len(T.savepoints) = Len(c.saves)
                         /\ \A i \in 1 .. Len(T.savepoints) : Saved(T, c, i) /\ Nested(T, i)
  BY DEF Saves, Saved, Nested

\* SAVEPOINT.
LEMMA SavepointWorks ==
  ASSUME NEW T, NEW c, NEW tab, NEW d, Works(T, c, tab, d), NEW level,
         level = [undo |-> <<>>, allocated_mark |-> Len(T.allocated),
                  freed_mark |-> Len(T.freed), journal_mark |-> Len(T.row_journal)]
  PROVE  LET A == [T EXCEPT !.savepoints = Append(@, level)]
             b == [c EXCEPT !.saves = Append(@, c.own)]
         IN  Works(A, b, tab, d) /\ A.err = T.err /\ b.cands = c.cands
  <1> DEFINE s == Append(T.savepoints, level)
             A == [T EXCEPT !.savepoints = s]
             z == Append(c.saves, c.own)
             b == [c EXCEPT !.saves = z]
  <1>1. T \in Txns /\ Core(T, c, tab, d) /\ Kinds(T, d) /\ Images(T, c, tab, d) /\ Saves(T, c)
        /\ c \in Clients /\ tab \in c.cands /\ TableIn(d) \in c.cands
    BY WorksCore DEF Core
  <1>2. T.savepoints \in Seq(Level) /\ T.row_journal \in Seq(Entry) /\ T.allocated = <<>> /\ T.freed = <<>>
    BY <1>1, TxnIs
  <1>3. c.saves \in Seq(Partial) /\ c.own \in Partial
    BY <1>1, ClientIs
  <1>4. level \in Level /\ level.undo = <<>> /\ DOMAIN level.undo = {} /\ level.journal_mark = Len(T.row_journal)
    BY <1>2, CopiesAre DEF Level
  <1>5. /\ s \in Seq(Level) /\ Len(s) = Len(T.savepoints) + 1 /\ s[Len(T.savepoints) + 1] = level /\ Len(T.savepoints) \in Nat
        /\ \A k \in 1 .. Len(T.savepoints) : s[k] = T.savepoints[k]
        /\ \A k \in 1 .. Len(s) : k \in 1 .. Len(T.savepoints) \/ k = Len(T.savepoints) + 1
    BY <1>2, <1>4, AppendIs
  <1>6. /\ z \in Seq(Partial) /\ Len(z) = Len(c.saves) + 1 /\ z[Len(c.saves) + 1] = c.own
        /\ \A k \in 1 .. Len(c.saves) : z[k] = c.saves[k]
    BY <1>3, AppendIs
  <1>7. Len(T.savepoints) = Len(c.saves)
    BY <1>1 DEF Saves
  <1>8. [T EXCEPT !.savepoints = Append(@, level)] = A /\ [c EXCEPT !.saves = Append(@, c.own)] = b
    BY <1>1 DEF Txns, Clients
  <1> HIDE DEF s, z
  <1>9. A \in Txns /\ A.savepoints = s /\ A.err = T.err /\ Alike(T, A)
    BY <1>1, <1>5, SetSavepoints
  <1>10. b \in Clients /\ b.cands = c.cands /\ b.seen = c.seen /\ b.own = c.own /\ b.saves = z
    BY <1>1, <1>6 DEF Clients
  <1> HIDE DEF A, b
  <1>11. Kinds(A, d)
    <2>1. Fetched(A) = Fetched(T)
      BY <1>9 DEF Fetched, Alike
    <2>2. \A i \in 1 .. Len(A.savepoints) : DOMAIN A.savepoints[i].undo \subseteq Fetched(A)
      BY <1>1, <1>4, <1>5, <1>9, <2>1 DEF Kinds
    <2> QED BY <1>1, <1>9, <2>1, <2>2 DEF Kinds, Alike
  <1>12. Fixed(T, A) /\ A.shadows = T.shadows /\ A.row_journal = T.row_journal /\ A.dirtied = T.dirtied
    BY <1>9 DEF Fixed, Alike
  <1>13. Images(A, b, tab, d)
    <2>1. \A p \in DOMAIN A.shadows : Image(A, b, tab, d, A.shadows[p], b.own, p)
      BY <1>1, <1>10, <1>12, ImageFixed DEF Images
    <2>2. ASSUME NEW i \in 1 .. Len(A.savepoints), NEW p \in DOMAIN A.savepoints[i].undo
          PROVE  Image(A, b, tab, d, A.savepoints[i].undo[p], b.saves[i], p)
      <3>1. i \in 1 .. Len(T.savepoints) /\ A.savepoints[i] = T.savepoints[i] /\ b.saves[i] = c.saves[i]
        BY <1>4, <1>5, <1>6, <1>7, <1>9, <1>10
      <3>2. Image(T, c, tab, d, T.savepoints[i].undo[p], c.saves[i], p)
        BY <1>1, <3>1 DEF Images
      <3> QED BY <1>10, <1>12, <3>1, <3>2, ImageFixed
    <2> QED BY <2>1, <2>2 DEF Images
  <1>14. Saves(A, b)
    <2>1. ASSUME NEW i \in 1 .. Len(A.savepoints) PROVE Saved(A, b, i) /\ Nested(A, i)
      <3>1. CASE i \in 1 .. Len(T.savepoints)
        <4>1. Saved(T, c, i) /\ Nested(T, i)
          BY <1>1, <3>1, SavesAre
        <4>2. \A k \in 1 .. i - 1 : k \in 1 .. Len(T.savepoints)
          BY <1>5, <3>1
        <4>3. A.savepoints[i] = T.savepoints[i] /\ b.saves[i] = c.saves[i]
              /\ \A k \in 1 .. i - 1 : A.savepoints[k] = T.savepoints[k]
          BY <1>5, <1>6, <1>7, <1>9, <1>10, <3>1, <4>2
        <4> QED BY <1>10, <1>12, <4>1, <4>3 DEF Saved, Nested
      <3>2. CASE i = Len(T.savepoints) + 1
        <4>1. A.savepoints[i] = level /\ b.saves[i] = c.own
          BY <1>5, <1>6, <1>7, <1>9, <1>10, <3>2
        <4>2. SubSeq(T.row_journal, 1, Len(T.row_journal)) = T.row_journal
          BY <1>2, SubSeqFull
        <4>3. Says(T.row_journal, c.own)
          BY <1>1 DEF Core, Journal
        <4>4. Len(T.row_journal) \in Nat
          BY <1>2
        <4>5. Saved(A, b, i)
          <5>1. A.savepoints[i].journal_mark = Len(T.row_journal)
            BY <1>4, <4>1
          <5>2. Says(SubSeq(A.row_journal, 1, A.savepoints[i].journal_mark), b.saves[i])
            BY <1>12, <4>1, <4>2, <4>3, <5>1
          <5>3. A.savepoints[i].journal_mark <= Len(A.row_journal)
            BY <1>12, <4>4, <5>1
          <5> QED BY <1>10, <4>1, <5>2, <5>3 DEF Saved
        <4>6. \A k \in 1 .. i - 1 : k \in 1 .. Len(T.savepoints) /\ A.savepoints[k] = T.savepoints[k]
          BY <1>5, <1>9, <3>2
        <4>7. \A k \in 1 .. Len(T.savepoints) : T.savepoints[k].journal_mark <= Len(T.row_journal)
          BY <1>1 DEF Saves
        <4> QED BY <1>4, <4>1, <4>5, <4>6, <4>7 DEF Nested
      <3> QED BY <1>5, <1>9, <3>1, <3>2
    <2>2. Len(A.savepoints) = Len(b.saves)
      BY <1>5, <1>6, <1>7, <1>9, <1>10
    <2> QED BY <2>1, <2>2, SavesAre
  <1>15. Core(A, b, tab, d)
    <2>1. Core(A, c, tab, d)
      BY <1>1, <1>9, CoreAlike
    <2> QED BY <1>10, <2>1 DEF Core, Journal, NetZero, Tracked
  <1> QED BY <1>8, <1>9, <1>10, <1>11, <1>13, <1>14, <1>15, WorksCore

\* RELEASE.
LEMMA ReleaseWorks ==
  ASSUME NEW T, NEW c, NEW tab, NEW d, Works(T, c, tab, d), NEW i \in DOMAIN T.savepoints
  PROVE  LET A == [T EXCEPT !.savepoints = SubSeq(@, 1, i - 1)]
             b == [c EXCEPT !.saves = SubSeq(@, 1, i - 1)]
         IN  Works(A, b, tab, d) /\ A.err = T.err /\ b.cands = c.cands
  <1> DEFINE n == i - 1
             s == SubSeq(T.savepoints, 1, n)
             A == [T EXCEPT !.savepoints = s]
             z == SubSeq(c.saves, 1, n)
             b == [c EXCEPT !.saves = z]
  <1>1. T \in Txns /\ Core(T, c, tab, d) /\ Kinds(T, d) /\ Images(T, c, tab, d) /\ Saves(T, c)
        /\ c \in Clients /\ tab \in c.cands /\ TableIn(d) \in c.cands
    BY WorksCore DEF Core
  <1>2. T.savepoints \in Seq(Level) /\ c.saves \in Seq(Partial)
    BY <1>1, TxnIs, ClientIs
  <1>3. Len(T.savepoints) = Len(c.saves)
    BY <1>1 DEF Saves
  <1>4. n \in Nat /\ n <= Len(T.savepoints) /\ n <= Len(c.saves) /\ \A k \in 1 .. n : k \in 1 .. Len(T.savepoints)
    BY <1>2, <1>3
  <1>8. [T EXCEPT !.savepoints = SubSeq(@, 1, i - 1)] = A /\ [c EXCEPT !.saves = SubSeq(@, 1, i - 1)] = b
    BY <1>1 DEF Txns, Clients
  <1> HIDE DEF n
  <1>5. s \in Seq(Level) /\ Len(s) = n /\ \A k \in 1 .. n : s[k] = T.savepoints[k]
    BY <1>2, <1>4, PrefixIs
  <1>6. z \in Seq(Partial) /\ Len(z) = n /\ \A k \in 1 .. n : z[k] = c.saves[k]
    BY <1>2, <1>4, PrefixIs
  <1> HIDE DEF s, z
  <1>9. A \in Txns /\ A.savepoints = s /\ A.err = T.err /\ Alike(T, A)
    BY <1>1, <1>5, SetSavepoints
  <1>10. b \in Clients /\ b.cands = c.cands /\ b.seen = c.seen /\ b.own = c.own /\ b.saves = z
    BY <1>1, <1>6 DEF Clients
  <1> HIDE DEF A, b
  <1>11. Kinds(A, d)
    <2>1. Fetched(A) = Fetched(T)
      BY <1>9 DEF Fetched, Alike
    <2>2. \A k \in 1 .. Len(A.savepoints) : DOMAIN A.savepoints[k].undo \subseteq Fetched(A)
      BY <1>1, <1>4, <1>5, <1>9, <2>1 DEF Kinds
    <2> QED BY <1>1, <1>9, <2>1, <2>2 DEF Kinds, Alike
  <1>12. Fixed(T, A) /\ A.shadows = T.shadows /\ A.row_journal = T.row_journal /\ A.dirtied = T.dirtied
    BY <1>9 DEF Fixed, Alike
  <1>13. Images(A, b, tab, d)
    <2>1. \A p \in DOMAIN A.shadows : Image(A, b, tab, d, A.shadows[p], b.own, p)
      BY <1>1, <1>10, <1>12, ImageFixed DEF Images
    <2>2. ASSUME NEW k \in 1 .. Len(A.savepoints), NEW p \in DOMAIN A.savepoints[k].undo
          PROVE  Image(A, b, tab, d, A.savepoints[k].undo[p], b.saves[k], p)
      <3>1. k \in 1 .. Len(T.savepoints) /\ A.savepoints[k] = T.savepoints[k] /\ b.saves[k] = c.saves[k]
        BY <1>4, <1>5, <1>6, <1>9, <1>10
      <3>2. Image(T, c, tab, d, T.savepoints[k].undo[p], c.saves[k], p)
        BY <1>1, <3>1 DEF Images
      <3> QED BY <1>10, <1>12, <3>1, <3>2, ImageFixed
    <2> QED BY <2>1, <2>2 DEF Images
  <1>14. Saves(A, b)
    <2>1. ASSUME NEW k \in 1 .. Len(A.savepoints) PROVE Saved(A, b, k) /\ Nested(A, k)
      <3>1. k \in 1 .. Len(T.savepoints) /\ k \in 1 .. n
        BY <1>4, <1>5, <1>9
      <3>2. Saved(T, c, k) /\ Nested(T, k)
        BY <1>1, <3>1, SavesAre
      <3>3. \A l \in 1 .. k - 1 : l \in 1 .. n
        BY <1>4, <3>1
      <3>4. A.savepoints[k] = T.savepoints[k] /\ b.saves[k] = c.saves[k]
            /\ \A l \in 1 .. k - 1 : A.savepoints[l] = T.savepoints[l]
        BY <1>5, <1>6, <1>9, <1>10, <3>1, <3>3
      <3> QED BY <1>10, <1>12, <3>2, <3>4 DEF Saved, Nested
    <2> QED BY <1>5, <1>6, <1>9, <1>10, <2>1, SavesAre
  <1>15. Core(A, b, tab, d)
    <2>1. Core(A, c, tab, d)
      BY <1>1, <1>9, CoreAlike
    <2> QED BY <1>10, <2>1 DEF Core, Journal, NetZero, Tracked
  <1> QED BY <1>8, <1>9, <1>10, <1>11, <1>13, <1>14, <1>15, WorksCore

\* The fields ROLLBACK TO level i leaves, when no page was allocated.
LEMMA RestoredIs ==
  ASSUME NEW T \in Txns, NEW i \in DOMAIN T.savepoints, Sound(Db),
         T.savepoints[i].journal_mark <= Len(T.row_journal),
         1 \in DOMAIN T.savepoints[i].undo => T.savepoints[i].undo[1] = Route
  PROVE  LET A == RestoredTo(T, i)
             l == T.savepoints[i]
             D == (DOMAIN l.undo \cup DOMAIN T.shadows) \ {p \in DOMAIN l.undo : l.undo[p] = page[p]}
         IN  /\ A \in Txns /\ Fixed(T, A) /\ A.err = T.err
             /\ A.row_journal = SubSeq(T.row_journal, 1, l.journal_mark)
             /\ A.savepoints = Append(SubSeq(T.savepoints, 1, i - 1), [l EXCEPT !.undo = <<>>])
             /\ DOMAIN A.shadows = D
             /\ \A p \in D : A.shadows[p] = IF p \in DOMAIN l.undo THEN l.undo[p] ELSE T.shadows[p]
             /\ A.dirtied = (T.dirtied \cup DOMAIN l.undo) \cap D
  <1> DEFINE l == T.savepoints[i]
             u == l.undo
             D == (DOMAIN u \cup DOMAIN T.shadows) \ {p \in DOMAIN u : u[p] = page[p]}
             n == i - 1
             sv == Append(SubSeq(T.savepoints, 1, n), [l EXCEPT !.undo = <<>>])
             j == SubSeq(T.row_journal, 1, l.journal_mark)
             sh == [p \in D |-> IF p \in DOMAIN u THEN u[p] ELSE T.shadows[p]]
             di == (T.dirtied \cup DOMAIN u) \cap D
             A == [T EXCEPT !.savepoints = sv, !.allocated = <<>>, !.freed = <<>>, !.row_journal = j,
                            !.discarded = <<>>, !.shadows = sh, !.dirtied = di]
  <1>1. T.savepoints \in Seq(Level) /\ T.row_journal \in Seq(Entry) /\ T.begin_n_pages = 4
        /\ T.allocated = <<>> /\ T.freed = <<>> /\ T.discarded = <<>> /\ T.shadows \in Copies
        /\ T.dirtied \subseteq Leaves
    BY TxnIs
  <1>2. l \in Level /\ i \in 1 .. Len(T.savepoints)
    BY <1>1
  <1>3. u \in Copies /\ l.allocated_mark = 0 /\ l.freed_mark = 0 /\ l.journal_mark \in Nat
    BY <1>2, LevelIs
  <1>4. DOMAIN u \subseteq Top /\ DOMAIN T.shadows \subseteq Top /\ (\A p \in DOMAIN u : u[p] \in [Row -> Nat])
        /\ (\A p \in DOMAIN T.shadows : T.shadows[p] \in [Row -> Nat]) /\ u \in [DOMAIN u -> [Row -> Nat]]
    BY <1>1, <1>3, CopiesAre
  <1>5. SubSeq(T.allocated, l.allocated_mark + 1, Len(T.allocated)) = <<>>
    BY <1>1, <1>3
  <1>6. SubSeq(T.allocated, 1, l.allocated_mark) = <<>> /\ SubSeq(T.freed, 1, l.freed_mark) = <<>>
        /\ T.discarded \o <<>> = <<>>
    BY <1>1, <1>3
  <1>7. Range(<<>>) = {}
    BY DEF Range
  <1>8. JournalAt(T, l) = j
    <2>1. Len(T.row_journal) \in Nat
      BY <1>1
    <2>2. LET m == Min({l.journal_mark, Len(T.row_journal)})
          IN  m \in {l.journal_mark, Len(T.row_journal)} /\ m <= l.journal_mark /\ m <= Len(T.row_journal)
      BY <1>3, <2>1, MinTwo
    <2>3. Min({l.journal_mark, Len(T.row_journal)}) = l.journal_mark
      BY <1>3, <2>1, <2>2
    <2> QED BY <2>3 DEF JournalAt
  <1>9. \A p \in Top : p < T.begin_n_pages
    BY <1>1, PagesAre
  <1> HIDE DEF l
  <1> DEFINE undo == Restrict(u, DOMAIN u \ Range(<<>>))
             old == Restrict(T.shadows, DOMAIN T.shadows \ Range(<<>>))
             kept == Over(undo, old)
             netZero == {p \in DOMAIN undo : p < T.begin_n_pages /\ undo[p] = page[p]}
             left == DOMAIN kept \ netZero
  <1>10. undo = u /\ old = T.shadows
    <2>1. DOMAIN u \ Range(<<>>) = DOMAIN u /\ DOMAIN T.shadows \ Range(<<>>) = DOMAIN T.shadows
      BY <1>7
    <2>2. u = [p \in DOMAIN u |-> u[p]] /\ T.shadows = [p \in DOMAIN T.shadows |-> T.shadows[p]]
      BY <1>1, <1>3, CopiesAre
    <2> QED BY <2>1, <2>2 DEF Restrict
  <1>11. DOMAIN kept = DOMAIN u \cup DOMAIN T.shadows
         /\ \A p \in DOMAIN kept : kept[p] = IF p \in DOMAIN u THEN u[p] ELSE T.shadows[p]
    BY <1>10 DEF Over
  <1>12. netZero = {p \in DOMAIN u : u[p] = page[p]}
    BY <1>4, <1>9, <1>10
  <1>13. left = D
    BY <1>11, <1>12
  <1>14. RestoredTo(T, i) =
           [T EXCEPT !.savepoints = sv,
                     !.allocated = <<>>, !.freed = <<>>, !.row_journal = j,
                     !.discarded = <<>>, !.shadows = Restrict(kept, left),
                     !.dirtied = (T.dirtied \cup DOMAIN undo) \cap left]
    <2> DEFINE dr == SubSeq(T.allocated, l.allocated_mark + 1, Len(T.allocated))
               un == Restrict(u, DOMAIN u \ Range(dr))
               ke == Over(un, Restrict(T.shadows, DOMAIN T.shadows \ Range(dr)))
               le == DOMAIN ke \ {p \in DOMAIN un : p < T.begin_n_pages /\ un[p] = page[p]}
    <2>1. RestoredTo(T, i) =
           [T EXCEPT !.savepoints = Append(SubSeq(T.savepoints, 1, i - 1), [l EXCEPT !.undo = <<>>]),
                     !.allocated = SubSeq(T.allocated, 1, l.allocated_mark),
                     !.freed = SubSeq(T.freed, 1, l.freed_mark), !.row_journal = JournalAt(T, l),
                     !.discarded = T.discarded \o dr, !.shadows = Restrict(ke, le),
                     !.dirtied = (T.dirtied \cup DOMAIN un) \cap le]
      BY DEF RestoredTo, DirtyAfter, l
    <2>2. un = undo /\ ke = kept /\ le = left
      BY <1>5
    <2>3. T.discarded \o dr = <<>>
      BY <1>5, <1>6
    <2> HIDE DEF dr, un, ke, le, undo, kept, left, j
    <2> QED BY <1>6, <1>8, <2>1, <2>2, <2>3
  <1>15. Restrict(kept, left) = sh
    <2>1. \A p \in D : kept[p] = IF p \in DOMAIN u THEN u[p] ELSE T.shadows[p]
      BY <1>11, <1>13
    <2>2. Restrict(kept, left) = [p \in D |-> kept[p]]
      BY <1>13 DEF Restrict
    <2> QED BY <2>1, <2>2
  <1>16. RestoredTo(T, i) = A
    <2> HIDE DEF kept, left, undo, old, netZero, sh, j, D
    <2>1. (T.dirtied \cup DOMAIN undo) \cap left = di
      BY <1>10, <1>13
    <2> HIDE DEF di
    <2> QED BY <1>14, <1>15, <2>1
  <1>17. D \subseteq Top /\ sh \in [D -> [Row -> Nat]]
    BY <1>4
  <1>18. sh \in Copies /\ DOMAIN sh = D /\ \A p \in D : sh[p] = IF p \in DOMAIN u THEN u[p] ELSE T.shadows[p]
    BY <1>17, CopiesAre
  <1>19. di \in SUBSET Leaves
    <2>1. 1 \in DOMAIN u => u[1] = page[1]
      BY DbIs, DbNow DEF l
    <2> QED BY <1>1, <1>4, <2>1, PagesAre
  <1>20. n \in Nat /\ n <= Len(T.savepoints)
    BY <1>1, <1>2
  <1>21. [l EXCEPT !.undo = <<>>] \in Level
    BY <1>2, LevelIs, CopiesAre
  <1>22. SubSeq(T.savepoints, 1, n) \in Seq(Level)
    BY <1>1, <1>20, PrefixIs
  <1>23. sv \in Seq(Level)
    BY <1>21, <1>22, AppendIs
  <1>24. j \in Seq(Entry)
    BY <1>1, <1>3, PrefixIs DEF l
  <1> HIDE DEF sv, sh, di, j, D, kept, left, undo, old, netZero
  <1>25. A \in Txns /\ Fixed(T, A) /\ A.err = T.err /\ A.row_journal = j /\ A.savepoints = sv
         /\ A.shadows = sh /\ A.dirtied = di
    BY <1>18, <1>19, <1>23, <1>24 DEF Txns, Fixed
  <1> HIDE DEF A
  <1> QED BY <1>16, <1>18, <1>25 DEF sv, di, j, D, l

\* The client after ROLLBACK TO level i.
Undone(c, i) == [c EXCEPT !.own = c.saves[i], !.saves = SubSeq(@, 1, i)]

\* Its fields: own is what the savepoint saved.
LEMMA UndoneIs ==
  ASSUME NEW c \in Clients, NEW i \in 1 .. Len(c.saves)
  PROVE  LET b == Undone(c, i)
         IN  /\ b \in Clients /\ b.cands = c.cands /\ b.seen = c.seen /\ b.own = c.saves[i]
             /\ Len(b.saves) = i /\ \A k \in 1 .. i : b.saves[k] = c.saves[k]
  <1> DEFINE z == SubSeq(c.saves, 1, i)
             o == c.saves[i]
             b == [c EXCEPT !.own = o, !.saves = z]
  <1>1. c.saves \in Seq(Partial)
    BY ClientIs
  <1>2. i \in Nat /\ i <= Len(c.saves) /\ o \in Partial
    BY <1>1
  <1>3. z \in Seq(Partial) /\ Len(z) = i /\ \A k \in 1 .. i : z[k] = c.saves[k]
    BY <1>1, <1>2, PrefixIs
  <1>4. Undone(c, i) = b
    BY DEF Undone, Clients
  <1> HIDE DEF z, o
  <1>5. b \in Clients /\ b.cands = c.cands /\ b.seen = c.seen /\ b.own = o /\ b.saves = z
    BY <1>2, <1>3 DEF Clients
  <1> HIDE DEF b
  <1> QED BY <1>3, <1>4, <1>5 DEF o

\* What a prefix of the journal writes, the journal writes.
LEMMA PrefixRows ==
  ASSUME NEW j \in Seq(Entry), NEW m \in Nat, m <= Len(j)
  PROVE  RowsOf(SubSeq(j, 1, m)) \subseteq RowsOf(j)
  <1>1. Len(SubSeq(j, 1, m)) = m /\ \A k \in 1 .. m : SubSeq(j, 1, m)[k] = j[k] /\ k \in 1 .. Len(j)
    BY PrefixIs
  <1> QED BY <1>1 DEF RowsOf

\* A row the journal mentions has a value of its own.
LEMMA SaysOwn ==
  ASSUME NEW j \in Seq(Entry), NEW own, Says(j, own), NEW r \in Row
  PROVE  r \in RowsOf(j) <=> own[r] # Unknown
  <1>1. CASE r \in RowsOf(j)
    <2>1. PICK k \in 1 .. Len(j) : own[r] = j[k].val
      BY <1>1 DEF Says
    <2>2. j[k] \in Entry
      OBVIOUS
    <2>3. own[r] \in Val
      BY <2>1, <2>2 DEF Entry
    <2> QED BY <1>1, <2>3, UnknownIs
  <1>2. CASE r \notin RowsOf(j)
    BY <1>2 DEF Says
  <1> QED BY <1>1, <1>2

\* ROLLBACK TO: the shadows hold what was written before the savepoint.
LEMMA RestoredWorks ==
  ASSUME NEW T, NEW c, NEW tab, Sound(Db), Works(T, c, tab, Db), NEW i \in DOMAIN T.savepoints
  PROVE  Works(RestoredTo(T, i), Undone(c, i), tab, Db) /\ RestoredTo(T, i).err = T.err
         /\ Undone(c, i).cands = c.cands /\ i \in DOMAIN c.saves
  <1> DEFINE A == RestoredTo(T, i)
             b == Undone(c, i)
             l == T.savepoints[i]
             u == l.undo
             Z == {p \in DOMAIN u : u[p] = page[p]}
             D == (DOMAIN u \cup DOMAIN T.shadows) \ Z
             n == i - 1
             pre == SubSeq(T.savepoints, 1, n)
             lev == [l EXCEPT !.undo = <<>>]
  <1>1. T \in Txns /\ Core(T, c, tab, Db) /\ Kinds(T, Db) /\ Images(T, c, tab, Db) /\ Saves(T, c)
        /\ c \in Clients /\ tab \in c.cands /\ TableIn(Db) \in c.cands
    BY WorksCore DEF Core
  <1>2. T.savepoints \in Seq(Level) /\ T.row_journal \in Seq(Entry) /\ c.saves \in Seq(Partial)
    BY <1>1, TxnIs, ClientIs
  <1>3. i \in 1 .. Len(T.savepoints) /\ Len(T.savepoints) = Len(c.saves) /\ Len(T.savepoints) \in Nat
        /\ l \in Level /\ i \in DOMAIN c.saves
    BY <1>1, <1>2 DEF Saves
  <1>4. Saved(T, c, i) /\ Nested(T, i)
    BY <1>1, <1>3, SavesAre
  <1>5. l.journal_mark \in Nat /\ l.journal_mark <= Len(T.row_journal) /\ u \in Copies
    BY <1>3, <1>4, LevelIs DEF Saved
  <1>6. \A p \in DOMAIN u : Image(T, c, tab, Db, u[p], c.saves[i], p)
    BY <1>1, <1>3 DEF Images
  <1>7. 1 \in DOMAIN u => u[1] = Route
    BY <1>6 DEF Image
  <1>8. /\ A \in Txns /\ Fixed(T, A) /\ A.err = T.err
        /\ A.row_journal = SubSeq(T.row_journal, 1, l.journal_mark)
        /\ A.savepoints = Append(pre, lev)
        /\ DOMAIN A.shadows = D
        /\ \A p \in D : A.shadows[p] = IF p \in DOMAIN u THEN u[p] ELSE T.shadows[p]
        /\ A.dirtied = (T.dirtied \cup DOMAIN u) \cap D
    BY <1>1, <1>5, <1>7, RestoredIs
  <1>9. /\ b \in Clients /\ b.cands = c.cands /\ b.seen = c.seen /\ b.own = c.saves[i]
        /\ Len(b.saves) = i /\ \A k \in 1 .. i : b.saves[k] = c.saves[k]
    BY <1>1, <1>3, UndoneIs
  <1>10. n \in Nat /\ n <= Len(T.savepoints) /\ n + 1 = i
    BY <1>3
  <1>11. pre \in Seq(Level) /\ Len(pre) = n /\ \A k \in 1 .. n : pre[k] = T.savepoints[k]
    BY <1>2, <1>10, PrefixIs
  <1>12. lev \in Level /\ lev.undo = <<>> /\ DOMAIN lev.undo = {} /\ lev.journal_mark = l.journal_mark
    BY <1>3, LevelIs, CopiesAre
  <1> HIDE DEF A, b, lev, pre, n
  <1>13. /\ Len(A.savepoints) = i /\ A.savepoints[i] = lev
         /\ \A k \in 1 .. n : A.savepoints[k] = T.savepoints[k]
         /\ \A k \in 1 .. i : k \in 1 .. n \/ k = i
    BY <1>8, <1>10, <1>11, <1>12, AppendIs
  <1>14. /\ A.row_journal \in Seq(Entry) /\ Len(A.row_journal) = l.journal_mark
         /\ \A k \in 1 .. l.journal_mark : A.row_journal[k] = T.row_journal[k]
         /\ \A m \in Nat : m <= l.journal_mark => SubSeq(A.row_journal, 1, m) = SubSeq(T.row_journal, 1, m)
    BY <1>2, <1>5, <1>8, PrefixIs
  <1>15. Kinds(A, Db)
    <2>1. Fetched(A) = Fetched(T)
      BY <1>8 DEF Fixed, Fetched
    <2>2. D \subseteq Fetched(A)
      BY <1>1, <1>3, <2>1 DEF Kinds
    <2>3. \A k \in 1 .. Len(A.savepoints) : DOMAIN A.savepoints[k].undo \subseteq Fetched(A)
      <3> SUFFICES ASSUME NEW k \in 1 .. i PROVE DOMAIN A.savepoints[k].undo \subseteq Fetched(A)
        BY <1>13
      <3>1. CASE k = i
        BY <1>12, <1>13, <3>1
      <3>2. CASE k \in 1 .. n
        <4>1. k \in 1 .. Len(T.savepoints)
          BY <1>3, <1>10, <3>2
        <4> QED BY <1>1, <1>13, <2>1, <3>2, <4>1 DEF Kinds
      <3> QED BY <1>13, <3>1, <3>2
    <2>4. A.dirtied \subseteq DOMAIN A.shadows
      BY <1>8
    <2> HIDE DEF D
    <2> QED BY <1>1, <1>8, <2>1, <2>2, <2>3, <2>4 DEF Kinds, Fixed
  <1>16. \A r \in Row : Home(r) \notin DOMAIN u => c.saves[i][r] = c.own[r]
    BY <1>4 DEF Saved
  <1>17. Images(A, b, tab, Db)
    <2>1. ASSUME NEW p \in DOMAIN A.shadows PROVE Image(A, b, tab, Db, A.shadows[p], b.own, p)
      <3>1. CASE p \in DOMAIN u
        BY <1>6, <1>8, <1>9, <3>1, ImageFixed
      <3>2. CASE p \notin DOMAIN u
        <4>1. p \in DOMAIN T.shadows /\ A.shadows[p] = T.shadows[p]
          BY <1>8, <3>2
        <4>2. Image(T, c, tab, Db, T.shadows[p], c.own, p)
          BY <1>1, <4>1 DEF Images
        <4>3. Image(A, b, tab, Db, T.shadows[p], c.own, p)
          BY <1>8, <1>9, <4>2, ImageFixed
        <4>4. \A r \in Row : Home(r) = p => b.own[r] = c.own[r]
          BY <1>9, <1>16, <3>2
        <4> QED BY <4>1, <4>3, <4>4 DEF Image
      <3> QED BY <3>1, <3>2
    <2>2. ASSUME NEW k \in 1 .. Len(A.savepoints), NEW p \in DOMAIN A.savepoints[k].undo
          PROVE  Image(A, b, tab, Db, A.savepoints[k].undo[p], b.saves[k], p)
      <3>1. k \in 1 .. n
        BY <1>12, <1>13
      <3>2. k \in 1 .. Len(T.savepoints) /\ k \in 1 .. i
        BY <1>3, <1>10, <3>1
      <3>3. A.savepoints[k] = T.savepoints[k] /\ b.saves[k] = c.saves[k]
        BY <1>9, <1>13, <3>1, <3>2
      <3>4. Image(T, c, tab, Db, T.savepoints[k].undo[p], c.saves[k], p)
        BY <1>1, <3>2, <3>3 DEF Images
      <3> QED BY <1>8, <1>9, <3>3, <3>4, ImageFixed
    <2> QED BY <2>1, <2>2 DEF Images
  <1>18. Says(A.row_journal, b.own)
    BY <1>4, <1>8, <1>9 DEF Saved
  <1>19. Saves(A, b)
    <2>1. ASSUME NEW k \in 1 .. i PROVE Saved(A, b, k) /\ Nested(A, k)
      <3>1. CASE k = i
        <4>1. Saved(A, b, k)
          <5>1. A.savepoints[k].journal_mark = l.journal_mark /\ b.saves[k] = b.own
            BY <1>9, <1>12, <1>13, <3>1
          <5>2. SubSeq(A.row_journal, 1, l.journal_mark) = A.row_journal
            BY <1>14, SubSeqFull
          <5>3. Says(SubSeq(A.row_journal, 1, A.savepoints[k].journal_mark), b.saves[k])
            BY <1>18, <5>1, <5>2
          <5>4. A.savepoints[k].journal_mark <= Len(A.row_journal)
            BY <1>5, <1>14, <5>1
          <5> QED BY <5>1, <5>3, <5>4 DEF Saved
        <4>2. \A m \in 1 .. k - 1 : m \in 1 .. n /\ A.savepoints[m] = T.savepoints[m]
          BY <1>10, <1>13, <3>1
        <4>3. \A m \in 1 .. k - 1 : T.savepoints[m].journal_mark <= l.journal_mark
          BY <1>4, <3>1 DEF Nested
        <4> QED BY <1>12, <1>13, <3>1, <4>1, <4>2, <4>3 DEF Nested
      <3>2. CASE k \in 1 .. n
        <4>1. k \in 1 .. Len(T.savepoints) /\ k \in 1 .. i - 1
          BY <1>3, <1>10, <3>2
        <4>2. Saved(T, c, k) /\ Nested(T, k)
          BY <1>1, <4>1, SavesAre
        <4>3. A.savepoints[k] = T.savepoints[k] /\ b.saves[k] = c.saves[k]
          BY <1>9, <1>13, <3>2
        <4>4. \A m \in 1 .. k - 1 : A.savepoints[m] = T.savepoints[m]
          <5>1. \A m \in 1 .. k - 1 : m \in 1 .. n
            BY <1>10, <3>2
          <5> QED BY <1>13, <5>1
        <4>5. DOMAIN u \subseteq DOMAIN T.savepoints[k].undo /\ T.savepoints[k].journal_mark <= l.journal_mark
          BY <1>4, <4>1 DEF Nested
        <4>6. T.savepoints[k].journal_mark \in Nat
          <5>1. T.savepoints[k] \in Level
            BY <1>2, <4>1
          <5> QED BY <5>1, LevelIs
        <4>7. Says(SubSeq(A.row_journal, 1, A.savepoints[k].journal_mark), b.saves[k])
          BY <1>14, <4>2, <4>3, <4>5, <4>6 DEF Saved
        <4>8. \A r \in Row : Home(r) \notin DOMAIN A.savepoints[k].undo => b.saves[k][r] = b.own[r]
          BY <1>9, <1>16, <4>2, <4>3, <4>5 DEF Saved
        <4>9. Saved(A, b, k)
          BY <1>14, <4>3, <4>5, <4>7, <4>8 DEF Saved
        <4>10. Nested(A, k)
          BY <4>2, <4>3, <4>4 DEF Nested
        <4> QED BY <4>9, <4>10
      <3> QED BY <1>13, <3>1, <3>2
    <2> QED BY <1>9, <1>13, <2>1, SavesAre
  <1>20. Journal(A, b)
    <2>1. ASSUME NEW k \in 1 .. Len(A.row_journal), A.row_journal[k].kind = "replace"
          PROVE  \/ \E m \in 1 .. k - 1 : A.row_journal[m].row = A.row_journal[k].row
                 \/ b.seen[A.row_journal[k].row] \notin {Unknown, Absent}
      <3>1. k \in 1 .. Len(T.row_journal) /\ k \in 1 .. l.journal_mark /\ \A m \in 1 .. k - 1 : m \in 1 .. l.journal_mark
        BY <1>2, <1>5, <1>14
      <3>2. A.row_journal[k] = T.row_journal[k] /\ \A m \in 1 .. k - 1 : A.row_journal[m] = T.row_journal[m]
        BY <1>14, <3>1
      <3>3. \/ \E m \in 1 .. k - 1 : T.row_journal[m].row = T.row_journal[k].row
            \/ c.seen[T.row_journal[k].row] \notin {Unknown, Absent}
        BY <1>1, <2>1, <3>1, <3>2 DEF Core, Journal
      <3> QED BY <1>9, <3>2, <3>3
    <2>2. ASSUME NEW r \in Row, b.own[r] # Unknown PROVE A.sem_rows[r] # 0
      <3>1. r \in RowsOf(A.row_journal)
        BY <1>14, <1>18, <2>2, SaysOwn
      <3>2. r \in RowsOf(T.row_journal)
        BY <1>2, <1>5, <1>8, <3>1, PrefixRows
      <3>3. c.own[r] # Unknown
        BY <1>1, <1>2, <3>2, SaysOwn DEF Core, Journal
      <3> QED BY <1>1, <1>8, <3>3 DEF Core, Journal, Fixed
    <2> QED BY <1>18, <2>1, <2>2 DEF Journal
  <1>21. NetZero(A, b, Db)
    <2> SUFFICES ASSUME NEW r \in Row, b.own[r] # Unknown, Home(r) \notin A.dirtied,
                        Db.stamps[Home(r)] <= A.begin_epoch \/ Db.rows[r] <= A.sem_rows[r]
                 PROVE  Db.page[Home(r)][r] = b.own[r]
      BY DEF NetZero
    <2>1. CASE Home(r) \in DOMAIN u
      <3>1. Home(r) \in Z
        BY <1>8, <2>1
      <3>2. Home(r) # 1
        BY PagesAre
      <3>3. u[Home(r)][r] = c.saves[i][r]
        BY <1>6, <1>9, <2>1, <3>2 DEF Image
      <3> QED BY <1>9, <3>1, <3>3, DbNow
    <2>2. CASE Home(r) \notin DOMAIN u
      <3>1. c.own[r] = b.own[r]
        BY <1>9, <1>16, <2>2
      <3>2. Home(r) \notin T.dirtied
        <4>1. T.dirtied \subseteq DOMAIN T.shadows
          BY <1>1 DEF Kinds
        <4> QED BY <1>8, <2>2, <4>1
      <3> HIDE DEF D, Z, u
      <3> QED BY <1>1, <1>8, <3>1, <3>2 DEF Core, NetZero, Fixed
    <2> QED BY <2>1, <2>2
  <1>22. Tracked(A, b, Db) /\ Since(A, tab, Db)
    BY <1>1, <1>8, <1>9 DEF Core, Tracked, ByRow, ByPage, Since, Fixed
  <1>23. Core(A, b, tab, Db)
    BY <1>1, <1>9, <1>20, <1>21, <1>22 DEF Core
  <1> QED BY <1>3, <1>8, <1>9, <1>15, <1>17, <1>19, <1>23, WorksCore DEF A, b

-----------------------------------------------------------------------------
(* The commit of another transaction. *)

\* A commit takes d to e: it writes leaves D and at most the cells of rows W.
Moves(d, e, D, W) ==
    /\ Sound(e) /\ e.epoch = d.epoch + 1 /\ D \subseteq Leaves /\ W \subseteq Row
    /\ \A p \in Top : p \notin D => e.page[p] = d.page[p]
    /\ \A p \in Page : e.stamps[p] = IF p \in D THEN e.epoch ELSE d.stamps[p]
    /\ \A r \in Row : e.rows[r] = IF r \in W THEN e.epoch ELSE d.rows[r]
    /\ \A r \in Row \ W : e.page[Home(r)][r] = d.page[Home(r)][r]

\* The client of a transaction that has seen table x committed.
Grown(c, x) == [c EXCEPT !.cands = @ \cup {x}]

\* Its fields: only the candidates have grown.
LEMMA GrownIs ==
  ASSUME NEW c \in Clients, NEW x \in [Row -> Cell]
  PROVE  LET b == Grown(c, x)
         IN  /\ b \in Clients /\ b.cands = c.cands \cup {x} /\ b.seen = c.seen
             /\ b.own = c.own /\ b.saves = c.saves
  <1> DEFINE s == c.cands \cup {x}
             b == [c EXCEPT !.cands = s]
  <1>1. s \in SUBSET [Row -> Cell]
    BY ClientIs
  <1>2. Grown(c, x) = b
    BY DEF Grown
  <1> HIDE DEF s
  <1>3. b \in Clients /\ b.cands = s /\ b.seen = c.seen /\ b.own = c.own /\ b.saves = c.saves
    BY <1>1 DEF Clients
  <1> HIDE DEF b
  <1> QED BY <1>2, <1>3 DEF s

\* The stamps never vouch for a cell that a commit has changed.
LEMMA FirmBack ==
  ASSUME NEW T \in Txns, NEW d, NEW e, NEW D, NEW W, Sound(d), Moves(d, e, D, W), Kinds(T, d),
         NEW r \in Row, NEW p \in Fetched(T), Home(r) = p, Firm(T, e, p, r)
  PROVE  Firm(T, d, p, r) /\ e.page[p][r] = d.page[p][r]
  <1>1. p \in Top /\ p \in Page
    BY PagesAre DEF Fetched
  <1>2. /\ d.stamps[p] \in Nat /\ d.epoch \in Nat /\ d.stamps[p] <= d.epoch /\ e.epoch = d.epoch + 1
        /\ T.read_stamps[p] \in Nat /\ T.shadow_epoch[p] \in Nat /\ d.rows[r] \in Nat
    BY <1>1, DbIs, TxnIs DEF Moves
  <1>3. T.read_stamps[p] <= d.stamps[p] /\ T.shadow_epoch[p] <= d.epoch
    BY DEF Kinds
  <1>4. e.rows[r] <= T.shadow_epoch[p] => r \notin W /\ e.rows[r] = d.rows[r] /\ e.page[p][r] = d.page[p][r]
    BY <1>2, <1>3 DEF Moves
  <1>5. e.stamps[p] = T.read_stamps[p] => p \notin D /\ e.stamps[p] = d.stamps[p] /\ e.page[p] = d.page[p]
    BY <1>1, <1>2, <1>3 DEF Moves
  <1> QED BY <1>4, <1>5 DEF Firm

\* An open transaction works on after another one's commit.
LEMMA MoveWorks ==
  ASSUME NEW T, NEW c, NEW tab, NEW d, NEW e, NEW D, NEW W, Sound(d), Moves(d, e, D, W), Works(T, c, tab, d)
  PROVE  Works(T, Grown(c, TableIn(e)), tab, e)
  <1> DEFINE x == TableIn(e)
             b == Grown(c, x)
  <1>1. T \in Txns /\ Core(T, c, tab, d) /\ Kinds(T, d) /\ Images(T, c, tab, d) /\ Saves(T, c)
        /\ c \in Clients /\ tab \in c.cands /\ TableIn(d) \in c.cands
    BY WorksCore DEF Core
  <1>2. Sound(e) /\ x \in [Row -> Cell]
    BY DbIs DEF Moves
  <1>3. /\ b \in Clients /\ b.cands = c.cands \cup {x} /\ b.seen = c.seen
        /\ b.own = c.own /\ b.saves = c.saves
    BY <1>1, <1>2, GrownIs
  <1> HIDE DEF x, b
  <1>4. /\ d.epoch \in Nat /\ e.epoch = d.epoch + 1
        /\ \A p \in Page : d.stamps[p] \in Nat /\ d.stamps[p] <= d.epoch /\ T.read_stamps[p] \in Nat
                           /\ T.shadow_epoch[p] \in Nat
        /\ T.begin_epoch \in Nat /\ T.begin_epoch <= d.epoch
        /\ \A r \in Row : T.sem_rows[r] \in Nat /\ T.sem_rows[r] <= d.epoch /\ d.rows[r] \in Nat
    BY <1>1, TxnIs, DbIs DEF Moves, Kinds
  <1>5. \A p \in Page : e.stamps[p] = IF p \in D THEN e.epoch ELSE d.stamps[p]
    BY DEF Moves
  <1>6. Fetched(T) \subseteq Page
    BY PagesAre DEF Fetched
  <1>7. Kinds(T, e)
    <2>1. ASSUME NEW p \in Fetched(T)
          PROVE  /\ T.page_kind[p] = (IF p = 1 THEN "interior" ELSE "leaf")
                 /\ T.shadow_epoch[p] # 0 /\ T.shadow_epoch[p] <= e.epoch
                 /\ T.read_stamps[p] <= e.stamps[p]
                 /\ e.stamps[p] = T.read_stamps[p] \/ e.stamps[p] > T.begin_epoch
      <3>1. /\ T.page_kind[p] = (IF p = 1 THEN "interior" ELSE "leaf")
            /\ T.shadow_epoch[p] # 0 /\ T.shadow_epoch[p] <= d.epoch
            /\ T.read_stamps[p] <= d.stamps[p]
            /\ d.stamps[p] = T.read_stamps[p] \/ d.stamps[p] > T.begin_epoch
        BY <1>1 DEF Kinds
      <3>2. p \in Page
        BY <1>6
      <3> QED BY <1>4, <1>5, <3>1, <3>2
    <2>2. T.begin_epoch <= e.epoch /\ \A r \in Row : T.sem_rows[r] <= e.epoch
      BY <1>4
    <2> QED BY <1>1, <2>1, <2>2 DEF Kinds
  <1>8. ASSUME NEW p \in Fetched(T), NEW m, NEW own, Image(T, c, tab, d, m, own, p)
        PROVE  Image(T, b, tab, e, m, own, p)
    <2>1. CASE p = 1
      BY <1>8, <2>1 DEF Image
    <2>2. CASE p # 1
      <3>1. ASSUME NEW r \in Row, Home(r) = p, Based(T, c, tab, d, p, r, m[r])
            PROVE  Based(T, b, tab, e, p, r, m[r])
        <4>1. Firm(T, e, p, r) => Firm(T, d, p, r) /\ e.page[p][r] = d.page[p][r]
          BY <1>1, <3>1, FirmBack
        <4> QED BY <1>3, <3>1, <4>1 DEF Based
      <3> QED BY <1>8, <2>2, <3>1 DEF Image
    <2> QED BY <2>1, <2>2
  <1>9. Images(T, b, tab, e)
    <2>1. \A p \in DOMAIN T.shadows : p \in Fetched(T) /\ Image(T, c, tab, d, T.shadows[p], c.own, p)
      BY <1>1 DEF Images, Kinds
    <2>2. \A i \in 1 .. Len(T.savepoints) : \A p \in DOMAIN T.savepoints[i].undo :
            p \in Fetched(T) /\ Image(T, c, tab, d, T.savepoints[i].undo[p], c.saves[i], p)
      BY <1>1 DEF Images, Kinds
    <2> QED BY <1>3, <1>8, <2>1, <2>2 DEF Images
  <1>10. Saves(T, b) /\ Journal(T, b)
    BY <1>1, <1>3 DEF Saves, Core, Journal
  <1>11. \A r \in Row : e.stamps[Home(r)] <= T.begin_epoch =>
           /\ d.stamps[Home(r)] <= T.begin_epoch /\ e.page[Home(r)][r] = d.page[Home(r)][r]
    <2>1. \A r \in Row : Home(r) \in Page /\ Home(r) \in Top
      BY PagesAre
    <2>2. \A p \in Page : e.stamps[p] <= T.begin_epoch => p \notin D /\ e.stamps[p] = d.stamps[p]
      BY <1>4, <1>5
    <2> QED BY <2>1, <2>2 DEF Moves
  <1>12. \A r \in Row : e.rows[r] <= T.sem_rows[r] =>
           /\ d.rows[r] <= T.sem_rows[r] /\ e.page[Home(r)][r] = d.page[Home(r)][r]
    <2>1. \A r \in Row : e.rows[r] <= T.sem_rows[r] => r \notin W /\ e.rows[r] = d.rows[r]
      BY <1>4 DEF Moves
    <2> QED BY <2>1 DEF Moves
  <1>13. NetZero(T, b, e)
    BY <1>1, <1>3, <1>11, <1>12 DEF Core, NetZero
  <1>14. Tracked(T, b, e)
    <2> SUFFICES ASSUME NEW r \in Row, b.seen[r] # Unknown
                 PROVE  ByRow(T, e, r, b.seen[r]) \/ ByPage(T, e, r, b.seen[r])
      BY DEF Tracked
    <2>1. ByRow(T, d, r, c.seen[r]) \/ ByPage(T, d, r, c.seen[r])
      BY <1>1, <1>3 DEF Core, Tracked
    <2>2. CASE ByRow(T, d, r, c.seen[r])
      BY <1>3, <1>12, <2>2 DEF ByRow
    <2>3. CASE ByPage(T, d, r, c.seen[r])
      <3> DEFINE p == Home(r)
      <3>1. p \in T.sem_pages /\ p \in Fetched(T) /\ p \in Page /\ p \in Top
        BY <1>1, <2>3, PagesAre DEF ByPage, Kinds
      <3>2. T.read_stamps[p] <= d.stamps[p]
        BY <1>1, <3>1 DEF Kinds
      <3>3. e.stamps[p] = T.read_stamps[p] => p \notin D /\ e.stamps[p] = d.stamps[p]
        BY <1>4, <1>5, <3>1, <3>2
      <3>4. e.stamps[p] = T.read_stamps[p] => e.page[p][r] = d.page[p][r] /\ d.stamps[p] = T.read_stamps[p]
        BY <3>1, <3>3 DEF Moves
      <3> QED BY <1>3, <2>3, <3>4 DEF ByPage
    <2> QED BY <2>1, <2>2, <2>3
  <1>15. Since(T, tab, e)
    BY <1>1, <1>11 DEF Core, Since
  <1>16. tab \in b.cands /\ TableIn(e) \in b.cands
    BY <1>1, <1>3 DEF x
  <1>17. Core(T, b, tab, e)
    BY <1>1, <1>3, <1>10, <1>13, <1>14, <1>15, <1>16 DEF Core
  <1>18. Saves(T, b)
    BY <1>10
  <1> QED BY <1>1, <1>7, <1>9, <1>17, <1>18, WorksCore DEF b, x

\* So does one that is still at its BEGIN.
LEMMA MoveFresh ==
  ASSUME NEW T, NEW c, NEW d, NEW e, Sound(d), Sound(e), e.epoch = d.epoch + 1, Fresh(T, c, d)
  PROVE  Fresh(T, Grown(c, TableIn(e)), e)
  <1> DEFINE x == TableIn(e)
             s == c.cands \cup {x}
  <1>1. x \in [Row -> Cell] /\ d.epoch \in Nat /\ e.epoch \in Nat
    BY DbIs
  <1>2. T.begin_epoch \in 0 .. e.epoch
    BY <1>1 DEF Fresh
  <1>3. s \subseteq [Row -> Cell] /\ x \in s
    BY <1>1 DEF Fresh
  <1>4. c = [Store!Idle EXCEPT !.open = TRUE, !.cands = c.cands]
    BY DEF Fresh
  <1>5. Grown(c, x) = [c EXCEPT !.cands = s]
    BY DEF Grown
  <1> HIDE DEF s, x
  <1>6. [c EXCEPT !.cands = s] = [Store!Idle EXCEPT !.open = TRUE, !.cands = s]
    BY <1>4 DEF Store!Idle
  <1>7. [c EXCEPT !.cands = s].cands = s
    BY <1>4 DEF Store!Idle
  <1>8. T = NewTxn(T.begin_epoch, 4)
    BY DEF Fresh
  <1>9. Fresh(T, Grown(c, x), e)
    BY <1>2, <1>3, <1>5, <1>6, <1>7, <1>8 DEF Fresh, x
  <1> QED BY <1>9 DEF x

-----------------------------------------------------------------------------
(* COMMIT. *)

\* What a descent finds is what the leaves hold.
LEMMA TableIs ==
  ASSUME Sound(Db) PROVE TableOf(page) = TableIn(Db)
  <1>1. page[Root] = Route /\ \A r \in Row : Route[r] = Home(r)
    BY DbNow DEF Sound, Route
  <1> QED BY <1>1, DbNow DEF TableOf, TableIn

\* Nothing is freed.
LEMMA SpliceNothing ==
  ASSUME NEW pg, pg = [p \in Page |-> pg[p]]
  PROVE  SpliceTxnFreed(pg, <<>>) = pg
  <1>1. Range(<<>>) = {}
    BY DEF Range
  <1> QED BY <1>1 DEF SpliceTxnFreed

\* Nor does the freelist grow.
LEMMA FreeNothing ==
  ASSUME freelist = [p \in Page |-> 0] PROVE FreelistWith(<<>>) = [p \in Page |-> 0]
  <1>1. \A p \in Page : {k \in DOMAIN <<>> : <<>>[k] = p} = {}
    OBVIOUS
  <1>2. Cardinality({}) = 0
    BY FS_EmptySet
  <1> QED BY <1>1, <1>2 DEF FreelistWith

\* F's dirty leaves are the committed ones with own on top.
Installs(F, own) ==
    /\ F \in Txns /\ F.dirtied \subseteq DOMAIN F.shadows
    /\ \A p \in F.dirtied : LeafImage(F.shadows[p], p)
    /\ \A r \in Row : r \in RowsOf(F.row_journal) <=> own[r] # Unknown
    /\ \A r \in Row : Home(r) \in F.dirtied =>
          F.shadows[Home(r)][r] = IF own[r] = Unknown THEN page[Home(r)][r] ELSE own[r]
    /\ \A r \in Row : Home(r) \notin F.dirtied /\ own[r] # Unknown => page[Home(r)][r] = own[r]

\* install_txn_shadows then is a commit of exactly own.
LEMMA InstallMoves ==
  ASSUME NEW t, NEW F, NEW own, Sound(Db), Installs(F, own), Install(t, F, <<>>)
  PROVE  /\ Moves(Db, Db', F.dirtied, RowsOf(F.row_journal))
         /\ TableIn(Db') = Store!Apply(TableIn(Db), own)
         /\ TableOf(page)' = TableIn(Db')
         /\ End(t, [u \in Txn |-> IF client[u].open THEN Grown(client[u], TableIn(Db')) ELSE client[u]])
  <1> DEFINE pg == [p \in Page |-> IF p \in F.dirtied THEN F.shadows[p] ELSE page[p]]
             W == RowsOf(F.row_journal)
             X == Store!Apply(TableIn(Db), own)
  <1>1. F \in Txns /\ F.dirtied \subseteq Leaves /\ F.row_journal \in Seq(Entry)
        /\ \A p \in DOMAIN F.shadows : F.shadows[p] \in [Row -> Nat]
    BY TxnIs DEF Installs
  <1>2. SpliceTxnFreed(pg, <<>>) = pg
    BY SpliceNothing
  <1>3. {F.row_journal[k].row : k \in DOMAIN F.row_journal} = W
    BY <1>1 DEF RowsOf
  <1>4. /\ page' = pg /\ commit_epoch' = commit_epoch + 1
        /\ stamps' = [p \in Page |-> IF p \in F.dirtied THEN commit_epoch + 1 ELSE stamps[p]]
        /\ row_stamps' = [r \in Row |-> IF r \in W THEN commit_epoch + 1 ELSE row_stamps[r]]
        /\ End(t, [u \in Txn |-> IF client[u].open
                                 THEN [client[u] EXCEPT !.cands = @ \cup {TableOf(pg)}] ELSE client[u]])
    BY <1>2, <1>3 DEF Install
  <1>5. /\ page \in [Page -> [Row -> Nat]] /\ stamps \in [Page -> Nat]
        /\ row_stamps \in [Row -> Nat] /\ commit_epoch \in Nat /\ commit_epoch # 0
        /\ page[1] = Route /\ (\A p \in Leaves : LeafImage(page[p], p))
        /\ stamps[1] = 0 /\ (\A p \in Page : stamps[p] <= commit_epoch)
        /\ (\A r \in Row : row_stamps[r] <= commit_epoch)
    BY DbIs, DbNow
  <1>6. Root = 1 /\ 1 \notin F.dirtied /\ 1 \in Page /\ Leaves \subseteq Page
    BY <1>1, PagesAre
  <1>7. \A r \in Row : Home(r) \in Page /\ Home(r) \in Leaves
    BY PagesAre
  <1>8. W \subseteq Row
    <2>1. \A k \in 1 .. Len(F.row_journal) : F.row_journal[k] \in Entry
      BY <1>1
    <2>2. \A x \in Entry : x.row \in Row
      BY DEF Entry
    <2> QED BY <2>1, <2>2 DEF RowsOf
  <1> HIDE DEF W
  <1>9. pg \in [Page -> [Row -> Nat]] /\ pg[1] = Route
    BY <1>1, <1>5, <1>6 DEF Installs
  <1>10. \A p \in Page : pg[p] = IF p \in F.dirtied THEN F.shadows[p] ELSE page[p]
    OBVIOUS
  <1>11. \A p \in Leaves : LeafImage(pg[p], p)
    BY <1>5, <1>6, <1>10 DEF Installs
  <1>12. \A r \in Row : pg[Home(r)][r] = IF own[r] = Unknown THEN page[Home(r)][r] ELSE own[r]
    <2> HIDE DEF pg
    <2> QED BY <1>7, <1>10 DEF Installs
  <1> HIDE DEF pg
  <1>13. /\ Db'.page = pg /\ Db'.epoch = commit_epoch + 1
         /\ Db'.stamps = [p \in Page |-> IF p \in F.dirtied THEN commit_epoch + 1 ELSE stamps[p]]
         /\ Db'.rows = [r \in Row |-> IF r \in W THEN commit_epoch + 1 ELSE row_stamps[r]]
         /\ Db' = [page |-> page', stamps |-> stamps', rows |-> row_stamps', epoch |-> commit_epoch']
    BY <1>4 DEF Db
  <1> DEFINE e == Db'
  <1>14. e \in Dbs
    <2>1. page' \in [Page -> [Row -> Nat]] /\ stamps' \in [Page -> Nat] /\ row_stamps' \in [Row -> Nat] /\ commit_epoch' \in Nat
      BY <1>4, <1>5, <1>9
    <2> QED BY <1>13, <2>1 DEF Dbs
  <1>15. Sound(e)
    <2>1. e.stamps[1] = 0 /\ \A p \in Page : e.stamps[p] <= e.epoch
      BY <1>5, <1>6, <1>13
    <2>2. e.epoch # 0 /\ \A r \in Row : e.rows[r] <= e.epoch
      BY <1>5, <1>13
    <2> QED BY <1>6, <1>9, <1>11, <1>13, <1>14, <2>1, <2>2 DEF Sound
  <1>16. \A r \in Row \ W : pg[Home(r)][r] = page[Home(r)][r]
    BY <1>12 DEF Installs, W
  <1>17. Moves(Db, e, F.dirtied, W)
    <2>1. \A p \in Top : p \notin F.dirtied => e.page[p] = Db.page[p]
      BY <1>10, <1>13, DbNow, PagesAre
    <2>2. \A p \in Page : e.stamps[p] = IF p \in F.dirtied THEN e.epoch ELSE Db.stamps[p]
      BY <1>13, DbNow
    <2>3. \A r \in Row : e.rows[r] = IF r \in W THEN e.epoch ELSE Db.rows[r]
      BY <1>13, DbNow
    <2>4. \A r \in Row \ W : e.page[Home(r)][r] = Db.page[Home(r)][r]
      BY <1>13, <1>16, DbNow
    <2>5. e.epoch = Db.epoch + 1
      BY <1>13, DbNow
    <2> HIDE DEF e
    <2> QED BY <1>1, <1>8, <1>15, <2>1, <2>2, <2>3, <2>4, <2>5 DEF Moves
  <1>18. TableIn(e) = X
    <2>1. \A r \in Row : TableIn(Db)[r] = page[Home(r)][r]
      BY DbNow DEF TableIn
    <2>2. TableIn(e) = [r \in Row |-> pg[Home(r)][r]]
      BY <1>13 DEF TableIn
    <2>3. X = [r \in Row |-> IF own[r] = Unknown THEN TableIn(Db)[r] ELSE own[r]]
      BY DEF Store!Apply
    <2> QED BY <1>12, <2>1, <2>2, <2>3
  <1>19. TableOf(pg) = TableIn(e)
    <2>1. pg[Root] = Route /\ \A r \in Row : Route[r] = Home(r)
      BY <1>6, <1>9 DEF Route
    <2> QED BY <1>13, <2>1 DEF TableOf, TableIn
  <1>20. TableOf(page)' = TableOf(pg)
    BY <1>4 DEF TableOf, Root
  <1>21. End(t, [u \in Txn |-> IF client[u].open THEN Grown(client[u], TableIn(e)) ELSE client[u]])
    BY <1>4, <1>19 DEF Grown
  <1> QED BY <1>17, <1>18, <1>19, <1>20, <1>21 DEF W

\* What was told is still true when nothing read has moved.
LEMMA StillTrue ==
  ASSUME NEW T, NEW c, NEW tab, Sound(Db), Works(T, c, tab, Db), ~ReadSetStale(T)
  PROVE  \A r \in Row : c.seen[r] \in {Unknown, TableIn(Db)[r]}
  <1> SUFFICES ASSUME NEW r \in Row, c.seen[r] # Unknown PROVE c.seen[r] = TableIn(Db)[r]
    OBVIOUS
  <1>1. T \in Txns /\ Tracked(T, c, Db)
    BY WorksCore DEF Core
  <1>2. ~Stale(T, Db)
    BY StaleIs
  <1>3. TableIn(Db)[r] = Db.page[Home(r)][r]
    BY DEF TableIn
  <1>4. Db.rows[r] \in Nat /\ T.sem_rows[r] \in Nat
    BY <1>1, TxnIs, DbIs
  <1>5. CASE ByRow(T, Db, r, c.seen[r])
    <2>1. Db.rows[r] <= T.sem_rows[r]
      BY <1>2, <1>4, <1>5 DEF Stale, ByRow
    <2> QED BY <1>3, <1>5, <2>1 DEF ByRow
  <1>6. CASE ByPage(T, Db, r, c.seen[r])
    <2>1. Db.stamps[Home(r)] = T.read_stamps[Home(r)]
      BY <1>2, <1>6 DEF Stale, ByPage
    <2> QED BY <1>3, <1>6, <2>1 DEF ByPage
  <1> QED BY <1>1, <1>5, <1>6 DEF Tracked

\* A transaction whose pages have not moved installs what it wrote.
LEMMA FastInstalls ==
  ASSUME NEW T, NEW c, NEW tab, Sound(Db), Works(T, c, tab, Db),
         IsWriter(T) => ~ReadSetStale(T), Conflicts(T) = {}
  PROVE  Installs(T, c.own) /\ ((\E r \in Row : c.own[r] # Unknown) => ~ReadSetStale(T))
  <1>1. T \in Txns /\ Core(T, c, tab, Db) /\ Kinds(T, Db) /\ Images(T, c, tab, Db)
    BY WorksCore
  <1>2. T.row_journal \in Seq(Entry) /\ T.dirtied \subseteq Leaves /\ DOMAIN T.shadows \subseteq Top
        /\ T.sem_rows \in [Row -> Nat]
    BY <1>1, TxnIs
  <1>3. Says(T.row_journal, c.own) /\ \A r \in Row : c.own[r] # Unknown => T.sem_rows[r] # 0
    BY <1>1 DEF Core, Journal
  <1>4. \A r \in Row : r \in RowsOf(T.row_journal) <=> c.own[r] # Unknown
    BY <1>2, <1>3, SaysOwn
  <1>5. ASSUME NEW r \in Row, c.own[r] # Unknown PROVE ~ReadSetStale(T) /\ Db.rows[r] <= T.sem_rows[r]
    <2>1. r \in RowsOf(T.row_journal)
      BY <1>4, <1>5
    <2>2. T.row_journal # <<>>
      BY <2>1 DEF RowsOf
    <2>3. ~ReadSetStale(T)
      BY <2>2 DEF IsWriter
    <2>4. ~(Db.rows[r] > T.sem_rows[r])
      BY <1>3, <1>5, <2>3, StaleIs DEF Stale
    <2>5. Db.rows[r] \in Nat /\ T.sem_rows[r] \in Nat
      BY <1>2, DbIs
    <2> QED BY <2>3, <2>4, <2>5
  <1>6. T.dirtied \subseteq DOMAIN T.shadows /\ 1 \notin T.dirtied
    BY <1>1, <1>2, PagesAre DEF Kinds
  <1>7. \A p \in T.dirtied : Image(T, c, tab, Db, T.shadows[p], c.own, p) /\ p # 1
    BY <1>1, <1>6 DEF Images
  <1>8. \A p \in T.dirtied : LeafImage(T.shadows[p], p)
    BY <1>7 DEF Image
  <1>9. \A p \in T.dirtied : stamps[p] = T.read_stamps[p]
    BY DEF Conflicts
  <1>10. ASSUME NEW r \in Row, Home(r) \in T.dirtied
         PROVE  T.shadows[Home(r)][r] = IF c.own[r] = Unknown THEN page[Home(r)][r] ELSE c.own[r]
    <2>1. Firm(T, Db, Home(r), r)
      BY <1>9, <1>10, DbNow DEF Firm
    <2>2. IF c.own[r] # Unknown THEN T.shadows[Home(r)][r] = c.own[r]
          ELSE Based(T, c, tab, Db, Home(r), r, T.shadows[Home(r)][r])
      BY <1>7, <1>10 DEF Image
    <2> QED BY <2>1, <2>2, DbNow DEF Based
  <1>11. ASSUME NEW r \in Row, Home(r) \notin T.dirtied, c.own[r] # Unknown
         PROVE  page[Home(r)][r] = c.own[r]
    BY <1>1, <1>5, <1>11, DbNow DEF Core, NetZero
  <1> QED BY <1>1, <1>4, <1>5, <1>6, <1>8, <1>10, <1>11 DEF Installs

-----------------------------------------------------------------------------
(* Replay of a journal on the committed tree. *)

\* The bytes m of page p are the committed ones with own on top.
OnTop(m, own, p) ==
    IF p = 1 THEN m = Route
    ELSE /\ LeafImage(m, p)
         /\ \A r \in Row : Home(r) = p => m[r] = IF own[r] = Unknown THEN page[p][r] ELSE own[r]

\* The fresh transaction F has replayed entries that wrote own.
Replays(F, own) ==
    /\ F \in Txns /\ F.savepoints = <<>> /\ F.err = FALSE /\ F.view_advanced = FALSE
    /\ F.begin_epoch = commit_epoch /\ F.dirtied \subseteq DOMAIN F.shadows
    /\ own \in [Row -> Val \cup {Unknown}]
    /\ \A p \in DOMAIN F.shadows : /\ F.page_kind[p] = (IF p = 1 THEN "interior" ELSE "leaf")
                                   /\ OnTop(F.shadows[p], own, p)
    /\ \A r \in Row : /\ r \in RowsOf(F.row_journal) <=> own[r] # Unknown
                      /\ own[r] # Unknown => Home(r) \in F.dirtied

\* A transaction with the same shadows replays as well.
LEMMA ReplaysSame ==
  ASSUME NEW F, NEW own, Replays(F, own), NEW A \in Txns, A.savepoints = <<>>, A.err = FALSE,
         A.view_advanced = FALSE, A.begin_epoch = F.begin_epoch, A.dirtied = F.dirtied,
         A.shadows = F.shadows, A.page_kind = F.page_kind, A.row_journal = F.row_journal
  PROVE  Replays(A, own)
  BY DEF Replays

\* There is no savepoint to capture a page.
LEMMA ReplayCapture ==
  ASSUME NEW F, NEW own, Replays(F, own), NEW p \in DOMAIN F.shadows
  PROVE  Replays(CaptureShadowUndo(F, p), own) /\ CaptureShadowUndo(F, p).shadows = F.shadows
  <1> DEFINE A == CaptureShadowUndo(F, p)
  <1>1. F \in Txns /\ F.savepoints = <<>> /\ F.err = FALSE /\ F.view_advanced = FALSE
    BY DEF Replays
  <1>2. A \in Txns /\ Alike(F, A) /\ A.err = F.err /\ Len(A.savepoints) = Len(F.savepoints)
    BY <1>1, CaptureIs
  <1> HIDE DEF A
  <1>3. A.savepoints \in Seq(Level) /\ Len(A.savepoints) = 0
    BY <1>1, <1>2, TxnIs
  <1>4. A.savepoints = <<>>
    BY <1>3, EmptySeq
  <1>5. Replays(A, own)
    BY <1>1, <1>2, <1>4, ReplaysSame DEF Alike
  <1> QED BY <1>2, <1>5 DEF A, Alike

\* A fetch serves the committed bytes, and never fails.
LEMMA ReplayShadow ==
  ASSUME NEW F, NEW own, Sound(Db), n_pages = 4, Replays(F, own), NEW p \in Top
  PROVE  LET A == Shadow(F, p)
         IN  Replays(A, own) /\ DOMAIN A.shadows = DOMAIN F.shadows \cup {p}
  <1> DEFINE A == Shadow(F, p)
  <1>1. F \in Txns /\ F.savepoints = <<>> /\ F.err = FALSE /\ F.view_advanced = FALSE
        /\ F.begin_epoch = commit_epoch /\ F.dirtied \subseteq DOMAIN F.shadows
        /\ own \in [Row -> Val \cup {Unknown}]
    BY DEF Replays
  <1>2. CASE p \in DOMAIN F.shadows
    <2>1. A = CaptureShadowUndo(F, p)
      BY <1>2 DEF Shadow
    <2>2. Replays(CaptureShadowUndo(F, p), own) /\ CaptureShadowUndo(F, p).shadows = F.shadows
      BY <1>2, ReplayCapture
    <2> HIDE DEF A
    <2> QED BY <1>2, <2>1, <2>2 DEF A
  <1>3. CASE p \notin DOMAIN F.shadows
    <2> DEFINE S == Served(F, p, Db)
    <2>1. p \in Page
      BY PagesAre
    <2>2. ~Late(F, p, Db)
      <3>1. Db.stamps[p] <= Db.epoch /\ Db.stamps[p] \in Nat /\ Db.epoch \in Nat
        BY <2>1, DbIs
      <3> QED BY <1>1, <3>1, DbNow DEF Late
    <2>3. A = CaptureShadowUndo(S, p)
      BY <1>1, <1>3, <2>2, MaterializeIs DEF Shadow
    <2>4. /\ S \in Txns /\ S.err = F.err /\ S.savepoints = F.savepoints
          /\ S.begin_epoch = F.begin_epoch /\ S.dirtied = F.dirtied
          /\ S.row_journal = F.row_journal
          /\ S.view_advanced = (F.view_advanced \/ Late(F, p, Db))
          /\ S.page_kind[p] = (IF p = 1 THEN "interior" ELSE "leaf")
          /\ DOMAIN S.shadows = DOMAIN F.shadows \cup {p} /\ S.shadows[p] = Db.page[p]
          /\ \A q \in DOMAIN F.shadows : q # p => S.shadows[q] = F.shadows[q]
          /\ \A q \in Top : q # p => S.page_kind[q] = F.page_kind[q]
      BY <1>1, ServedIs
    <2> HIDE DEF S, A
    <2>5. DOMAIN F.shadows \subseteq Top
      BY <1>1, TxnIs
    <2>6. OnTop(S.shadows[p], own, p)
      <3>1. CASE p = 1
        BY <2>4, <3>1, DbIs DEF OnTop
      <3>2. CASE p # 1
        <4>1. LeafImage(Db.page[p], p)
          BY <3>2, DbIs, PagesAre
        <4>2. \A r \in Row : Home(r) = p => own[r] = Unknown
          BY <1>1, <1>3 DEF Replays
        <4> QED BY <2>4, <3>2, <4>1, <4>2, DbNow DEF OnTop
      <3> QED BY <3>1, <3>2
    <2>7. \A q \in DOMAIN S.shadows : /\ S.page_kind[q] = (IF q = 1 THEN "interior" ELSE "leaf")
                                      /\ OnTop(S.shadows[q], own, q)
      <3> SUFFICES ASSUME NEW q \in DOMAIN F.shadows, q # p
                   PROVE  /\ S.page_kind[q] = (IF q = 1 THEN "interior" ELSE "leaf")
                          /\ OnTop(S.shadows[q], own, q)
        BY <2>4, <2>6
      <3>1. F.page_kind[q] = (IF q = 1 THEN "interior" ELSE "leaf") /\ OnTop(F.shadows[q], own, q)
        BY DEF Replays
      <3> QED BY <2>4, <2>5, <3>1
    <2>8. S.view_advanced = FALSE /\ S.dirtied \subseteq DOMAIN S.shadows
      BY <1>1, <2>2, <2>4
    <2>9. Replays(S, own)
      BY <1>1, <2>4, <2>7, <2>8 DEF Replays
    <2>10. Replays(CaptureShadowUndo(S, p), own) /\ CaptureShadowUndo(S, p).shadows = S.shadows
      BY <2>4, <2>9, ReplayCapture
    <2> QED BY <2>3, <2>4, <2>10 DEF A
  <1> QED BY <1>2, <1>3

\* Nor does a read it notes.
LEMMA ReplayNote ==
  ASSUME NEW F, NEW own, Replays(F, own), NEW p \in DOMAIN F.shadows, NEW r \in Row,
         NEW why \in {Structural, Point(r)}
  PROVE  LET A == NoteSemanticRead(F, p, why)
         IN  Replays(A, own) /\ A.shadows = F.shadows
  <1> DEFINE se == F.shadow_epoch[p]
             e == IF F.sem_rows[r] = 0 THEN se ELSE Min({F.sem_rows[r], se})
             B == [F EXCEPT !.sem_rows[r] = e]
             A == NoteSemanticRead(F, p, why)
  <1>1. F \in Txns /\ F.savepoints = <<>> /\ F.err = FALSE /\ F.view_advanced = FALSE
        /\ F.page_kind[p] = (IF p = 1 THEN "interior" ELSE "leaf")
    BY DEF Replays
  <1>2. CASE why = Structural \/ p = 1
    <2>1. A = F
      BY <1>1, <1>2, ReasonsAre DEF NoteSemanticRead
    <2> HIDE DEF A
    <2> QED BY <2>1 DEF A
  <1>3. CASE why = Point(r) /\ p # 1
    <2>1. why.kind = "point" /\ why.row = r
      BY <1>3 DEF Point
    <2>2. A = B
      BY <1>1, <1>3, <2>1 DEF NoteSemanticRead
    <2>3. se \in Nat /\ F.sem_rows[r] \in Nat
      <3>1. p \in Page
        BY <1>1, TxnIs, PagesAre
      <3> QED BY <1>1, <3>1, TxnIs
    <2> HIDE DEF se
    <2>4. e \in Nat
      <3>1. Min({F.sem_rows[r], se}) \in {F.sem_rows[r], se}
        BY <2>3, MinTwo
      <3> QED BY <2>3, <3>1
    <2> HIDE DEF e, A
    <2>5. B \in Txns /\ SameBut(F, B) /\ B.err = F.err
      BY <1>1, <2>4, SetSemRow
    <2> HIDE DEF B
    <2>6. Replays(B, own) /\ B.shadows = F.shadows
      BY <1>1, <2>5, ReplaysSame DEF SameBut
    <2> QED BY <2>2, <2>6 DEF A
  <1> QED BY <1>2, <1>3

\* Nor does the page-type check.
LEMMA ReplayFetch ==
  ASSUME NEW F, NEW own, Sound(Db), n_pages = 4, Replays(F, own), NEW p \in Top, NEW r \in Row,
         NEW why \in {Structural, Point(r)}
  PROVE  LET A == Fetch(F, p, why)
         IN  Replays(A, own) /\ DOMAIN A.shadows = DOMAIN F.shadows \cup {p}
  <1> DEFINE S == Shadow(F, p)
             N == NoteSemanticRead(S, p, why)
             A == Fetch(F, p, why)
  <1>1. Replays(S, own) /\ DOMAIN S.shadows = DOMAIN F.shadows \cup {p}
    BY ReplayShadow
  <1>2. ~F.err
    BY DEF Replays
  <1>3. A = IF S.err THEN S ELSE IF N.err THEN N ELSE Typed(N, p)
    BY <1>2 DEF Fetch, Then
  <1> HIDE DEF S
  <1>4. Replays(N, own) /\ N.shadows = S.shadows
    BY <1>1, ReplayNote
  <1> HIDE DEF N, A
  <1>5. ~S.err /\ ~N.err
    BY <1>1, <1>4 DEF Replays
  <1>6. p \in DOMAIN N.shadows /\ OnTop(N.shadows[p], own, p)
    BY <1>1, <1>4 DEF Replays
  <1>7. N.shadows[p] # Zeroed
    BY <1>6, NotZeroed DEF OnTop
  <1>8. A = N
    BY <1>3, <1>5, <1>7 DEF Typed
  <1> QED BY <1>1, <1>4, <1>8 DEF A

\* The interior page routes a row to its leaf.
LEMMA ReplayLeaf ==
  ASSUME NEW F, NEW own, Replays(F, own), 1 \in DOMAIN F.shadows, NEW r \in Row
  PROVE  Leaf(F, r) = Home(r)
  <1>1. F.shadows[1] = Route
    BY DEF Replays, OnTop
  <1> QED BY <1>1, PagesAre DEF Leaf, Route

\* A descent finds the row as own or the committed leaf has it.
LEMMA ReplayDescend ==
  ASSUME NEW F, NEW own, Sound(Db), n_pages = 4, Replays(F, own), NEW r \in Row,
         NEW why \in {Structural, Point(r)}
  PROVE  LET A == Descend(F, r, why)
         IN  /\ Replays(A, own) /\ Home(r) \in DOMAIN A.shadows /\ Leaf(A, r) = Home(r)
             /\ Found(A, r) = IF own[r] = Unknown THEN page[Home(r)][r] ELSE own[r]
  <1> DEFINE R == Fetch(F, Root, why)
             B == Fetch(R, Home(r), why)
             A == Descend(F, r, why)
  <1>1. Root \in Top /\ Root = 1 /\ Home(r) \in Top /\ Home(r) # 1
    BY PagesAre
  <1>2. Replays(R, own) /\ DOMAIN R.shadows = DOMAIN F.shadows \cup {Root}
    BY <1>1, ReplayFetch
  <1>3. A = IF R.err THEN R ELSE Fetch(R, Leaf(R, r), why)
    BY DEF Descend, Then
  <1> HIDE DEF R
  <1>4. ~R.err /\ Leaf(R, r) = Home(r)
    BY <1>1, <1>2, ReplayLeaf DEF Replays
  <1>5. A = B
    BY <1>3, <1>4
  <1>6. Replays(B, own) /\ DOMAIN B.shadows = DOMAIN R.shadows \cup {Home(r)}
    BY <1>1, <1>2, ReplayFetch
  <1> HIDE DEF A, B
  <1>7. Leaf(B, r) = Home(r)
    BY <1>1, <1>2, <1>6, ReplayLeaf
  <1>8. OnTop(B.shadows[Home(r)], own, Home(r))
    BY <1>6 DEF Replays
  <1>9. B.shadows[Home(r)][r] = IF own[r] = Unknown THEN page[Home(r)][r] ELSE own[r]
    BY <1>1, <1>8 DEF OnTop
  <1> QED BY <1>5, <1>6, <1>7, <1>9 DEF A, Found

\* One more entry, and what own says then.
LEMMA RowsAppend ==
  ASSUME NEW j \in Seq(Entry), NEW e \in Entry
  PROVE  RowsOf(Append(j, e)) = RowsOf(j) \cup {e.row}
  <1> DEFINE a == Append(j, e)
  <1>1. /\ a \in Seq(Entry) /\ Len(a) = Len(j) + 1 /\ a[Len(j) + 1] = e /\ Len(j) \in Nat
        /\ \A k \in 1 .. Len(j) : a[k] = j[k]
        /\ \A k \in 1 .. Len(a) : k \in 1 .. Len(j) \/ k = Len(j) + 1
    BY AppendIs
  <1> HIDE DEF a
  <1>2. \A k \in 1 .. Len(j) : k \in 1 .. Len(a)
    BY <1>1
  <1>3. Len(j) + 1 \in 1 .. Len(a)
    BY <1>1
  <1>4. RowsOf(a) \subseteq RowsOf(j) \cup {e.row}
    BY <1>1 DEF RowsOf
  <1>5. RowsOf(j) \cup {e.row} \subseteq RowsOf(a)
    BY <1>1, <1>2, <1>3 DEF RowsOf
  <1> QED BY <1>4, <1>5 DEF a

\* The row that op writes, on top of own.
Newer(own, r, v) == [q \in Row |-> IF q = r THEN v ELSE own[q]]

\* A cell is written and journalled.
LEMMA ReplayPut ==
  ASSUME NEW F, NEW own, Replays(F, own), NEW r \in Row, NEW v \in Val, NEW kind \in Writes,
         Home(r) \in DOMAIN F.shadows
  PROVE  Replays(Put(F, Home(r), kind, r, v), Newer(own, r, v))
  <1> DEFINE p == Home(r)
             A == Put(F, p, kind, r, v)
             new == Newer(own, r, v)
  <1>1. F \in Txns /\ F.savepoints = <<>> /\ F.err = FALSE /\ F.view_advanced = FALSE
        /\ F.begin_epoch = commit_epoch /\ F.dirtied \subseteq DOMAIN F.shadows
        /\ own \in [Row -> Val \cup {Unknown}]
    BY DEF Replays
  <1>2. p \in Leaves /\ p # 1 /\ p \in DOMAIN F.shadows /\ Home(r) = p
    BY PagesAre
  <1> HIDE DEF p
  <1>3. /\ A \in Txns /\ Fixed(F, A) /\ A.err = F.err /\ A.savepoints = F.savepoints
        /\ A.dirtied = F.dirtied \cup {p} /\ DOMAIN A.shadows = DOMAIN F.shadows
        /\ \A x \in Row : A.shadows[p][x] = IF x = r THEN v ELSE F.shadows[p][x]
        /\ \A q \in DOMAIN F.shadows : q # p => A.shadows[q] = F.shadows[q]
        /\ A.row_journal = Append(F.row_journal, Note(kind, r, v))
    BY <1>1, <1>2, WriteIs
  <1>4. Note(kind, r, v) \in Entry /\ Note(kind, r, v).row = r /\ F.row_journal \in Seq(Entry)
    BY <1>1, NoteIs, TxnIs
  <1> HIDE DEF A
  <1>5. RowsOf(A.row_journal) = RowsOf(F.row_journal) \cup {r}
    BY <1>3, <1>4, RowsAppend
  <1>6. new \in [Row -> Val \cup {Unknown}] /\ \A q \in Row : new[q] = IF q = r THEN v ELSE own[q]
    BY <1>1 DEF Newer
  <1> HIDE DEF new
  <1>7. v # Unknown /\ v \in Cell
    BY UnknownIs
  <1>8. ASSUME NEW q \in DOMAIN A.shadows
        PROVE  A.page_kind[q] = (IF q = 1 THEN "interior" ELSE "leaf") /\ OnTop(A.shadows[q], new, q)
    <2>1. F.page_kind[q] = (IF q = 1 THEN "interior" ELSE "leaf") /\ OnTop(F.shadows[q], own, q)
      BY <1>3 DEF Replays
    <2>2. A.page_kind = F.page_kind
      BY <1>3 DEF Fixed
    <2>3. CASE q # p
      <3>1. \A x \in Row : Home(x) = q => new[x] = own[x]
        BY <1>2, <1>6, <2>3
      <3> QED BY <1>3, <2>1, <2>2, <2>3, <3>1 DEF OnTop
    <2>4. CASE q = p
      <3>1. LeafImage(F.shadows[p], p)
            /\ \A x \in Row : Home(x) = p => F.shadows[p][x] = IF own[x] = Unknown THEN page[p][x] ELSE own[x]
        BY <1>2, <2>1, <2>4 DEF OnTop
      <3>2. A.shadows[p] \in [Row -> Nat]
        BY <1>2, <1>3, TxnIs
      <3>3. LeafImage(A.shadows[p], p)
        BY <1>2, <1>3, <1>7, <3>1, <3>2 DEF LeafImage
      <3>4. \A x \in Row : Home(x) = p => A.shadows[p][x] = IF new[x] = Unknown THEN page[p][x] ELSE new[x]
        BY <1>3, <1>6, <1>7, <3>1
      <3> QED BY <1>2, <2>1, <2>2, <2>4, <3>3, <3>4 DEF OnTop
    <2> QED BY <2>3, <2>4
  <1>9. \A x \in Row : /\ x \in RowsOf(A.row_journal) <=> new[x] # Unknown
                       /\ new[x] # Unknown => Home(x) \in A.dirtied
    BY <1>2, <1>3, <1>5, <1>6, <1>7 DEF Replays
  <1>10. A.dirtied \subseteq DOMAIN A.shadows /\ A.view_advanced = FALSE /\ A.begin_epoch = commit_epoch
    BY <1>1, <1>2, <1>3 DEF Fixed
  <1>11. Replays(A, new)
    BY <1>1, <1>3, <1>6, <1>8, <1>9, <1>10 DEF Replays
  <1> QED BY <1>11 DEF A, new, p

\* A noted decision changes nothing of it.
LEMMA ReplayDecision ==
  ASSUME NEW F, NEW own, Replays(F, own)
  PROVE  Replays(NoteDecisionRead(F, Root), own) /\ NoteDecisionRead(F, Root).shadows = F.shadows
  <1> DEFINE s == F.decision_reads \cup {Root}
             A == [F EXCEPT !.decision_reads = s]
  <1>1. F \in Txns /\ F.savepoints = <<>> /\ F.err = FALSE /\ F.view_advanced = FALSE
    BY DEF Replays
  <1>2. s \in SUBSET {1}
    BY <1>1, TxnIs, PagesAre
  <1>3. NoteDecisionRead(F, Root) = A
    BY DEF NoteDecisionRead
  <1> HIDE DEF s
  <1>4. A \in Txns /\ SameBut(F, A) /\ A.err = F.err
    BY <1>1, <1>2 DEF Txns, SameBut
  <1> HIDE DEF A
  <1> QED BY <1>1, <1>3, <1>4, ReplaysSame DEF SameBut

\* replay_one: it writes what the entry says, or fails.
LEMMA ReplayOneIs ==
  ASSUME InPlace, NEW F, NEW own, Sound(Db), n_pages = 4, Replays(F, own), NEW op \in Entry,
         op.kind = "replace" => own[op.row] # Unknown \/ page[Home(op.row)][op.row] # Absent
  PROVE  LET A == ReplayOne(F, op)
         IN  A \in Txns /\ (A.err \/ Replays(A, Newer(own, op.row, op.val)))
  <1> DEFINE r == op.row
             v == op.val
             n == n_pages
             A == ReplayOne(F, op)
             new == Newer(own, r, v)
  <1>1. r \in Row /\ v \in Val /\ op.kind \in {"insert", "replace"} /\ ~F.err
    BY DEF Entry, Replays
  <1>2. Home(r) \in Top /\ Home(r) # 1 /\ Root = 1 /\ Root \in Top
    BY <1>1, PagesAre
  <1>3. own \in [Row -> Val \cup {Unknown}]
    BY DEF Replays
  <1>4. \A B : Replays(B, new) => B \in Txns
    BY DEF Replays
  <1>5. CASE op.kind = "replace"
    <2> DEFINE B == Descend(F, r, Structural)
    <2>1. /\ Replays(B, own) /\ Home(r) \in DOMAIN B.shadows /\ Leaf(B, r) = Home(r)
          /\ Found(B, r) = IF own[r] = Unknown THEN page[Home(r)][r] ELSE own[r]
      BY <1>1, ReplayDescend
    <2>2. UpdateTable(F, r, v) =
            IF B.err THEN NoteJournalInvalidated(B)
            ELSE IF Found(B, r) = Absent THEN NoteRowWrite(B, "replace", r, v, FALSE)
                 ELSE NoteRowWrite(SetCell(B, Leaf(B, r), r, v), "replace", r, v, TRUE)
      BY DEF UpdateTable, Journalled
    <2> HIDE DEF B
    <2>3. Found(B, r) # Absent
      BY <1>1, <1>3, <1>5, <2>1, UnknownIs
    <2>4. ~B.err
      BY <2>1 DEF Replays
    <2>5. UpdateTable(F, r, v) = Put(B, Home(r), "replace", r, v)
      BY <2>1, <2>2, <2>3, <2>4 DEF Put
    <2>6. A = UpdateTable(F, r, v)
      BY <1>1, <1>5 DEF ReplayOne
    <2>7. "replace" \in Writes
      BY DEF Writes
    <2>8. Replays(Put(B, Home(r), "replace", r, v), new)
      BY <1>1, <2>1, <2>7, ReplayPut
    <2> HIDE DEF A, new
    <2>9. A \in Txns /\ (A.err \/ Replays(A, new))
      BY <1>4, <2>5, <2>6, <2>8
    <2> QED BY <2>9 DEF A, new
  <1>6. CASE op.kind = "insert"
    <2> DEFINE L == Descend(F, r, Point(r))
               m == n_pages + Len(L.allocated)
               R == Fetch(L, Root, Structural)
               D == NoteDecisionRead(R, Root)
               B == Fetch(D, Home(r), Structural)
               I == InsertTable(L, r, v, m)
    <2>1. /\ Replays(L, own) /\ Home(r) \in DOMAIN L.shadows /\ Leaf(L, r) = Home(r)
      BY <1>1, ReplayDescend
    <2>2. A = IF L.err THEN L ELSE IF Found(L, r) # Absent THEN Fail(L) ELSE I
      BY <1>1, <1>6 DEF ReplayOne, Then, ReplayInsert
    <2> HIDE DEF L
    <2>3. ~L.err /\ L \in Txns
      BY <2>1 DEF Replays
    <2>4. CASE Found(L, r) # Absent
      <3>1. Fail(L) \in Txns /\ Fail(L).err
        BY <2>3, FailIs
      <3> HIDE DEF A
      <3>2. A = Fail(L)
        BY <2>2, <2>3, <2>4
      <3> QED BY <3>1, <3>2 DEF A
    <2>5. CASE Found(L, r) = Absent
      <3>0. Structural \in {Structural, Point(r)}
        OBVIOUS
      <3>1. Replays(R, own) /\ DOMAIN R.shadows = DOMAIN L.shadows \cup {Root}
        BY <1>1, <1>2, <2>1, <3>0, ReplayFetch
      <3>2. I = LET G == IF R.err THEN R ELSE Fetch(NoteDecisionRead(R, Root), Leaf(R, r), Structural)
                IN  IF G.err THEN NoteJournalInvalidated(G)
                    ELSE NoteRowWrite(PlaceCell(G, Leaf(G, r), r, v, m), "insert", r, v, TRUE)
        BY DEF InsertTable, Journalled, Then
      <3> HIDE DEF R
      <3>3. ~R.err /\ Leaf(R, r) = Home(r)
        BY <1>1, <1>2, <3>1, ReplayLeaf DEF Replays
      <3>4. Replays(D, own) /\ D.shadows = R.shadows
        BY <3>1, ReplayDecision
      <3>5. I = IF B.err THEN NoteJournalInvalidated(B)
                ELSE NoteRowWrite(PlaceCell(B, Leaf(B, r), r, v, m), "insert", r, v, TRUE)
        BY <3>2, <3>3
      <3> HIDE DEF D, I, m
      <3>6. Replays(B, own) /\ DOMAIN B.shadows = DOMAIN D.shadows \cup {Home(r)}
        BY <1>1, <1>2, <3>0, <3>4, ReplayFetch
      <3> HIDE DEF B
      <3>7. 1 \in DOMAIN B.shadows /\ Home(r) \in DOMAIN B.shadows /\ ~B.err
        BY <1>2, <3>1, <3>4, <3>6 DEF Replays
      <3>8. Leaf(B, r) = Home(r)
        BY <1>1, <3>6, <3>7, ReplayLeaf
      <3>9. B.shadows[Home(r)][r] = L.shadows[Home(r)][r]
        <4>1. OnTop(B.shadows[Home(r)], own, Home(r)) /\ OnTop(L.shadows[Home(r)], own, Home(r))
          BY <2>1, <3>6, <3>7 DEF Replays
        <4> QED BY <1>1, <1>2, <4>1 DEF OnTop
      <3>10. Cardinality(Rows(B.shadows[Home(r)])) < LeafCap
        BY <1>1, <2>1, <2>5, <3>9, LeafHasRoom DEF Found
      <3>11. I = Put(B, Home(r), "insert", r, v)
        BY <3>5, <3>7, <3>8, <3>10 DEF PlaceCell, Put
      <3>12. "insert" \in Writes
        BY DEF Writes
      <3>13. Replays(Put(B, Home(r), "insert", r, v), new)
        BY <1>1, <3>6, <3>7, <3>12, ReplayPut
      <3> HIDE DEF A, new
      <3>14. A \in Txns /\ (A.err \/ Replays(A, new))
        BY <1>4, <2>2, <2>3, <2>5, <3>11, <3>13
      <3> QED BY <3>14 DEF A, new
    <2> QED BY <2>4, <2>5
  <1> QED BY <1>1, <1>5, <1>6

\* Induction up to a bound.
LEMMA UpTo ==
  ASSUME NEW N \in Nat, NEW S, 0 \in S, \A i \in 0 .. N - 1 : i \in S => i + 1 \in S
  PROVE  N \in S
  <1> DEFINE U == {i \in Nat : i <= N => i \in S}
  <1>1. 0 \in U
    OBVIOUS
  <1>2. ASSUME NEW i \in Nat, i \in U PROVE i + 1 \in U
    <2>1. CASE i + 1 <= N
      <3>1. i \in 0 .. N - 1 /\ i \in S
        BY <1>2, <2>1
      <3> QED BY <3>1
    <2>2. CASE ~(i + 1 <= N)
      BY <2>2
    <2> QED BY <2>1, <2>2
  <1>3. Nat \subseteq U
    <2> HIDE DEF U
    <2> QED BY <1>1, <1>2, NatSet
  <1> QED BY <1>3

\* The chain of transactions that the first n entries of j lead to.
Chain(f, j, n) ==
    f = [k \in 0 .. n |-> IF k = 0 THEN NewTxn(commit_epoch, committed_n_pages)
                          ELSE ReplayOne(f[k - 1], j[k])]

\* The recursion of Replay has a solution.
LEMMA ChainExists ==
  ASSUME NEW j, NEW N \in Nat PROVE \E f : Chain(f, j, N)
  <1> DEFINE S == {n \in 0 .. N : \E f : Chain(f, j, n)}
             x0 == NewTxn(commit_epoch, committed_n_pages)
  <1>1. 0 \in S
    <2> DEFINE f == [k \in 0 .. 0 |-> x0]
    <2>1. Chain(f, j, 0)
      <3> HIDE DEF x0
      <3>1. f = [k \in 0 .. 0 |-> IF k = 0 THEN x0 ELSE ReplayOne(f[k - 1], j[k])]
        OBVIOUS
      <3> QED BY <3>1 DEF Chain, x0
    <2> QED BY <2>1
  <1>2. ASSUME NEW n \in 0 .. N - 1, n \in S PROVE n + 1 \in S
    <2>1. PICK f : Chain(f, j, n)
      BY <1>2
    <2> DEFINE y == ReplayOne(f[n], j[n + 1])
               h == [k \in 0 .. n + 1 |-> IF k <= n THEN f[k] ELSE y]
    <2>2. ASSUME NEW k \in 0 .. n + 1 PROVE h[k] = IF k = 0 THEN x0 ELSE ReplayOne(h[k - 1], j[k])
      <3>1. CASE k = 0
        <4>1. h[0] = f[0]
          OBVIOUS
        <4>2. f[0] = x0
          BY <2>1 DEF Chain
        <4> QED BY <3>1, <4>1, <4>2
      <3>2. CASE k \in 1 .. n
        <4>1. h[k] = f[k] /\ h[k - 1] = f[k - 1] /\ k \in 0 .. n /\ k # 0
          BY <3>2
        <4>2. f[k] = ReplayOne(f[k - 1], j[k])
          BY <2>1, <4>1 DEF Chain
        <4> QED BY <4>1, <4>2
      <3>3. CASE k = n + 1
        <4>1. h[k] = y /\ h[k - 1] = f[n] /\ k # 0
          BY <3>3
        <4> QED BY <3>3, <4>1
      <3> QED BY <3>1, <3>2, <3>3
    <2>3. Chain(h, j, n + 1)
      <3>1. h = [k \in 0 .. n + 1 |-> h[k]]
        OBVIOUS
      <3> HIDE DEF h, x0
      <3>2. h = [k \in 0 .. n + 1 |-> IF k = 0 THEN x0 ELSE ReplayOne(h[k - 1], j[k])]
        BY <2>2, <3>1
      <3> QED BY <3>2 DEF Chain, x0
    <2> HIDE DEF h
    <2>4. \E e : Chain(e, j, n + 1)
      BY <2>3
    <2> QED BY <2>4
  <1>3. N \in S
    <2> HIDE DEF S
    <2> QED BY <1>1, <1>2, UpTo
  <1> QED BY <1>3

\* Replay is the last transaction of that chain.
LEMMA ReplayIs ==
  ASSUME NEW j \in Seq(Entry)
  PROVE  \E f : Chain(f, j, Len(j)) /\ Replay(j) = f[Len(j)]
  <1> DEFINE Eq(f) == f = [k \in 0 .. Len(j) |-> IF k = 0 THEN NewTxn(commit_epoch, committed_n_pages)
                                                 ELSE ReplayOne(f[k - 1], j[k])]
             f == CHOOSE g : Eq(g)
  <1>1. \E g : Eq(g)
    <2>1. Len(j) \in Nat
      OBVIOUS
    <2>2. PICK g : Chain(g, j, Len(j))
      BY <2>1, ChainExists
    <2> QED BY <2>2 DEF Chain
  <1>2. Eq(f)
    BY <1>1
  <1>3. Replay(j) = f[Len(j)]
    BY DEF Replay
  <1> HIDE DEF f
  <1> QED BY <1>2, <1>3 DEF Chain

\* A fresh transaction.
LEMMA NewIs ==
  ASSUME NEW e \in Nat
  PROVE  LET T == NewTxn(e, 4)
         IN  /\ T \in Txns /\ T.begin_epoch = e /\ T.savepoints = <<>> /\ T.err = FALSE
             /\ T.view_advanced = FALSE /\ T.shadows = <<>> /\ DOMAIN T.shadows = {} /\ T.dirtied = {}
             /\ T.row_journal = <<>> /\ T.sem_pages = {} /\ T.sem_rows = [r \in Row |-> 0]
             /\ T.page_kind = [p \in Page |-> "none"]
  <1> DEFINE z == [p \in Page |-> 0]
             k == [p \in Page |-> "none"]
             s == [r \in Row |-> 0]
             T == NewTxn(e, 4)
  <1>1. z \in [Page -> Nat] /\ k \in [Page -> {"none", "interior", "leaf"}] /\ s \in [Row -> Nat]
    OBVIOUS
  <1>2. <<>> \in Copies /\ DOMAIN <<>> = {} /\ <<>> \in Seq(Entry) /\ <<>> \in Seq(Level)
    BY CopiesAre
  <1>3. T = [begin_epoch |-> e, begin_n_pages |-> 4,
             shadows |-> <<>>, dirtied |-> {}, decision_reads |-> {},
             read_stamps |-> z, shadow_epoch |-> z, page_kind |-> k,
             sem_pages |-> {}, sem_rows |-> s, view_advanced |-> FALSE,
             row_journal |-> <<>>, allocated |-> <<>>, freed |-> <<>>, discarded |-> <<>>,
             savepoints |-> <<>>, err |-> FALSE, ops |-> 0]
    BY DEF NewTxn
  <1> HIDE DEF z, k, s, T
  <1>4. T \in Txns
    BY <1>1, <1>2, <1>3 DEF Txns
  <1> QED BY <1>2, <1>3, <1>4 DEF T, k, s

\* Two functions that one journal says are the same.
LEMMA SaysOnce ==
  ASSUME NEW j \in Seq(Entry), NEW a, NEW b, Says(j, a), Says(j, b), NEW r \in Row
  PROVE  a[r] = b[r]
  <1>1. CASE r \in RowsOf(j)
    <2>1. PICK k \in 1 .. Len(j) : j[k].row = r /\ a[r] = j[k].val /\ \A l \in 1 .. Len(j) : l > k => j[l].row # r
      BY <1>1 DEF Says
    <2>2. PICK m \in 1 .. Len(j) : j[m].row = r /\ b[r] = j[m].val /\ \A l \in 1 .. Len(j) : l > m => j[l].row # r
      BY <1>1 DEF Says
    <2>3. k = m
      <3>1. k \in Int /\ m \in Int /\ ~(k > m) /\ ~(m > k)
        BY <2>1, <2>2
      <3> QED BY <3>1
    <2> QED BY <2>1, <2>2, <2>3
  <1>2. CASE r \notin RowsOf(j)
    BY <1>2 DEF Says
  <1> QED BY <1>1, <1>2

\* The outcome of a replay: an error, or the journal's writes on committed pages.
LEMMA ReplayOutcome ==
  ASSUME InPlace, Sound(Db), n_pages = 4, committed_n_pages = 4, NEW T, NEW c, NEW tab,
         Works(T, c, tab, Db), ~ReadSetStale(T)
  PROVE  LET F == Replay(T.row_journal)
         IN  F \in Txns /\ (F.err \/ Installs(F, c.own))
  <1> DEFINE j == T.row_journal
             N == Len(j)
             F == Replay(j)
             P(k) == SubSeq(j, 1, k)
  <1>1. j \in Seq(Entry) /\ Journal(T, c)
    BY WorksCore, TxnIs DEF Core
  <1>2. N \in Nat /\ \A k \in 1 .. N : j[k] \in Entry
    BY <1>1
  <1>3. PICK f : Chain(f, j, N) /\ F = f[N]
    BY <1>1, ReplayIs
  <1>4. \A q \in Row : c.seen[q] \in {Unknown, TableIn(Db)[q]}
    BY StillTrue
  <1> HIDE DEF F
  <1>5. commit_epoch \in Nat
    BY DbIs, DbNow
  <1> DEFINE Good(x, k) == x \in Txns /\ (x.err \/ \E own : Replays(x, own) /\ Says(P(k), own))
             S == {k \in 0 .. N : Good(f[k], k)}
  <1>6. 0 \in S
    <2> DEFINE x == NewTxn(commit_epoch, 4)
               own == [r \in Row |-> Unknown]
    <2>1. f[0] = x
      BY <1>2, <1>3 DEF Chain
    <2>2. /\ x \in Txns /\ x.begin_epoch = commit_epoch /\ x.savepoints = <<>> /\ x.err = FALSE
          /\ x.view_advanced = FALSE /\ x.shadows = <<>> /\ DOMAIN x.shadows = {} /\ x.dirtied = {}
          /\ x.row_journal = <<>>
      BY <1>5, NewIs
    <2> HIDE DEF x
    <2>3. own \in [Row -> Val \cup {Unknown}] /\ \A r \in Row : own[r] = Unknown
      OBVIOUS
    <2> HIDE DEF own
    <2>4. RowsOf(<<>>) = {}
      BY DEF RowsOf
    <2>5. Replays(x, own)
      BY <2>2, <2>3, <2>4 DEF Replays
    <2>6. P(0) = <<>>
      BY <1>1
    <2>7. Says(<<>>, own)
      BY <2>3, <2>4 DEF Says
    <2>8. Good(x, 0)
      BY <2>2, <2>5, <2>6, <2>7
    <2> HIDE DEF P
    <2> QED BY <1>2, <2>1, <2>8
  <1>7. ASSUME NEW k \in 0 .. N - 1, k \in S PROVE k + 1 \in S
    <2> DEFINE x == f[k]
               op == j[k + 1]
    <2>1. k + 1 \in 0 .. N /\ k + 1 # 0 /\ (k + 1) - 1 = k /\ k + 1 \in 1 .. N /\ k \in Nat /\ k <= N
      BY <1>2
    <2>2. f[k + 1] = ReplayOne(x, op)
      BY <1>3, <2>1 DEF Chain
    <2>3. op \in Entry
      BY <1>2, <2>1
    <2>4. Good(x, k)
      BY <1>7
    <2>5. CASE x.err
      <3>1. ReplayOne(x, op) = x
        BY <2>5 DEF ReplayOne
      <3>2. Good(f[k + 1], k + 1)
        BY <2>2, <2>4, <2>5, <3>1
      <3> HIDE DEF P
      <3> QED BY <2>1, <3>2
    <2>6. CASE ~x.err
      <3> HIDE DEF x, op
      <3>1. PICK own : Replays(x, own) /\ Says(P(k), own)
        BY <2>4, <2>6
      <3>2. P(k) \in Seq(Entry) /\ Len(P(k)) = k /\ \A l \in 1 .. k : P(k)[l] = j[l]
        BY <1>1, <2>1, PrefixIs
      <3>3. op.row \in Row /\ op.val \in Val
        BY <2>3 DEF Entry
      <3>4. op.kind = "replace" => own[op.row] # Unknown \/ page[Home(op.row)][op.row] # Absent
        <4> SUFFICES ASSUME op.kind = "replace"
                     PROVE  own[op.row] # Unknown \/ page[Home(op.row)][op.row] # Absent
          OBVIOUS
        <4>1. \/ \E l \in 1 .. (k + 1) - 1 : j[l].row = op.row
              \/ c.seen[op.row] \notin {Unknown, Absent}
          BY <1>1, <2>1 DEF Journal, op
        <4>2. CASE \E l \in 1 .. (k + 1) - 1 : j[l].row = op.row
          <5>1. PICK l \in 1 .. k : j[l].row = op.row
            BY <2>1, <4>2
          <5>2. op.row \in RowsOf(P(k))
            BY <3>2, <5>1 DEF RowsOf
          <5> QED BY <3>1, <3>2, <3>3, <5>2, SaysOwn
        <4>3. CASE c.seen[op.row] \notin {Unknown, Absent}
          <5>1. c.seen[op.row] = Db.page[Home(op.row)][op.row]
            BY <1>4, <3>3, <4>3 DEF TableIn
          <5> QED BY <4>3, <5>1, DbNow
        <4> QED BY <4>1, <4>2, <4>3
      <3> DEFINE y == ReplayOne(x, op)
                 new == Newer(own, op.row, op.val)
      <3>5. y \in Txns /\ (y.err \/ Replays(y, new))
        BY <2>3, <3>1, <3>4, ReplayOneIs
      <3>6. P(k + 1) = Append(P(k), op)
        <4>1. SubSeq(j, 1, k + 1) = Append(SubSeq(j, 1, k), j[k + 1])
          BY <1>1, <2>1
        <4> QED BY <4>1 DEF op
      <3>7. Says(P(k + 1), new)
        <4>1. own \in Partial /\ new \in Partial /\ \A q \in Row : new[q] = IF q = op.row THEN op.val ELSE own[q]
          <5>1. own \in [Row -> Val \cup {Unknown}]
            BY <3>1 DEF Replays
          <5> QED BY <3>3, <5>1, UnknownIs DEF Newer, Partial
        <4> HIDE DEF new, P
        <4> QED BY <2>3, <3>1, <3>2, <3>6, <4>1, SaysAppend
      <3> HIDE DEF y, new, P
      <3>8. Good(y, k + 1)
        BY <3>5, <3>7
      <3> QED BY <2>1, <2>2, <3>8 DEF y
    <2> QED BY <2>5, <2>6
  <1>8. N \in S
    <2> HIDE DEF S
    <2> QED BY <1>2, <1>6, <1>7, UpTo
  <1>9. Good(F, N)
    BY <1>3, <1>8
  <1>10. P(N) = j
    BY <1>1, SubSeqFull
  <1>11. CASE F.err
    BY <1>9, <1>11 DEF F
  <1>12. CASE ~F.err
    <2>1. PICK own : Replays(F, own) /\ Says(j, own)
      BY <1>9, <1>10, <1>12
    <2>2. \A r \in Row : own[r] = c.own[r]
      BY <1>1, <2>1, SaysOnce DEF Journal
    <2>3. F \in Txns /\ F.dirtied \subseteq DOMAIN F.shadows
      BY <2>1 DEF Replays
    <2>4. F.dirtied \subseteq Leaves /\ \A p \in Leaves : p # 1
      BY <2>3, TxnIs, PagesAre
    <2>5. \A p \in F.dirtied : OnTop(F.shadows[p], own, p) /\ p # 1
      BY <2>1, <2>3, <2>4 DEF Replays
    <2>6. \A p \in F.dirtied : LeafImage(F.shadows[p], p)
      BY <2>5 DEF OnTop
    <2>7. \A r \in Row : Home(r) \in F.dirtied =>
            F.shadows[Home(r)][r] = IF own[r] = Unknown THEN page[Home(r)][r] ELSE own[r]
      BY <2>5 DEF OnTop
    <2>8. \A r \in Row : /\ r \in RowsOf(F.row_journal) <=> own[r] # Unknown
                         /\ own[r] # Unknown => Home(r) \in F.dirtied
      BY <2>1 DEF Replays
    <2>9. Installs(F, c.own)
      BY <2>2, <2>3, <2>6, <2>7, <2>8 DEF Installs
    <2> QED BY <2>3, <2>9 DEF F
  <1> QED BY <1>11, <1>12

-----------------------------------------------------------------------------
(* Steps. *)

\* The committed state does not change with what is not of it.
LEMMA SameDb ==
  ASSUME UNCHANGED tree
  PROVE  Db' = Db /\ TableOf(page)' = TableOf(page)
  BY DEF tree, Db, TableOf, Root

\* What a commit does to the table.
ExactStep ==
    \A t \in Txn : Commits(t) => TableOf(page)' = Store!Apply(TableOf(page), client[t].own)

\* A step keeps the invariant and is one of the abstract table, or none.
Follows == Inv' /\ (Store!Next \/ UNCHANGED Store!vars) /\ ExactStep

\* The parts of the invariant.
LEMMA InvIs ==
  ASSUME Inv
  PROVE  /\ Sound(Db) /\ n_pages = 4 /\ committed_n_pages = 4 /\ freelist = [p \in Page |-> 0]
         /\ (\A p \in Page \ Top : page[p] = Zeroed)
         /\ pc \in [Txn -> Pcs] /\ txn = [t \in Txn |-> txn[t]] /\ client = [t \in Txn |-> client[t]]
         /\ DOMAIN txn = Txn /\ DOMAIN client = Txn /\ TableOf(page) = TableIn(Db)
         /\ \A t \in Txn : /\ Slot(pc[t], txn[t], client[t], Db)
                           /\ Open(t) => /\ txn[t].err = FALSE
                                         /\ \E tab \in client[t].cands : Works(txn[t], client[t], tab, Db)
  <1>1. /\ Sound(Db) /\ n_pages = 4 /\ committed_n_pages = 4 /\ freelist = [p \in Page |-> 0]
        /\ (\A p \in Page \ Top : page[p] = Zeroed)
        /\ pc \in [Txn -> Pcs] /\ txn = [t \in Txn |-> txn[t]] /\ client = [t \in Txn |-> client[t]]
        /\ \A t \in Txn : Slot(pc[t], txn[t], client[t], Db)
    BY DEF Inv
  <1>2. TableOf(page) = TableIn(Db)
    BY <1>1, TableIs
  <1>3. DOMAIN txn = Txn /\ DOMAIN client = Txn
    BY <1>1
  <1>4. \A t \in Txn : Open(t) => /\ txn[t].err = FALSE
                                  /\ \E tab \in client[t].cands : Works(txn[t], client[t], tab, Db)
    BY <1>1 DEF Slot, Open
  <1> QED BY <1>1, <1>2, <1>3, <1>4

\* A step of one connection that leaves the committed state alone.
LEMMA StepAt ==
  ASSUME Inv, UNCHANGED tree, NEW t \in Txn, NEW at \in Pcs, NEW T, NEW c, Slot(at, T, c, Db),
         pc' = [pc EXCEPT ![t] = at], txn' = [txn EXCEPT ![t] = T], client' = [client EXCEPT ![t] = c]
  PROVE  Inv' /\ ExactStep /\ TableOf(page)' = TableOf(page)
  <1>1. Db' = Db /\ TableOf(page)' = TableOf(page)
    BY SameDb
  <1>2. /\ Sound(Db) /\ pc \in [Txn -> Pcs] /\ DOMAIN txn = Txn /\ DOMAIN client = Txn
        /\ \A u \in Txn : Slot(pc[u], txn[u], client[u], Db)
    BY InvIs
  <1>3. Sound(Db)'
    BY <1>1, <1>2
  <1>4. pc' \in [Txn -> Pcs] /\ txn' = [u \in Txn |-> txn'[u]] /\ client' = [u \in Txn |-> client'[u]]
    BY <1>2
  <1>5. ASSUME NEW u \in Txn PROVE Slot(pc'[u], txn'[u], client'[u], Db')
    <2>1. CASE u = t
      <3>1. pc'[u] = at /\ txn'[u] = T /\ client'[u] = c
        BY <1>2, <2>1
      <3> QED BY <1>1, <3>1
    <2>2. CASE u # t
      <3>1. pc'[u] = pc[u] /\ txn'[u] = txn[u] /\ client'[u] = client[u]
        BY <1>2, <2>2
      <3> QED BY <1>1, <1>2, <3>1
    <2> QED BY <2>1, <2>2
  <1>6. Inv'
    BY <1>3, <1>4, <1>5 DEF Inv, tree
  <1>7. ExactStep
    BY DEF ExactStep, Commits, tree
  <1> QED BY <1>1, <1>6, <1>7

-----------------------------------------------------------------------------
(* BEGIN. *)

\* The first step of begin_concurrent is the abstract BEGIN.
LEMMA BeginPagesFollows ==
  ASSUME Inv, NEW t \in Txn, BeginPages(t) PROVE Follows
  <1> DEFINE T == NewTxn(0, 4)
             c == [Store!Idle EXCEPT !.open = TRUE, !.cands = {TableIn(Db)}]
  <1>1. Sound(Db) /\ committed_n_pages = 4 /\ TableOf(page) = TableIn(Db) /\ Slot(pc[t], txn[t], client[t], Db)
    BY InvIs
  <1>2. /\ pc[t] = "idle" /\ pc' = [pc EXCEPT ![t] = "pages"] /\ txn' = [txn EXCEPT ![t] = T]
        /\ client' = [client EXCEPT ![t] = c] /\ UNCHANGED tree
    BY <1>1 DEF BeginPages
  <1>3. c.cands = {TableIn(Db)}
    BY DEF Store!Idle
  <1>4. T.begin_epoch = 0
    BY NewIs
  <1>5. Db.epoch \in Nat /\ TableIn(Db) \in [Row -> Cell]
    BY <1>1, DbIs
  <1>6. Fresh(T, c, Db)
    <2>1. c = [Store!Idle EXCEPT !.open = TRUE, !.cands = c.cands]
      BY <1>3
    <2>2. 0 \in 0 .. Db.epoch /\ c.cands \subseteq [Row -> Cell] /\ TableIn(Db) \in c.cands
      BY <1>3, <1>5
    <2> HIDE DEF c
    <2> QED BY <1>4, <2>1, <2>2 DEF Fresh
  <1>7. Slot("pages", T, c, Db)
    BY <1>6 DEF Slot
  <1>8. Inv' /\ ExactStep /\ TableOf(page)' = TableOf(page)
    <2> HIDE DEF T, c
    <2> QED BY <1>2, <1>7, StepAt DEF Pcs
  <1>9. ~client[t].open
    BY <1>1, <1>2 DEF Slot, Store!Idle
  <1>10. Store!Begin(t)
    BY <1>1, <1>2, <1>8, <1>9 DEF Store!Begin
  <1> QED BY <1>8, <1>10 DEF Follows, Store!Next

\* The read of the epoch is no abstract step: the fresh transaction is not older for it.
LEMMA BeginEpochFollows ==
  ASSUME Inv, NEW t \in Txn, BeginEpoch(t) PROVE Follows
  <1> DEFINE T == NewTxn(commit_epoch, 4)
             c == client[t]
  <1>1. Sound(Db) /\ DOMAIN txn = Txn /\ client = [u \in Txn |-> client[u]] /\ Slot(pc[t], txn[t], c, Db)
    BY InvIs
  <1>2. pc[t] = "pages" /\ pc' = [pc EXCEPT ![t] = "epoch"] /\ UNCHANGED tree /\ UNCHANGED client
        /\ txn' = [txn EXCEPT ![t].begin_epoch = commit_epoch]
    BY DEF BeginEpoch
  <1>3. Fresh(txn[t], c, Db)
    BY <1>1, <1>2 DEF Slot
  <1>4. txn' = [txn EXCEPT ![t] = T]
    <2>1. PICK e : txn[t] = NewTxn(e, 4)
      BY <1>3 DEF Fresh
    <2>2. [NewTxn(e, 4) EXCEPT !.begin_epoch = commit_epoch] = T
      <3> DEFINE z == [p \in Page |-> 0]
                 k == [p \in Page |-> "none"]
                 s == [r \in Row |-> 0]
                 R(x) == [begin_epoch |-> x, begin_n_pages |-> 4,
                          shadows |-> <<>>, dirtied |-> {}, decision_reads |-> {},
                          read_stamps |-> z, shadow_epoch |-> z, page_kind |-> k,
                          sem_pages |-> {}, sem_rows |-> s, view_advanced |-> FALSE,
                          row_journal |-> <<>>, allocated |-> <<>>, freed |-> <<>>, discarded |-> <<>>,
                          savepoints |-> <<>>, err |-> FALSE, ops |-> 0]
      <3>1. NewTxn(e, 4) = R(e) /\ NewTxn(commit_epoch, 4) = R(commit_epoch)
        BY DEF NewTxn
      <3> HIDE DEF z, k, s
      <3>2. [R(e) EXCEPT !.begin_epoch = commit_epoch] = R(commit_epoch)
        <4> DEFINE A == R(e)
                   B == R(commit_epoch)
        <4>1. A = [x \in DOMAIN A |-> A[x]] /\ B = [x \in DOMAIN B |-> B[x]]
          OBVIOUS
        <4>2. DOMAIN A = DOMAIN B /\ B.begin_epoch = commit_epoch
          OBVIOUS
        <4>5. A.begin_n_pages = B.begin_n_pages /\ A.shadows = B.shadows /\ A.dirtied =
              B.dirtied /\ A.decision_reads = B.decision_reads /\ A.read_stamps =
              B.read_stamps /\ A.shadow_epoch = B.shadow_epoch /\ A.page_kind = B.page_kind /\
              A.sem_pages = B.sem_pages /\ A.sem_rows = B.sem_rows /\ A.view_advanced =
              B.view_advanced /\ A.row_journal = B.row_journal /\ A.allocated = B.allocated /\
              A.freed = B.freed /\ A.discarded = B.discarded /\ A.savepoints = B.savepoints /\
              A.err = B.err /\ A.ops = B.ops
          OBVIOUS
        <4>6. DOMAIN A = {"begin_epoch", "begin_n_pages", "shadows", "dirtied", "decision_reads",
                       "read_stamps", "shadow_epoch", "page_kind", "sem_pages", "sem_rows",
                       "view_advanced", "row_journal", "allocated", "freed", "discarded", "savepoints",
                       "err", "ops"}
          OBVIOUS
        <4>3. \A x \in DOMAIN A : x # "begin_epoch" => A[x] = B[x]
          <5> HIDE DEF A, B
          <5> QED BY <4>5, <4>6
        <4> HIDE DEF A, B
        <4>4. [A EXCEPT !.begin_epoch = commit_epoch] = B
          BY <4>1, <4>2, <4>3
        <4> QED BY <4>4 DEF A, B
      <3> HIDE DEF R
      <3> QED BY <3>1, <3>2
    <2> QED BY <1>2, <2>1, <2>2
  <1>5. commit_epoch \in Nat /\ Db.epoch = commit_epoch
    BY <1>1, DbIs, DbNow
  <1>6. T.begin_epoch = commit_epoch
    BY <1>5, NewIs
  <1>7. Fresh(T, c, Db)
    BY <1>3, <1>5, <1>6 DEF Fresh
  <1>8. client' = [client EXCEPT ![t] = c]
    BY <1>1, <1>2
  <1>9. Slot("epoch", T, c, Db)
    BY <1>7 DEF Slot
  <1>10. Inv' /\ ExactStep /\ TableOf(page)' = TableOf(page)
    <2> HIDE DEF T, c
    <2> QED BY <1>2, <1>4, <1>8, <1>9, StepAt DEF Pcs
  <1> QED BY <1>2, <1>10 DEF Follows, Store!vars

\* A transaction that has read nothing is as the committed table is.
LEMMA FreshWorks ==
  ASSUME NEW T, NEW c, NEW d, Sound(d), Fresh(T, c, d)
  PROVE  T.err = FALSE /\ TableIn(d) \in c.cands /\ Works(T, c, TableIn(d), d)
  <1> DEFINE e == T.begin_epoch
             tab == TableIn(d)
  <1>1. e \in Nat /\ e <= d.epoch /\ d.epoch \in Nat /\ T = NewTxn(e, 4)
    BY DbIs DEF Fresh
  <1>2. /\ T \in Txns /\ T.savepoints = <<>> /\ T.err = FALSE
        /\ T.view_advanced = FALSE /\ T.shadows = <<>> /\ DOMAIN T.shadows = {} /\ T.dirtied = {}
        /\ T.row_journal = <<>> /\ T.sem_pages = {} /\ T.sem_rows = [r \in Row |-> 0]
        /\ T.page_kind = [p \in Page |-> "none"]
    <2> HIDE DEF e
    <2> QED BY <1>1, NewIs
  <1>3. /\ c = [open |-> TRUE, cands |-> c.cands, torn |-> FALSE, saves |-> <<>>,
                seen |-> Nothing, hit |-> Nothing, own |-> Nothing]
        /\ c.cands \subseteq [Row -> Cell] /\ tab \in c.cands
    BY DEF Fresh, Store!Idle, Nothing
  <1>4. Nothing \in Partial /\ \A r \in Row : Nothing[r] = Unknown
    BY DEF Nothing, Partial
  <1> DEFINE C == c.cands
  <1>5. c = [open |-> TRUE, cands |-> C, torn |-> FALSE, saves |-> <<>>,
             seen |-> Nothing, hit |-> Nothing, own |-> Nothing] /\ C \in SUBSET [Row -> Cell]
    BY <1>3
  <1>6. c \in Clients /\ c.seen = Nothing /\ c.own = Nothing /\ c.saves = <<>>
    <2> HIDE DEF C
    <2> QED BY <1>4, <1>5 DEF Clients
  <1>7. Fetched(T) = {}
    BY <1>2, PagesAre DEF Fetched
  <1>8. Kinds(T, d)
    BY <1>1, <1>2, <1>7 DEF Kinds
  <1>9. Images(T, c, tab, d)
    BY <1>2 DEF Images
  <1>10. Saves(T, c)
    BY <1>2, <1>6 DEF Saves
  <1>11. Journal(T, c)
    BY <1>2, <1>4, <1>6 DEF Journal, Says, RowsOf
  <1>12. NetZero(T, c, d) /\ Tracked(T, c, d)
    BY <1>4, <1>6 DEF NetZero, Tracked
  <1>13. Since(T, tab, d)
    BY DEF Since, TableIn
  <1>14. \A r \in Row : c.seen[r] \in {Unknown, tab[r]}
    BY <1>4, <1>6
  <1> HIDE DEF tab
  <1>15. tab = TableIn(d)
    BY DEF tab
  <1> QED BY <1>2, <1>3, <1>6, <1>8, <1>9, <1>10, <1>11, <1>12, <1>13, <1>14, <1>15, WorksAre

\* Nor is the registration: the transaction starts from the committed table.
LEMMA RegisterFollows ==
  ASSUME Inv, NEW t \in Txn, Register(t) PROVE Follows
  <1> DEFINE T == txn[t]
             c == client[t]
  <1>1. Sound(Db) /\ pc[t] = "epoch" /\ Slot(pc[t], T, c, Db)
        /\ txn = [u \in Txn |-> txn[u]] /\ client = [u \in Txn |-> client[u]]
    BY InvIs DEF Register
  <1>2. Fresh(T, c, Db)
    BY <1>1 DEF Slot
  <1>3. Slot("open", T, c, Db)
    <2>1. T.err = FALSE /\ \E tab \in c.cands : Works(T, c, tab, Db)
      <3> HIDE DEF T, c
      <3> QED BY <1>1, <1>2, FreshWorks
    <2> QED BY <2>1 DEF Slot
  <1>4. pc' = [pc EXCEPT ![t] = "open"] /\ UNCHANGED tree /\ client' = client /\ txn' = txn
    BY DEF Register
  <1>5. txn' = [txn EXCEPT ![t] = T] /\ client' = [client EXCEPT ![t] = c]
    BY <1>1, <1>4
  <1>6. Inv' /\ ExactStep /\ TableOf(page)' = TableOf(page)
    <2> HIDE DEF T, c
    <2> QED BY <1>3, <1>4, <1>5, StepAt DEF Pcs
  <1> QED BY <1>4, <1>6 DEF Follows, Store!vars

-----------------------------------------------------------------------------
(* Statements. *)

\* The end of a statement: T goes on working, with client b.
LEMMA FinishStep ==
  ASSUME Inv, NEW t \in Txn, Open(t), NEW T, NEW c, NEW b, b = (IF T.err THEN client[t] ELSE c),
         NEW tab \in b.cands, Works(T, b, tab, Db), Finish(t, T, c)
  PROVE  /\ Inv' /\ ExactStep /\ TableOf(page)' = TableOf(page)
         /\ client' = [client EXCEPT ![t] = b]
  <1> DEFINE A == Done(T)
  <1>1. /\ Sound(Db) /\ pc \in [Txn -> Pcs] /\ n_pages = 4
        /\ \E x \in client[t].cands : Works(txn[t], client[t], x, Db)
    BY InvIs
  <1>2. T \in Txns /\ txn[t] \in Txns
    BY <1>1, WorksAre
  <1>3. Len(T.allocated) = 0 /\ Len(txn[t].allocated) = 0
    <2>1. T.allocated = <<>> /\ txn[t].allocated = <<>>
      BY <1>2, TxnIs
    <2> QED BY <2>1
  <1>4. A \in Txns /\ A.savepoints = T.savepoints /\ A.err = FALSE /\ Alike(T, A)
    BY <1>2, SetOps DEF Done
  <1>5. /\ txn' = [txn EXCEPT ![t] = A] /\ client' = [client EXCEPT ![t] = b]
        /\ n_pages' = n_pages + (Len(T.allocated) - Len(txn[t].allocated))
        /\ UNCHANGED <<page, stamps, row_stamps, commit_epoch, committed_n_pages, freelist, pc>>
    BY DEF Finish
  <1> HIDE DEF A
  <1>6. Works(A, b, tab, Db)
    BY <1>4, WorksAlike
  <1>7. Slot("open", A, b, Db)
    BY <1>4, <1>6 DEF Slot
  <1>8. n_pages' = n_pages
    BY <1>1, <1>3, <1>5
  <1>9. UNCHANGED tree
    BY <1>5, <1>8 DEF tree
  <1>10. pc' = [pc EXCEPT ![t] = "open"]
    BY <1>1, <1>5 DEF Open
  <1>11. Inv' /\ ExactStep /\ TableOf(page)' = TableOf(page)
    BY <1>5, <1>7, <1>9, <1>10, StepAt DEF Pcs
  <1> QED BY <1>5, <1>11

\* A statement that fails tells nothing; one that succeeds tells what is true
\* of one committed table.
LEMMA StatementFollows ==
  ASSUME Inv, NEW t \in Txn, Open(t), NEW T, NEW c, Finish(t, T, c),
         T.err => \E now \in client[t].cands : Works(T, client[t], now, Db),
         ~T.err => Learns(client[t], c) /\ \E now \in client[t].cands : Works(T, c, now, Db)
  PROVE  Follows
  <1> DEFINE o == client[t]
  <1>1. DOMAIN client = Txn /\ client = [u \in Txn |-> client[u]] /\ \E x \in o.cands : Works(txn[t], o, x, Db)
    BY InvIs
  <1>2. o \in Clients
    BY <1>1, WorksAre
  <1>3. CASE T.err
    <2>1. PICK now \in o.cands : Works(T, o, now, Db)
      BY <1>3
    <2>2. Inv' /\ ExactStep /\ TableOf(page)' = TableOf(page) /\ client' = [client EXCEPT ![t] = o]
      BY <1>3, <2>1, FinishStep
    <2>3. client' = client
      BY <1>1, <2>2
    <2> QED BY <2>2, <2>3 DEF Follows, Store!vars
  <1>4. CASE ~T.err
    <2>1. PICK now \in o.cands : Works(T, c, now, Db)
      BY <1>4
    <2>2. Learns(o, c) /\ now \in c.cands
      BY <1>4, <2>1 DEF Learns
    <2>3. Inv' /\ ExactStep /\ TableOf(page)' = TableOf(page) /\ client' = [client EXCEPT ![t] = c]
      BY <1>4, <2>1, <2>2, FinishStep
    <2>4. client'[t] = c
      BY <1>1, <2>3
    <2>5. c \in Clients /\ c.cands = o.cands /\ c.saves = o.saves /\ \A r \in Row : o.seen[r] \in {Unknown, c.seen[r]}
      BY <2>2 DEF Learns
    <2>6. /\ o.open /\ c.open /\ o.hit = Nothing /\ c.hit = Nothing /\ c.seen \in Partial /\ c.own \in Partial
          /\ ~c.torn /\ Nothing \in Partial
      <3>1. Nothing \in Partial
        BY DEF Nothing, Partial
      <3> HIDE DEF o
      <3> QED BY <1>2, <2>5, <3>1, ClientIs
    <2>7. Store!Partial = Partial
      BY DEF Store!Partial, Partial, Cell
    <2>8. {c.seen, c.hit, c.own} \subseteq Store!Partial
      BY <2>6, <2>7
    <2>9. Store!Opaque(c)
      <3>1. \A r \in Row : c.seen[r] \in {Unknown, now[r]}
        BY <2>1, WorksAre
      <3> QED BY <2>2, <2>6, <3>1 DEF Store!Opaque, Store!Agrees
    <2>10. \A r \in Row : Nothing[r] = Unknown
      BY DEF Nothing
    <2>11. Store!Statement(t)
      <3> HIDE DEF o
      <3>1. o = client[t]
        BY DEF o
      <3>2. \A r \in Row : o.seen[r] \in {Unknown, c.seen[r]} /\ o.hit[r] \in {Unknown, c.hit[r]}
        BY <2>5, <2>6, <2>10
      <3>3. client' = [client EXCEPT ![t] = client'[t]]
        BY <2>3, <2>4
      <3> QED BY <2>3, <2>4, <2>5, <2>6, <2>8, <2>9, <3>1, <3>2, <3>3 DEF Store!Statement
    <2> QED BY <2>3, <2>11 DEF Follows, Store!Next
  <1> QED BY <1>3, <1>4

\* A client that is told nothing more.
LEMMA LearnsNothing ==
  ASSUME NEW c \in Clients PROVE Learns(c, c)
  BY DEF Learns

\* A fetch of the interior page tells nothing.
LEMMA FetchRootFollows ==
  ASSUME Inv, NEW t \in Txn, FetchRoot(t) PROVE Follows
  <1> DEFINE c == client[t]
             T == txn[t]
             A == Fetch(T, Root, Structural)
  <1>1. Open(t) /\ Finish(t, A, c)
    BY DEF FetchRoot, Runs
  <1>2. Sound(Db) /\ n_pages = 4 /\ T.err = FALSE /\ \E tab \in c.cands : Works(T, c, tab, Db)
    BY <1>1, InvIs
  <1>3. PICK tab \in c.cands : Works(T, c, tab, Db)
    BY <1>2
  <1> HIDE DEF c, T
  <1>4. \E now \in c.cands : Works(A, c, now, Db)
    <2>1. Structural \in Reasons(Boundary)
      BY DEF Reasons
    <2> QED BY <1>2, <1>3, <2>1, FetchRootWorks
  <1>5. Learns(c, c)
    BY <1>3, WorksAre, LearnsNothing
  <1> HIDE DEF A
  <1>6. c = client[t]
    BY DEF c
  <1> QED BY <1>1, <1>4, <1>5, <1>6, StatementFollows

\* SELECT tells one row of the table the transaction reads.
LEMMA SelectFollows ==
  ASSUME Inv, NEW t \in Txn, NEW r \in Row, Select(t, r) PROVE Follows
  <1> DEFINE c == client[t]
             T == txn[t]
             A == Descend(T, r, Point(r))
             b == Told(c, r, Found(A, r))
  <1>1. Open(t) /\ Finish(t, A, b)
    BY DEF Select, Runs
  <1>2. Sound(Db) /\ n_pages = 4 /\ T.err = FALSE /\ \E tab \in c.cands : Works(T, c, tab, Db)
    BY <1>1, InvIs
  <1>3. PICK tab \in c.cands : Works(T, c, tab, Db)
    BY <1>2
  <1>4. c = client[t]
    OBVIOUS
  <1> HIDE DEF c, T
  <1>5. Point(r) \in Reasons(r)
    BY DEF Reasons
  <1>6. /\ \E now \in c.cands : Works(A, c, now, Db) /\ (~A.err => Answer(A, c, now, Point(r), r))
        /\ ~A.err => Home(r) \in DOMAIN A.shadows /\ \A q \in Row : Leaf(A, q) = Home(q)
    BY <1>2, <1>3, <1>5, DescendWorks
  <1> HIDE DEF A
  <1>7. PICK now \in c.cands : Works(A, c, now, Db) /\ (~A.err => Answer(A, c, now, Point(r), r))
    BY <1>6
  <1>8. ASSUME ~A.err PROVE Learns(c, b) /\ Works(A, b, now, Db)
    <2>1. Found(A, r) = A.shadows[Home(r)][r]
      BY <1>6, <1>8 DEF Found
    <2>2. Valid(A, c, now, Db, r)
      BY <1>7, <1>8 DEF Answer
    <2> QED BY <1>6, <1>7, <1>8, <2>1, <2>2, TellWorks
  <1> HIDE DEF b
  <1> QED BY <1>1, <1>4, <1>7, <1>8, StatementFollows

\* A scanned leaf tells its rows of that table.
LEMMA ScanLeafFollows ==
  ASSUME Inv, NEW t \in Txn, NEW r \in Row, ScanLeaf(t, r) PROVE Follows
  <1> DEFINE c == client[t]
             T == txn[t]
             A == Descend(T, r, Scanning)
             mine == {q \in Row : Leaf(A, q) = Leaf(A, r)}
             b == ToldAll(c, [q \in mine |-> Found(A, q)])
  <1>1. Open(t) /\ Finish(t, A, b)
    BY DEF ScanLeaf, Runs
  <1>2. Sound(Db) /\ n_pages = 4 /\ T.err = FALSE /\ \E tab \in c.cands : Works(T, c, tab, Db)
    BY <1>1, InvIs
  <1>3. PICK tab \in c.cands : Works(T, c, tab, Db)
    BY <1>2
  <1>4. c = client[t]
    OBVIOUS
  <1> HIDE DEF c, T
  <1>5. Scanning \in Reasons(r)
    BY DEF Reasons
  <1>6. /\ \E now \in c.cands : Works(A, c, now, Db) /\ (~A.err => Answer(A, c, now, Scanning, r))
        /\ ~A.err => Home(r) \in DOMAIN A.shadows /\ \A q \in Row : Leaf(A, q) = Home(q)
    BY <1>2, <1>3, <1>5, DescendWorks
  <1> HIDE DEF A
  <1>7. PICK now \in c.cands : Works(A, c, now, Db) /\ (~A.err => Answer(A, c, now, Scanning, r))
    BY <1>6
  <1>8. ASSUME ~A.err PROVE Learns(c, b) /\ Works(A, b, now, Db)
    <2>1. \A q \in mine : Home(q) = Home(r) /\ Found(A, q) = A.shadows[Home(q)][q]
      BY <1>6, <1>8 DEF Found
    <2>2. \A q \in mine : Home(q) \in DOMAIN A.shadows /\ Valid(A, c, now, Db, q)
      BY <1>6, <1>7, <1>8, <2>1 DEF Answer
    <2>3. [q \in mine |-> Found(A, q)] = [q \in mine |-> A.shadows[Home(q)][q]]
      BY <2>1
    <2>4. mine \in SUBSET Row
      OBVIOUS
    <2> HIDE DEF mine
    <2> QED BY <1>7, <2>2, <2>3, <2>4, TellAllWorks
  <1> HIDE DEF b
  <1> QED BY <1>1, <1>4, <1>7, <1>8, StatementFollows

\* More learnt after a write.
LEMMA LearnsWrote ==
  ASSUME NEW c \in Clients, NEW b, Learns(c, b), NEW r \in Row, NEW v \in Val
  PROVE  Learns(c, Wrote(b, r, v))
  <1>1. b \in Clients /\ b.cands = c.cands /\ b.saves = c.saves /\ \A q \in Row : c.seen[q] \in {Unknown, b.seen[q]}
    BY DEF Learns
  <1> DEFINE w == Wrote(b, r, v)
  <1>2. w \in Clients /\ w.cands = b.cands /\ w.seen = b.seen /\ w.saves = b.saves
    BY <1>1, WroteIs
  <1> HIDE DEF w
  <1>3. Learns(c, w)
    BY <1>1, <1>2 DEF Learns
  <1> QED BY <1>3 DEF w

\* A lookup of row r before a write.
LEMMA LookupWorks ==
  ASSUME Inv, NEW t \in Txn, Open(t), NEW r \in Row
  PROVE  LET c == client[t]
             L == Descend(txn[t], r, Point(r))
             b == Told(c, r, Found(L, r))
         IN  \E now \in c.cands :
               /\ Works(L, c, now, Db)
               /\ ~L.err => /\ Works(L, b, now, Db) /\ Learns(c, b) /\ b.own = c.own
                            /\ Found(L, r) = L.shadows[Home(r)][r] /\ L.sem_rows[r] # 0
                            /\ 1 \in DOMAIN L.shadows /\ Home(r) \in DOMAIN L.shadows
                            /\ b.own[r] = Unknown => b.seen[r] = L.shadows[Home(r)][r]
  <1> DEFINE c == client[t]
             T == txn[t]
             L == Descend(T, r, Point(r))
             b == Told(c, r, Found(L, r))
  <1>2. Sound(Db) /\ n_pages = 4 /\ T.err = FALSE /\ \E tab \in c.cands : Works(T, c, tab, Db)
    BY InvIs
  <1>3. PICK tab \in c.cands : Works(T, c, tab, Db)
    BY <1>2
  <1> HIDE DEF c, T
  <1>5. Point(r) \in Reasons(r)
    BY DEF Reasons
  <1>6. /\ \E now \in c.cands : Works(L, c, now, Db) /\ (~L.err => Answer(L, c, now, Point(r), r))
        /\ ~L.err => /\ 1 \in DOMAIN L.shadows /\ Home(r) \in DOMAIN L.shadows
                     /\ \A q \in Row : Leaf(L, q) = Home(q)
    BY <1>2, <1>3, <1>5, DescendWorks
  <1> HIDE DEF L
  <1>7. PICK now \in c.cands : Works(L, c, now, Db) /\ (~L.err => Answer(L, c, now, Point(r), r))
    BY <1>6
  <1>8. ASSUME ~L.err
        PROVE  /\ Works(L, b, now, Db) /\ Learns(c, b) /\ b.own = c.own
               /\ Found(L, r) = L.shadows[Home(r)][r] /\ L.sem_rows[r] # 0
               /\ 1 \in DOMAIN L.shadows /\ Home(r) \in DOMAIN L.shadows
               /\ b.own[r] = Unknown => b.seen[r] = L.shadows[Home(r)][r]
    <2>1. Found(L, r) = L.shadows[Home(r)][r]
      BY <1>6, <1>8 DEF Found
    <2>2. Valid(L, c, now, Db, r) /\ L.sem_rows[r] # 0
      BY <1>7, <1>8 DEF Answer
    <2>3. /\ Works(L, b, now, Db) /\ Learns(c, b) /\ b.own = c.own
          /\ c.own[r] = Unknown => b.seen[r] = L.shadows[Home(r)][r]
      BY <1>6, <1>7, <1>8, <2>1, <2>2, TellWorks
    <2> HIDE DEF b
    <2> QED BY <1>6, <1>8, <2>1, <2>2, <2>3
  <1> HIDE DEF b
  <1>9. /\ Works(L, c, now, Db)
        /\ ~L.err => /\ Works(L, b, now, Db) /\ Learns(c, b) /\ b.own = c.own
                     /\ Found(L, r) = L.shadows[Home(r)][r] /\ L.sem_rows[r] # 0
                     /\ 1 \in DOMAIN L.shadows /\ Home(r) \in DOMAIN L.shadows
                     /\ b.own[r] = Unknown => b.seen[r] = L.shadows[Home(r)][r]
    BY <1>7, <1>8
  <1> QED BY <1>9 DEF b, L, T, c

\* INSERT is a lookup that tells that the row is absent, and a write.
LEMMA InsertFollows ==
  ASSUME InPlace, Inv, NEW t \in Txn, NEW r \in Row, NEW v \in Val, Insert(t, r, v) PROVE Follows
  <1> DEFINE c == client[t]
             L == Descend(txn[t], r, Point(r))
             b == Told(c, r, Found(L, r))
             A == InsertTable(L, r, v, n_pages)
             w == Wrote(b, r, v)
  <1>1. Open(t) /\ IF L.err \/ Found(L, r) # Absent THEN Finish(t, L, b) ELSE Finish(t, A, w)
    BY DEF Insert, Runs
  <1>2. Sound(Db) /\ n_pages = 4
    BY InvIs
  <1>3. PICK now \in c.cands :
           /\ Works(L, c, now, Db)
           /\ ~L.err => /\ Works(L, b, now, Db) /\ Learns(c, b) /\ b.own = c.own
                        /\ Found(L, r) = L.shadows[Home(r)][r] /\ L.sem_rows[r] # 0
                        /\ 1 \in DOMAIN L.shadows /\ Home(r) \in DOMAIN L.shadows
                        /\ b.own[r] = Unknown => b.seen[r] = L.shadows[Home(r)][r]
    BY <1>1, LookupWorks
  <1>4. c = client[t]
    OBVIOUS
  <1> HIDE DEF c, L, b
  <1>5. CASE L.err \/ Found(L, r) # Absent
    BY <1>1, <1>3, <1>4, <1>5, StatementFollows
  <1>6. CASE ~L.err /\ Found(L, r) = Absent
    <2>1. Works(A, w, now, Db) /\ ~A.err
      BY <1>2, <1>3, <1>6, InsertWorks
    <2>2. c \in Clients
      BY <1>3, WorksAre
    <2>3. Learns(c, w)
      BY <1>3, <1>6, <2>2, LearnsWrote
    <2>4. Finish(t, A, w)
      BY <1>1, <1>6
    <2> HIDE DEF A, w
    <2> QED BY <1>1, <1>4, <2>1, <2>3, <2>4, StatementFollows
  <1> QED BY <1>5, <1>6

\* UPDATE is a lookup that tells the row, and a write.
LEMMA UpdateFollows ==
  ASSUME Inv, NEW t \in Txn, NEW r \in Row, NEW v \in Val, Update(t, r, v) PROVE Follows
  <1> DEFINE c == client[t]
             L == Descend(txn[t], r, Point(r))
             b == Told(c, r, Found(L, r))
             A == UpdateTable(L, r, v)
             w == Wrote(b, r, v)
  <1>1. Open(t) /\ IF L.err \/ Found(L, r) = Absent THEN Finish(t, L, b) ELSE Finish(t, A, w)
    BY DEF Update, Runs
  <1>2. Sound(Db) /\ n_pages = 4
    BY InvIs
  <1>3. PICK now \in c.cands :
           /\ Works(L, c, now, Db)
           /\ ~L.err => /\ Works(L, b, now, Db) /\ Learns(c, b) /\ b.own = c.own
                        /\ Found(L, r) = L.shadows[Home(r)][r] /\ L.sem_rows[r] # 0
                        /\ 1 \in DOMAIN L.shadows /\ Home(r) \in DOMAIN L.shadows
                        /\ b.own[r] = Unknown => b.seen[r] = L.shadows[Home(r)][r]
    BY <1>1, LookupWorks
  <1>4. c = client[t]
    OBVIOUS
  <1> HIDE DEF c, L, b
  <1>5. CASE L.err \/ Found(L, r) = Absent
    BY <1>1, <1>3, <1>4, <1>5, StatementFollows
  <1>6. CASE ~L.err /\ Found(L, r) # Absent
    <2>1. Works(A, w, now, Db) /\ ~A.err
      BY <1>2, <1>3, <1>6, UpdateWorks
    <2>2. c \in Clients
      BY <1>3, WorksAre
    <2>3. Learns(c, w)
      BY <1>3, <1>6, <2>2, LearnsWrote
    <2>4. Finish(t, A, w)
      BY <1>1, <1>6
    <2> HIDE DEF A, w
    <2> QED BY <1>1, <1>4, <2>1, <2>3, <2>4, StatementFollows
  <1> QED BY <1>5, <1>6

-----------------------------------------------------------------------------
(* Savepoints. *)

\* SAVEPOINT is the abstract one.
LEMMA SavepointFollows ==
  ASSUME Inv, NEW t \in Txn, Savepoint(t) PROVE Follows
  <1> DEFINE c == client[t]
             T == txn[t]
             level == [undo |-> <<>>, allocated_mark |-> Len(T.allocated),
                       freed_mark |-> Len(T.freed), journal_mark |-> Len(T.row_journal)]
             A == [T EXCEPT !.savepoints = Append(@, level)]
             b == [c EXCEPT !.saves = Append(@, c.own)]
  <1>1. Open(t) /\ Finish(t, A, b)
    BY DEF Savepoint, Runs
  <1>2. T.err = FALSE /\ (\E tab \in c.cands : Works(T, c, tab, Db)) /\ client = [u \in Txn |-> client[u]]
    BY <1>1, InvIs
  <1>3. PICK tab \in c.cands : Works(T, c, tab, Db)
    BY <1>2
  <1>4. c = client[t]
    OBVIOUS
  <1> HIDE DEF c, T
  <1>5. Works(A, b, tab, Db) /\ A.err = T.err /\ b.cands = c.cands
    BY <1>3, SavepointWorks
  <1>6. c \in Clients
    BY <1>3, WorksAre
  <1>7. c.open
    BY <1>6, ClientIs
  <1>8. b = [c EXCEPT !.saves = Append(@, c.own)]
    OBVIOUS
  <1> HIDE DEF A, b, level
  <1>9. Inv' /\ ExactStep /\ TableOf(page)' = TableOf(page) /\ client' = [client EXCEPT ![t] = b]
    BY <1>1, <1>2, <1>3, <1>5, FinishStep
  <1>10. client' = [client EXCEPT ![t].saves = Append(@, client[t].own)]
    BY <1>4, <1>8, <1>9
  <1>11. Store!Savepoint(t)
    BY <1>4, <1>7, <1>9, <1>10 DEF Store!Savepoint
  <1> QED BY <1>9, <1>11 DEF Follows, Store!Next

\* RELEASE is the abstract one.
LEMMA ReleaseFollows ==
  ASSUME Inv, NEW t \in Txn, NEW i, Release(t, i) PROVE Follows
  <1> DEFINE c == client[t]
             T == txn[t]
             A == [T EXCEPT !.savepoints = SubSeq(@, 1, i - 1)]
             b == [c EXCEPT !.saves = SubSeq(@, 1, i - 1)]
  <1>1. Open(t) /\ Finish(t, A, b) /\ i \in DOMAIN T.savepoints
    BY DEF Release, Runs
  <1>2. T.err = FALSE /\ (\E tab \in c.cands : Works(T, c, tab, Db)) /\ client = [u \in Txn |-> client[u]]
    BY <1>1, InvIs
  <1>3. PICK tab \in c.cands : Works(T, c, tab, Db)
    BY <1>2
  <1>4. c = client[t]
    OBVIOUS
  <1> HIDE DEF c, T
  <1>5. Works(A, b, tab, Db) /\ A.err = T.err /\ b.cands = c.cands
    BY <1>1, <1>3, ReleaseWorks
  <1>6. c \in Clients /\ T \in Txns /\ Len(T.savepoints) = Len(c.saves)
    BY <1>3, WorksAre DEF Saves
  <1>7. c.open /\ c.saves \in Seq(Partial) /\ T.savepoints \in Seq(Level)
    BY <1>6, ClientIs, TxnIs
  <1>8. i \in DOMAIN c.saves
    BY <1>1, <1>6, <1>7
  <1>9. b = [c EXCEPT !.saves = SubSeq(@, 1, i - 1)]
    OBVIOUS
  <1> HIDE DEF A, b
  <1>10. Inv' /\ ExactStep /\ TableOf(page)' = TableOf(page) /\ client' = [client EXCEPT ![t] = b]
    BY <1>1, <1>2, <1>3, <1>5, FinishStep
  <1>11. client' = [client EXCEPT ![t].saves = SubSeq(@, 1, i - 1)]
    BY <1>4, <1>9, <1>10
  <1>12. Store!Release(t)
    BY <1>4, <1>7, <1>8, <1>10, <1>11 DEF Store!Release
  <1> QED BY <1>10, <1>12 DEF Follows, Store!Next

\* ROLLBACK TO is the abstract one: the writes since the savepoint are forgotten.
LEMMA RollbackToFollows ==
  ASSUME Inv, NEW t \in Txn, NEW i, RollbackTo(t, i) PROVE Follows
  <1> DEFINE c == client[t]
             T == txn[t]
             A == RestoredTo(T, i)
             b == Undone(c, i)
             B == Done(A)
  <1>1. /\ Open(t) /\ i \in DOMAIN T.savepoints /\ txn' = [txn EXCEPT ![t] = B]
        /\ client' = [client EXCEPT ![t].own = client[t].saves[i], ![t].saves = SubSeq(@, 1, i)]
        /\ UNCHANGED tree /\ UNCHANGED pc
    BY DEF RollbackTo, Runs
  <1>2. /\ Sound(Db) /\ T.err = FALSE /\ (\E tab \in c.cands : Works(T, c, tab, Db))
        /\ client = [u \in Txn |-> client[u]] /\ pc \in [Txn -> Pcs]
    BY <1>1, InvIs
  <1>3. PICK tab \in c.cands : Works(T, c, tab, Db)
    BY <1>2
  <1>4. client' = [client EXCEPT ![t] = b]
    BY <1>1, <1>2 DEF Undone
  <1>5. c = client[t]
    OBVIOUS
  <1> HIDE DEF c, T
  <1>6. Works(A, b, tab, Db) /\ A.err = T.err /\ b.cands = c.cands /\ i \in DOMAIN c.saves
    BY <1>1, <1>2, <1>3, RestoredWorks
  <1>7. c \in Clients /\ A \in Txns
    BY <1>3, <1>6, WorksAre
  <1>8. c.open
    BY <1>7, ClientIs
  <1> HIDE DEF A, b
  <1>9. B \in Txns /\ B.savepoints = A.savepoints /\ B.err = FALSE /\ Alike(A, B)
    BY <1>7, SetOps DEF Done
  <1> HIDE DEF B
  <1>10. Works(B, b, tab, Db)
    BY <1>6, <1>9, WorksAlike
  <1>11. Slot("open", B, b, Db)
    BY <1>6, <1>9, <1>10 DEF Slot
  <1>12. pc' = [pc EXCEPT ![t] = "open"]
    BY <1>1, <1>2 DEF Open
  <1>13. Inv' /\ ExactStep /\ TableOf(page)' = TableOf(page)
    BY <1>1, <1>4, <1>11, <1>12, StepAt DEF Pcs
  <1>14. Store!RollbackTo(t)
    BY <1>1, <1>5, <1>6, <1>8, <1>13 DEF Store!RollbackTo
  <1> QED BY <1>13, <1>14 DEF Follows, Store!Next

-----------------------------------------------------------------------------
(* COMMIT and ROLLBACK. *)

\* A transaction ends and leaves nothing.
LEMMA AbortFollows ==
  ASSUME Inv, NEW t \in Txn, Open(t), UNCHANGED tree, End(t, client) PROVE Follows
  <1> DEFINE c == Store!Idle
             T == NewTxn(0, 0)
  <1>1. client = [u \in Txn |-> client[u]] /\ \E x \in client[t].cands : Works(txn[t], client[t], x, Db)
    BY InvIs
  <1>2. client[t] \in Clients
    BY <1>1, WorksAre
  <1>3. client[t].open
    BY <1>2, ClientIs
  <1>4. /\ pc' = [pc EXCEPT ![t] = "ending"] /\ txn' = [txn EXCEPT ![t] = T]
        /\ client' = [u \in Txn |-> IF u = t THEN c ELSE client[u]]
    BY DEF End
  <1>5. Slot("ending", T, c, Db)
    BY DEF Slot
  <1> HIDE DEF T, c
  <1>6. client' = [client EXCEPT ![t] = c]
    BY <1>1, <1>4
  <1>7. Inv' /\ ExactStep /\ TableOf(page)' = TableOf(page)
    BY <1>4, <1>5, <1>6, StepAt DEF Pcs
  <1>8. Store!Abort(t)
    BY <1>3, <1>6, <1>7 DEF Store!Abort, c
  <1> QED BY <1>7, <1>8 DEF Follows, Store!Next

\* Nothing was allocated, so nothing is recycled.
LEMMA RecycleNothing ==
  ASSUME NEW T \in Txns
  PROVE  Recycle(T) = <<>> /\ T.freed \o T.discarded = <<>> /\ T.freed = <<>> /\ T.allocated = <<>>
  <1>1. T.allocated = <<>> /\ T.freed = <<>> /\ T.discarded = <<>>
    BY TxnIs
  <1>2. <<>> \o <<>> = <<>>
    OBVIOUS
  <1> QED BY <1>1, <1>2 DEF Recycle

\* A refused COMMIT, when nothing is recycled.
LEMMA RefuseFollows ==
  ASSUME Inv, NEW t \in Txn, Open(t), Refuse(t, <<>>), n_pages' = n_pages PROVE Follows
  <1>1. Sound(Db) /\ freelist = [p \in Page |-> 0]
    BY InvIs
  <1>2. page \in [Page -> [Row -> Nat]]
    BY <1>1, DbIs, DbNow
  <1>3. page' = page
    BY <1>2, SpliceNothing DEF Refuse
  <1>4. freelist' = freelist
    BY <1>1, FreeNothing DEF Refuse
  <1>5. UNCHANGED tree /\ End(t, client)
    BY <1>3, <1>4 DEF Refuse, tree
  <1> QED BY <1>5, AbortFollows

\* A COMMIT that validation refuses is the abstract abort.
LEMMA CommitRefusedFollows ==
  ASSUME Inv, NEW t \in Txn, CommitRefused(t) PROVE Follows
  <1>1. Open(t) /\ Refuse(t, Recycle(txn[t])) /\ n_pages' = n_pages
    BY DEF CommitRefused
  <1>2. \E x \in client[t].cands : Works(txn[t], client[t], x, Db)
    BY <1>1, InvIs
  <1>3. txn[t] \in Txns
    BY <1>2, WorksAre
  <1>4. Recycle(txn[t]) = <<>>
    BY <1>3, RecycleNothing
  <1> QED BY <1>1, <1>4, RefuseFollows

\* ROLLBACK is the abstract abort.
LEMMA RollbackFollows ==
  ASSUME Inv, NEW t \in Txn, Rollback(t) PROVE Follows
  <1>1. Open(t)
    BY DEF Rollback
  <1>2. /\ Sound(Db) /\ freelist = [p \in Page |-> 0]
        /\ \E x \in client[t].cands : Works(txn[t], client[t], x, Db)
    BY <1>1, InvIs
  <1>3. txn[t] \in Txns
    BY <1>2, WorksAre
  <1>4. Recycle(txn[t]) = <<>>
    BY <1>3, RecycleNothing
  <1>5. /\ page' = SpliceTxnFreed(page, <<>>) /\ freelist' = FreelistWith(<<>>)
        /\ committed_n_pages' = committed_n_pages /\ End(t, client)
        /\ UNCHANGED <<stamps, row_stamps, commit_epoch, n_pages>>
    BY <1>4 DEF Rollback
  <1>6. page \in [Page -> [Row -> Nat]]
    BY <1>2, DbIs, DbNow
  <1>7. page' = page
    BY <1>5, <1>6, SpliceNothing
  <1>8. freelist' = freelist
    BY <1>2, <1>5, FreeNothing
  <1>9. UNCHANGED tree
    BY <1>5, <1>7, <1>8 DEF tree
  <1> QED BY <1>1, <1>5, <1>9, AbortFollows

\* An install of exactly what t wrote.
LEMMA InstallFollows ==
  ASSUME Inv, NEW t \in Txn, Open(t), NEW F, Installs(F, client[t].own),
         (\E r \in Row : client[t].own[r] # Unknown) => ~ReadSetStale(txn[t]),
         Install(t, F, <<>>), freelist' = FreelistWith(<<>>), n_pages' = n_pages,
         committed_n_pages' = n_pages
  PROVE  Follows
  <1> DEFINE c == client[t]
             e == Db'
             X == TableIn(e)
             W == RowsOf(F.row_journal)
  <1>1. /\ Sound(Db) /\ n_pages = 4 /\ freelist = [p \in Page |-> 0]
        /\ (\A p \in Page \ Top : page[p] = Zeroed) /\ pc \in [Txn -> Pcs]
        /\ DOMAIN txn = Txn /\ TableOf(page) = TableIn(Db) /\ txn = [u \in Txn |-> txn[u]]
        /\ \A u \in Txn : Slot(pc[u], txn[u], client[u], Db)
    BY InvIs
  <1>2. PICK tab \in c.cands : Works(txn[t], c, tab, Db)
    BY InvIs
  <1>3. /\ Moves(Db, e, F.dirtied, W) /\ X = Store!Apply(TableIn(Db), c.own) /\ TableOf(page)' = X
        /\ End(t, [u \in Txn |-> IF client[u].open THEN Grown(client[u], X) ELSE client[u]])
    BY <1>1, InstallMoves
  <1>4. Sound(e) /\ e.epoch = Db.epoch + 1
    BY <1>3 DEF Moves
  <1>5. /\ pc' = [pc EXCEPT ![t] = "ending"] /\ txn' = [txn EXCEPT ![t] = NewTxn(0, 0)]
        /\ client' = [u \in Txn |-> IF u = t THEN Store!Idle
                                    ELSE IF client[u].open THEN Grown(client[u], X) ELSE client[u]]
    BY <1>3 DEF End
  <1>6. \A p \in Page \ Top : page'[p] = Zeroed
    <2> DEFINE pg == [p \in Page |-> IF p \in F.dirtied THEN F.shadows[p] ELSE page[p]]
    <2>1. SpliceTxnFreed(pg, <<>>) = pg
      BY SpliceNothing
    <2>2. page' = pg
      BY <2>1 DEF Install
    <2>3. F.dirtied \subseteq Top
      BY <1>3, PagesAre DEF Moves
    <2> QED BY <1>1, <2>2, <2>3
  <1> HIDE DEF c, X
  <1>7. ASSUME NEW u \in Txn PROVE Slot(pc'[u], txn'[u], client'[u], e)
    <2>1. CASE u = t
      <3>1. pc'[u] = "ending" /\ txn'[u] = NewTxn(0, 0) /\ client'[u] = Store!Idle
        BY <1>1, <1>5, <2>1
      <3> QED BY <3>1 DEF Slot
    <2>2. CASE u # t
      <3> DEFINE b == client[u]
                 T == txn[u]
                 at == pc[u]
      <3>1. pc'[u] = at /\ txn'[u] = T /\ client'[u] = IF b.open THEN Grown(b, X) ELSE b
        BY <1>1, <1>5, <2>2
      <3>2. at \in Pcs /\ Slot(at, T, b, Db)
        BY <1>1
      <3> HIDE DEF b, T, at
      <3>3. CASE at \in {"idle", "ending"}
        <4>1. T = NewTxn(0, 0) /\ b = Store!Idle
          BY <3>2, <3>3 DEF Slot
        <4>2. ~b.open
          BY <4>1 DEF Store!Idle
        <4>3. client'[u] = b
          BY <3>1, <4>2
        <4> QED BY <3>1, <3>3, <4>1, <4>3 DEF Slot
      <3>4. CASE at \in {"pages", "epoch"}
        <4>1. Fresh(T, b, Db)
          BY <3>2, <3>4 DEF Slot
        <4>2. b.open
          BY <4>1 DEF Fresh, Store!Idle
        <4>3. Fresh(T, Grown(b, X), e)
          BY <1>1, <1>4, <4>1, MoveFresh DEF X
        <4>4. client'[u] = Grown(b, X)
          BY <3>1, <4>2
        <4> QED BY <3>1, <3>4, <4>3, <4>4 DEF Slot
      <3>5. CASE at = "open"
        <4>1. T.err = FALSE /\ \E x \in b.cands : Works(T, b, x, Db)
          BY <3>2, <3>5 DEF Slot
        <4>2. PICK x \in b.cands : Works(T, b, x, Db)
          BY <4>1
        <4>3. b \in Clients
          BY <4>2, WorksAre
        <4>4. b.open
          BY <4>3, ClientIs
        <4>5. Works(T, Grown(b, X), x, e)
          BY <1>1, <1>3, <4>2, MoveWorks DEF X
        <4>6. x \in Grown(b, X).cands
          BY <4>5, WorksAre
        <4>7. client'[u] = Grown(b, X)
          BY <3>1, <4>4
        <4> QED BY <3>1, <3>5, <4>1, <4>5, <4>6, <4>7 DEF Slot
      <3> QED BY <3>2, <3>3, <3>4, <3>5 DEF Pcs
    <2> QED BY <2>1, <2>2
  <1>8. freelist' = [p \in Page |-> 0]
    BY <1>1, FreeNothing
  <1>9. pc' \in [Txn -> Pcs] /\ txn' = [u \in Txn |-> txn'[u]] /\ client' = [u \in Txn |-> client'[u]]
    BY <1>1, <1>5 DEF Pcs
  <1>10. Inv'
    BY <1>1, <1>4, <1>6, <1>7, <1>8, <1>9 DEF Inv
  <1>11. c \in Clients /\ c = client[t]
    BY <1>2, WorksAre DEF c
  <1>12. c.open /\ c.hit = Nothing
    BY <1>11, ClientIs
  <1>13. Store!Wrote(c) => Store!Current(c)
    <2> SUFFICES ASSUME Store!Wrote(c) PROVE Store!Current(c)
      OBVIOUS
    <2>1. ~ReadSetStale(txn[t])
      BY <1>11 DEF Store!Wrote
    <2>2. \A r \in Row : c.seen[r] \in {Unknown, TableIn(Db)[r]}
      BY <1>1, <1>2, <2>1, StillTrue
    <2>3. \A r \in Row : c.hit[r] = Unknown
      BY <1>12 DEF Nothing
    <2> QED BY <1>1, <2>2, <2>3 DEF Store!Current, Store!Agrees
  <1>14. TableOf(page)' = Store!Apply(TableOf(page), c.own)
    BY <1>1, <1>3
  <1>15. Store!Commit(t)
    <2>1. client' = [u \in Txn |-> IF u = t THEN Store!Idle
                                   ELSE IF client[u].open
                                        THEN [client[u] EXCEPT !.cands = @ \cup {TableOf(page)'}]
                                        ELSE client[u]]
      BY <1>3, <1>5 DEF Grown
    <2> QED BY <1>11, <1>12, <1>13, <1>14, <2>1 DEF Store!Commit
  <1>16. ExactStep
    <2> SUFFICES ASSUME NEW u \in Txn, Commits(u)
                 PROVE  TableOf(page)' = Store!Apply(TableOf(page), client[u].own)
      BY DEF ExactStep
    <2>1. pc[u] = "open" /\ pc'[u] = "ending"
      BY DEF Commits, Open
    <2>2. u = t
      BY <1>1, <1>5, <2>1
    <2> QED BY <1>11, <1>14, <2>2
  <1> QED BY <1>10, <1>15, <1>16 DEF Follows, Store!Next

\* COMMIT without a page conflict installs what was written: the abstract commit.
LEMMA CommitFastFollows ==
  ASSUME Inv, NEW t \in Txn, CommitFast(t) PROVE Follows
  <1> DEFINE T == txn[t]
             c == client[t]
  <1>1. Open(t) /\ (IsWriter(T) => ~ReadSetStale(T)) /\ Conflicts(T) = {}
        /\ Install(t, T, T.freed \o T.discarded) /\ freelist' = FreelistWith(T.freed \o T.discarded)
        /\ committed_n_pages' = n_pages /\ n_pages' = n_pages
    BY DEF CommitFast
  <1>2. Sound(Db) /\ \E x \in c.cands : Works(T, c, x, Db)
    BY <1>1, InvIs
  <1>3. PICK tab \in c.cands : Works(T, c, tab, Db)
    BY <1>2
  <1>4. T = txn[t] /\ c = client[t]
    OBVIOUS
  <1> HIDE DEF T, c
  <1>5. T \in Txns
    BY <1>3, WorksAre
  <1>6. T.freed \o T.discarded = <<>>
    BY <1>5, RecycleNothing
  <1>7. Installs(T, c.own) /\ ((\E r \in Row : c.own[r] # Unknown) => ~ReadSetStale(T))
    BY <1>1, <1>2, <1>3, FastInstalls
  <1>8. Install(t, T, <<>>) /\ freelist' = FreelistWith(<<>>)
    BY <1>1, <1>6
  <1> QED BY <1>1, <1>4, <1>7, <1>8, InstallFollows

\* COMMIT with a page conflict replays the journal: the abstract commit, or an abort.
LEMMA CommitMergeFollows ==
  ASSUME InPlace, Inv, NEW t \in Txn, CommitMerge(t) PROVE Follows
  <1> DEFINE T == txn[t]
             c == client[t]
             F == Replay(T.row_journal)
  <1>1. /\ Open(t) /\ (IsWriter(T) => ~ReadSetStale(T)) /\ T.row_journal # <<>>
        /\ n_pages' = n_pages + Len(F.allocated)
        /\ F.err => Refuse(t, Recycle(T) \o F.allocated)
        /\ ~F.err => /\ Install(t, F, Recycle(T) \o F.freed)
                     /\ freelist' = FreelistWith(Recycle(T) \o F.freed)
                     /\ committed_n_pages' = n_pages'
    BY DEF CommitMerge
  <1>2. Sound(Db) /\ n_pages = 4 /\ committed_n_pages = 4 /\ \E x \in c.cands : Works(T, c, x, Db)
    BY <1>1, InvIs
  <1>3. PICK tab \in c.cands : Works(T, c, tab, Db)
    BY <1>2
  <1>4. T = txn[t] /\ c = client[t]
    OBVIOUS
  <1> HIDE DEF T, c
  <1>5. ~ReadSetStale(T)
    BY <1>1 DEF IsWriter
  <1>6. F \in Txns /\ (F.err \/ Installs(F, c.own))
    BY <1>2, <1>3, <1>5, ReplayOutcome
  <1> HIDE DEF F
  <1>7. T \in Txns
    BY <1>3, WorksAre
  <1>8. Recycle(T) \o F.allocated = <<>> /\ Recycle(T) \o F.freed = <<>> /\ Len(F.allocated) = 0
    <2>1. Recycle(T) = <<>> /\ F.allocated = <<>> /\ F.freed = <<>>
      BY <1>6, <1>7, RecycleNothing
    <2> QED BY <2>1
  <1>9. n_pages' = n_pages
    BY <1>1, <1>2, <1>8
  <1>10. CASE F.err
    <2>1. Refuse(t, <<>>)
      BY <1>1, <1>8, <1>10
    <2> QED BY <1>1, <1>9, <2>1, RefuseFollows
  <1>11. CASE ~F.err
    <2>1. Installs(F, c.own)
      BY <1>6, <1>11
    <2>2. Install(t, F, <<>>) /\ freelist' = FreelistWith(<<>>) /\ committed_n_pages' = n_pages
      BY <1>1, <1>8, <1>9, <1>11
    <2> QED BY <1>1, <1>4, <1>5, <1>9, <2>1, <2>2, InstallFollows
  <1> QED BY <1>10, <1>11

\* prune_stamps_if_idle: no transaction is open to look at the stamps.
LEMMA PruneFollows ==
  ASSUME Inv, NEW t \in Txn, PruneStampsIfIdle(t) PROVE Follows
  <1> DEFINE idle == \A u \in Txn : pc[u] # "open"
             e == Db'
  <1>1. /\ Sound(Db) /\ n_pages = 4 /\ committed_n_pages = 4 /\ freelist = [p \in Page |-> 0]
        /\ (\A p \in Page \ Top : page[p] = Zeroed) /\ pc \in [Txn -> Pcs]
        /\ txn = [u \in Txn |-> txn[u]] /\ client = [u \in Txn |-> client[u]]
        /\ \A u \in Txn : Slot(pc[u], txn[u], client[u], Db)
    BY InvIs
  <1>2. /\ pc[t] = "ending" /\ pc' = [pc EXCEPT ![t] = "idle"]
        /\ stamps' = (IF idle THEN [p \in Page |-> 0] ELSE stamps)
        /\ row_stamps' = (IF idle THEN [r \in Row |-> 0] ELSE row_stamps)
        /\ page' = page /\ commit_epoch' = commit_epoch /\ n_pages' = n_pages
        /\ committed_n_pages' = committed_n_pages /\ freelist' = freelist /\ txn' = txn /\ client' = client
    BY DEF PruneStampsIfIdle
  <1>3. pc' \in [Txn -> Pcs] /\ pc'[t] = "idle" /\ \A u \in Txn : u # t => pc'[u] = pc[u]
    BY <1>1, <1>2 DEF Pcs
  <1>4. e.page = Db.page /\ e.epoch = Db.epoch
    BY <1>2 DEF Db
  <1>5. TableIn(e) = TableIn(Db)
    BY <1>4 DEF TableIn
  <1>6. Sound(e) /\ (~idle => e = Db)
    <2>1. CASE idle
      <3>1. e = [page |-> page, stamps |-> [p \in Page |-> 0], rows |-> [r \in Row |-> 0], epoch |-> commit_epoch]
        BY <1>2, <2>1 DEF Db
      <3>2. /\ page \in [Page -> [Row -> Nat]] /\ commit_epoch \in Nat /\ commit_epoch # 0
            /\ page[1] = Route /\ (\A p \in Leaves : LeafImage(page[p], p))
        BY <1>1, DbIs, DbNow
      <3>3. e \in Dbs
        <4>1. [p \in Page |-> 0] \in [Page -> Nat] /\ [r \in Row |-> 0] \in [Row -> Nat]
          OBVIOUS
        <4> QED BY <3>1, <3>2, <4>1 DEF Dbs
      <3>4. e.stamps = [p \in Page |-> 0] /\ e.rows = [r \in Row |-> 0] /\ e.page = page /\ e.epoch = commit_epoch
        BY <3>1
      <3> HIDE DEF e
      <3>5. e.stamps[Root] = 0 /\ \A p \in Page : e.stamps[p] <= e.epoch
        BY <3>2, <3>4, PagesAre
      <3>6. e.page[Root] = Route /\ \A p \in Leaves : LeafImage(e.page[p], p)
        BY <3>2, <3>4, PagesAre
      <3>7. e.epoch # 0 /\ \A r \in Row : e.rows[r] <= e.epoch
        BY <3>2, <3>4
      <3>8. Sound(e)
        BY <3>3, <3>5, <3>6, <3>7 DEF Sound
      <3> QED BY <2>1, <3>8
    <2>2. CASE ~idle
      <3>1. e = Db
        BY <1>2, <2>2 DEF Db
      <3> QED BY <1>1, <3>1
    <2> QED BY <2>1, <2>2
  <1>7. ASSUME NEW u \in Txn PROVE Slot(pc'[u], txn'[u], client'[u], e)
    <2>1. Slot(pc[u], txn[u], client[u], Db) /\ txn'[u] = txn[u] /\ client'[u] = client[u]
      BY <1>1, <1>2
    <2>2. CASE u = t
      <3>1. txn[u] = NewTxn(0, 0) /\ client[u] = Store!Idle
        BY <1>2, <2>1, <2>2 DEF Slot
      <3> QED BY <1>3, <2>1, <2>2, <3>1 DEF Slot
    <2>3. CASE u # t /\ ~idle
      BY <1>3, <1>6, <2>1, <2>3
    <2>4. CASE u # t /\ idle
      <3>1. pc'[u] = pc[u] /\ pc[u] # "open"
        BY <1>3, <2>4
      <3>2. Fresh(txn[u], client[u], Db) => Fresh(txn[u], client[u], e)
        BY <1>4, <1>5 DEF Fresh
      <3> QED BY <2>1, <3>1, <3>2 DEF Slot
    <2> QED BY <2>2, <2>3, <2>4
  <1>8. Inv'
    BY <1>1, <1>2, <1>3, <1>6, <1>7 DEF Inv
  <1>9. TableOf(page)' = TableOf(page)
    BY <1>2 DEF TableOf, Root
  <1>10. ExactStep
    BY <1>2 DEF ExactStep, Commits
  <1> QED BY <1>2, <1>8, <1>9, <1>10 DEF Follows, Store!vars

-----------------------------------------------------------------------------
(* The induction. *)

\* The invariant holds at first.
LEMMA InitInv ==
  ASSUME Init PROVE Inv
  <1> DEFINE at(p) == [r \in Row |-> IF r \in Loaded /\ (r <= Boundary <=> p = 2) THEN Seed ELSE Absent]
             top == [r \in Row |-> IF r <= Boundary THEN 2 ELSE 3]
  <1>1. /\ page = [p \in Page |-> CASE p = Root -> top [] p \in {2, 3} -> at(p) [] OTHER -> Zeroed]
        /\ stamps = [p \in Page |-> 0] /\ row_stamps = [r \in Row |-> 0]
        /\ commit_epoch = 1 /\ n_pages = 4 /\ committed_n_pages = 4
        /\ freelist = [p \in Page |-> 0] /\ pc = [t \in Txn |-> "idle"]
        /\ txn = [t \in Txn |-> NewTxn(0, 0)] /\ client = [t \in Txn |-> Store!Idle]
    BY DEF Init
  <1>2. top = Route
    BY DEF Route, Home
  <1>3. \A p \in Leaves : LeafImage(at(p), p)
    <2> SUFFICES ASSUME NEW p \in Leaves PROVE LeafImage(at(p), p)
      OBVIOUS
    <2>1. at(p) \in [Row -> Cell]
      BY DEF Cell
    <2>2. ASSUME NEW r \in Row, Home(r) # p PROVE at(p)[r] = Absent
      BY <2>2 DEF Home, Leaves
    <2> QED BY <2>1, <2>2 DEF LeafImage
  <1>4. \A p \in Leaves : at(p) \in [Row -> Nat]
    BY <1>3, UnknownIs DEF LeafImage
  <1>5. Zeroed \in [Row -> Nat] /\ Route \in [Row -> Nat]
    BY UnknownIs, NotZeroed DEF Zeroed
  <1> HIDE DEF at, top
  <1>6. /\ page[1] = Route /\ (\A p \in Leaves : page[p] = at(p)) /\ DOMAIN page = Page
        /\ \A p \in Page \ Top : page[p] = Zeroed
    <2>1. Root = 1 /\ 1 \in Page /\ Leaves \subseteq Page /\ 1 \notin {2, 3}
      BY PagesAre
    <2>2. page[1] = top
      BY <1>1, <2>1
    <2>3. \A p \in Leaves : page[p] = at(p)
      BY <1>1, <2>1 DEF Leaves
    <2>4. \A p \in Page \ Top : page[p] = Zeroed
      BY <1>1, <2>1 DEF Top
    <2>5. DOMAIN page = Page /\ page = [p \in Page |-> page[p]]
      BY <1>1
    <2> QED BY <1>2, <2>2, <2>3, <2>4, <2>5
  <1>7. page \in [Page -> [Row -> Nat]]
    <2>1. \A p \in Page : p = 1 \/ p \in Leaves \/ p \in Page \ Top
      BY PagesAre
    <2>2. \A p \in Page : page[p] \in [Row -> Nat]
      BY <1>4, <1>5, <1>6, <2>1
    <2>3. page = [p \in Page |-> page[p]]
      BY <1>1
    <2> QED BY <2>2, <2>3
  <1>8. Db.page = page /\ Db.stamps = stamps /\ Db.rows = row_stamps /\ Db.epoch = commit_epoch
    BY DbNow
  <1>9. Sound(Db)
    <2>1. stamps \in [Page -> Nat] /\ row_stamps \in [Row -> Nat] /\ commit_epoch \in Nat
      BY <1>1
    <2>2. Db \in Dbs
      BY <1>7, <2>1 DEF Db, Dbs
    <2>3. Db.page[Root] = Route /\ \A p \in Leaves : LeafImage(Db.page[p], p)
      BY <1>3, <1>6, <1>8, PagesAre
    <2>4. Db.stamps[Root] = 0 /\ \A p \in Page : Db.stamps[p] <= Db.epoch
      BY <1>1, <1>8, PagesAre
    <2>5. Db.epoch # 0 /\ \A r \in Row : Db.rows[r] <= Db.epoch
      BY <1>1, <1>8
    <2> QED BY <2>2, <2>3, <2>4, <2>5 DEF Sound
  <1>10. \A t \in Txn : pc[t] = "idle" /\ txn[t] = NewTxn(0, 0) /\ client[t] = Store!Idle
    BY <1>1
  <1>11. pc \in [Txn -> Pcs] /\ txn = [t \in Txn |-> txn[t]] /\ client = [t \in Txn |-> client[t]]
    BY <1>1 DEF Pcs
  <1>12. \A t \in Txn : Slot(pc[t], txn[t], client[t], Db)
    BY <1>10 DEF Slot
  <1> QED BY <1>1, <1>6, <1>9, <1>11, <1>12 DEF Inv

\* A statement that the workload does not have.
LEMMA NoDelete ==
  ASSUME InPlace, NEW t, NEW r \in Row, Delete(t, r) PROVE FALSE
  BY DEF InPlace, Delete, Runs

\* Every step keeps the invariant and is a step of the abstract table.
LEMMA NextFollows ==
  ASSUME InPlace, Inv, [Next]_vars PROVE Follows
  <1>1. CASE UNCHANGED vars
    <2>1. UNCHANGED tree /\ UNCHANGED pc /\ UNCHANGED txn /\ UNCHANGED client
      BY <1>1 DEF vars
    <2>2. Db' = Db /\ TableOf(page)' = TableOf(page)
      BY <2>1, SameDb
    <2>3. Inv'
      BY <2>1, <2>2 DEF Inv, tree
    <2>4. ExactStep
      BY <2>1 DEF ExactStep, Commits, tree
    <2> QED BY <2>1, <2>2, <2>3, <2>4 DEF Follows, Store!vars
  <1>2. CASE Next
    <2>1. PICK t \in Txn :
             \/ BeginPages(t) \/ BeginEpoch(t) \/ Register(t)
             \/ FetchRoot(t)
             \/ \E r \in Row : Select(t, r) \/ ScanLeaf(t, r) \/ Delete(t, r)
             \/ \E r \in Row, v \in Val : Insert(t, r, v) \/ Update(t, r, v)
             \/ Savepoint(t)
             \/ \E i \in 1 .. MaxSaves : RollbackTo(t, i) \/ Release(t, i)
             \/ CommitRefused(t) \/ CommitFast(t) \/ CommitMerge(t)
             \/ Rollback(t) \/ PruneStampsIfIdle(t)
      BY <1>2 DEF Next
    <2>2. BeginPages(t) \/ BeginEpoch(t) \/ Register(t) => Follows
      BY BeginPagesFollows, BeginEpochFollows, RegisterFollows
    <2>3. FetchRoot(t) => Follows
      BY FetchRootFollows
    <2>4. ASSUME NEW r \in Row PROVE Select(t, r) \/ ScanLeaf(t, r) \/ Delete(t, r) => Follows
      BY SelectFollows, ScanLeafFollows, NoDelete
    <2>5. ASSUME NEW r \in Row, NEW v \in Val PROVE Insert(t, r, v) \/ Update(t, r, v) => Follows
      BY InsertFollows, UpdateFollows
    <2>6. Savepoint(t) => Follows
      BY SavepointFollows
    <2>7. ASSUME NEW i \in 1 .. MaxSaves PROVE RollbackTo(t, i) \/ Release(t, i) => Follows
      BY RollbackToFollows, ReleaseFollows
    <2>8. CommitRefused(t) \/ CommitFast(t) \/ CommitMerge(t) => Follows
      BY CommitRefusedFollows, CommitFastFollows, CommitMergeFollows
    <2>9. Rollback(t) \/ PruneStampsIfIdle(t) => Follows
      BY RollbackFollows, PruneFollows
    <2> QED BY <2>1, <2>2, <2>3, <2>4, <2>5, <2>6, <2>7, <2>8, <2>9
  <1> QED BY <1>1, <1>2

\* The invariant of the induction: every open transaction reads one committed
\* table no older than its BEGIN, with its own writes on top, through any
\* interleaving of statements, savepoints, commits and merges of the others.
THEOREM Invariant ==
  ASSUME InPlace PROVE Spec => []Inv
  <1>1. Init => Inv
    BY InitInv
  <1>2. Inv /\ [Next]_vars => Inv'
    BY NextFollows DEF Follows
  <1> QED BY <1>1, <1>2, PTL DEF Spec

\* BEGIN CONCURRENT keeps its promise: shadows, stamps, journals and merges
\* implement SnapshotStore.  begin_concurrent, the statements, the savepoint
\* operations, commit_concurrent and rollback_concurrent are steps of it, for any
\* number of connections, rows, values, statements and nested savepoints.
THEOREM ImplementsSnapshotStore ==
  ASSUME InPlace PROVE Spec => StoreSpec
  <1>1. Init => Store!Init
    <2> SUFFICES ASSUME Init PROVE Store!Init
      OBVIOUS
    <2>1. Sound(Db) /\ TableOf(page) = TableIn(Db)
      BY InitInv, InvIs
    <2>2. TableIn(Db) \in [Row -> Cell]
      BY <2>1, DbIs
    <2>3. client = [t \in Txn |-> Store!Idle]
      BY DEF Init
    <2> QED BY <2>1, <2>2, <2>3 DEF Store!Init, Store!Table, Cell
  <1>2. Inv /\ [Next]_vars => [Store!Next]_(Store!vars)
    BY NextFollows DEF Follows
  <1> QED BY <1>1, <1>2, Invariant, PTL DEF Spec, StoreSpec, Store!Spec

\* commit_concurrent changes the rows its transaction wrote, to what it wrote, and
\* no other row, whether it installs its shadows or merges its journal.
THEOREM CommitsAreExact ==
  ASSUME InPlace PROVE Spec => CommitExact
  <1>1. Inv /\ [Next]_vars =>
          [\A t \in Txn : Commits(t) =>
             TableOf(page)' = Store!Apply(TableOf(page), client[t].own)]_vars
    BY NextFollows DEF Follows, ExactStep
  <1> QED BY <1>1, Invariant, PTL DEF Spec, CommitExact

\* No cell is above the mark of what is not known.
LEMMA CellBelow == Cell \subseteq 0 .. Unknown /\ 2 \in 0 .. Unknown /\ 3 \in 0 .. Unknown /\ Unknown \in 0 .. Unknown
  <1> DEFINE S == Val \cup {Seed}
  <1>1. S \subseteq Nat /\ S # {} /\ IsFiniteSet(S) /\ MaxPages \in Nat /\ MaxPages > 3
    BY ConcurrentAssumption, FS_AddElement
  <1> HIDE DEF S
  <1>2. Max(S) \in S /\ \A y \in S : y <= Max(S)
    BY <1>1, MaxIs
  <1>3. Unknown = MaxPages + Max(S) + 1 /\ Cell = S \cup {0}
    BY DEF Unknown, S, Cell, Absent
  <1>4. Max(S) \in Nat
    BY <1>1, <1>2
  <1>5. Unknown \in Nat /\ Unknown > 3 /\ \A y \in S : y \in Nat /\ y <= Unknown
    BY <1>1, <1>2, <1>3, <1>4
  <1> QED BY <1>3, <1>5

\* Every value is in its range: no stamp is ahead of commit_epoch, whatever is
\* dirty is a shadow, and no statement leaves its error behind in the ConcurrentTxn.
THEOREM TypesHold ==
  ASSUME InPlace PROVE Spec => []TypeOK
  <1>1. Inv => TypeOK
    <2> SUFFICES ASSUME Inv PROVE TypeOK
      OBVIOUS
    <2>1. /\ Sound(Db) /\ n_pages = 4 /\ committed_n_pages = 4 /\ freelist = [p \in Page |-> 0]
          /\ (\A p \in Page \ Top : page[p] = Zeroed) /\ pc \in [Txn -> Pcs]
          /\ \A t \in Txn : Slot(pc[t], txn[t], client[t], Db)
      BY InvIs
    <2>2. /\ stamps \in [Page -> Nat] /\ row_stamps \in [Row -> Nat] /\ commit_epoch \in Nat
          /\ page[1] = Route /\ (\A p \in Leaves : LeafImage(page[p], p))
          /\ (\A p \in Page : stamps[p] <= commit_epoch) /\ (\A r \in Row : row_stamps[r] <= commit_epoch)
      BY <2>1, DbIs, DbNow
    <2>3. ASSUME NEW p \in Page PROVE page[p] \in [Row -> 0 .. Unknown] /\ stamps[p] \in 0 .. commit_epoch
      <3>1. CASE p = 1
        BY <2>2, <3>1, CellBelow, PagesAre DEF Route, Leaves
      <3>4. stamps[p] \in 0 .. commit_epoch
        BY <2>2
      <3>2. CASE p \in Leaves
        <4>1. page[p] \in [Row -> Cell]
          BY <2>2, <3>2 DEF LeafImage
        <4>2. page[p] \in [Row -> 0 .. Unknown]
          BY <4>1, CellBelow
        <4> QED BY <3>4, <4>2
      <3>3. CASE p \in Page \ Top
        BY <2>1, <2>2, <3>3, CellBelow DEF Zeroed
      <3> QED BY <3>1, <3>2, <3>3, PagesAre
    <2>4. row_stamps \in [Row -> 0 .. commit_epoch]
      BY <2>2
    <2>5. committed_n_pages <= n_pages /\ n_pages <= MaxPages + 1 /\ freelist \in [Page -> Nat]
      BY <2>1, ConcurrentAssumption
    <2>6. ASSUME NEW t \in Txn
          PROVE  /\ txn[t].dirtied \subseteq DOMAIN txn[t].shadows /\ DOMAIN txn[t].shadows \subseteq Page
                 /\ txn[t].begin_epoch <= commit_epoch /\ txn[t].begin_n_pages <= committed_n_pages
                 /\ ~txn[t].err
      <3> DEFINE T == txn[t]
                 c == client[t]
      <3>1. pc[t] \in Pcs /\ Slot(pc[t], T, c, Db) /\ Db.epoch = commit_epoch
        BY <2>1, DbNow
      <3> HIDE DEF T, c
      <3>2. CASE pc[t] \in {"idle", "ending"}
        <4>1. T = NewTxn(0, 0)
          BY <3>1, <3>2 DEF Slot
        <4>2. /\ T.dirtied = {} /\ DOMAIN T.shadows = {} /\ T.begin_epoch = 0 /\ T.begin_n_pages = 0
              /\ T.err = FALSE
          BY <4>1 DEF NewTxn
        <4> QED BY <2>1, <2>2, <4>2 DEF T
      <3>3. CASE pc[t] \in {"pages", "epoch", "open"}
        <4>1. T.err = FALSE /\ \E tab \in c.cands : Works(T, c, tab, Db)
          BY <2>1, <3>1, <3>3, FreshWorks DEF Slot
        <4>2. T \in Txns /\ Kinds(T, Db)
          BY <4>1, WorksAre
        <4>3. T.dirtied \subseteq DOMAIN T.shadows /\ T.begin_epoch <= commit_epoch
          BY <3>1, <4>2 DEF Kinds
        <4>4. DOMAIN T.shadows \subseteq Page /\ T.begin_n_pages = 4
          BY <4>2, TxnIs, PagesAre
        <4> QED BY <2>1, <4>1, <4>3, <4>4 DEF T
      <3> QED BY <3>1, <3>2, <3>3 DEF Pcs
    <2> QED BY <2>1, <2>3, <2>4, <2>5, <2>6 DEF TypeOK, Pcs
  <1> QED BY <1>1, Invariant, PTL

\* writer_shadow_fetch and note_semantic_read never return a mixed snapshot: all
\* a transaction was told is true of one committed table no older than its BEGIN.
THEOREM NoMixedSnapshots ==
  ASSUME InPlace PROVE Spec => []Opacity
  <1>1. Inv => Opacity
    <2> SUFFICES ASSUME Inv, NEW t \in Txn, client[t].open PROVE Store!Opaque(client[t])
      BY DEF Opacity
    <2> DEFINE T == txn[t]
               c == client[t]
    <2>1. Sound(Db) /\ pc[t] \in Pcs /\ Slot(pc[t], T, c, Db) /\ c.open
      BY InvIs
    <2> HIDE DEF T, c
    <2>2. pc[t] \notin {"idle", "ending"}
      BY <2>1 DEF Slot, Store!Idle
    <2>3. \E tab \in c.cands : Works(T, c, tab, Db)
      BY <2>1, <2>2, FreshWorks DEF Slot, Pcs
    <2>4. PICK tab \in c.cands : Works(T, c, tab, Db)
      BY <2>3
    <2>5. c \in Clients /\ \A r \in Row : c.seen[r] \in {Unknown, tab[r]}
      BY <2>4, WorksAre
    <2>6. ~c.torn
      BY <2>5, ClientIs
    <2>7. Store!Opaque(c)
      BY <2>5, <2>6 DEF Store!Opaque, Store!Agrees
    <2> QED BY <2>7 DEF c
  <1> QED BY <1>1, Invariant, PTL

\* A dirty shadow holds the transaction's own writes on top of committed rows, and
\* nothing that rollback_txn_savepoint has undone.
THEOREM ShadowsHoldTheWrites ==
  ASSUME InPlace PROVE Spec => []ShadowsHoldOwnWrites
  <1>1. Inv => ShadowsHoldOwnWrites
    <2> SUFFICES ASSUME Inv, NEW t \in Txn, Open(t), NEW p \in txn[t].dirtied \ {Root},
                        NEW r \in Rows(txn[t].shadows[p])
                 PROVE  \/ txn[t].shadows[p][r] = client[t].own[r]
                        \/ /\ client[t].own[r] = Unknown
                           /\ \E tab \in client[t].cands : txn[t].shadows[p][r] = tab[r]
      BY DEF ShadowsHoldOwnWrites
    <2> DEFINE T == txn[t]
               c == client[t]
               v == T.shadows[p][r]
    <2>1. \E tab \in c.cands : Works(T, c, tab, Db)
      BY InvIs
    <2>2. PICK tab \in c.cands : Works(T, c, tab, Db)
      BY <2>1
    <2>3. r \in Row /\ v # Absent /\ p \in T.dirtied /\ p # 1
      BY PagesAre DEF Rows
    <2> HIDE DEF T, c
    <2>4. Kinds(T, Db) /\ Images(T, c, tab, Db)
      BY <2>2, WorksAre
    <2>5. p \in DOMAIN T.shadows
      BY <2>3, <2>4 DEF Kinds
    <2>6. LeafImage(T.shadows[p], p)
      BY <2>3, <2>4, <2>5 DEF Images, Image
    <2>7. Home(r) = p
      BY <2>3, <2>6 DEF LeafImage
    <2>8. /\ c.own[r] # Unknown => v = c.own[r]
          /\ c.own[r] = Unknown => Based(T, c, tab, Db, p, r, v)
      BY <2>2, <2>3, <2>5, <2>7, BaseOf
    <2>9. v = c.own[r] \/ (c.own[r] = Unknown /\ \E old \in c.cands : v = old[r])
      <3> HIDE DEF v
      <3> QED BY <2>8 DEF Based
    <2> QED BY <2>9 DEF T, c, v
  <1> QED BY <1>1, Invariant, PTL
=============================================================================
