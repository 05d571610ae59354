------------------------------ MODULE Session ------------------------------
(***************************************************************************)
(* The session extension on one table with a primary key.  Two nodes start *)
(* from the same rows and each records its changes in sessions; a session  *)
(* keeps the first change of every key and resolves it against the rows it *)
(* finds when its changeset is asked for.  The remote node's changeset is  *)
(* applied to the local one, change by change, under a conflict handler;   *)
(* then it is undone with its inverse, or the local node's own changeset   *)
(* is rebased over the handler's decisions and applied to the remote node. *)
(*                                                                         *)
(* A changeset has at most one change per key: a function from keys.  The  *)
(* order of its changes is that of a hash table, here any order.  The      *)
(* indirect flag of a recorded change is left out.                         *)
(***************************************************************************)
EXTENDS Integers, Sequences, Functions

CONSTANTS
    Key,        \* primary keys
    Col,        \* the other columns
    Val, Null,  \* their values, SQL NULL among them
    Row,        \* the rows statements write
    Undef,      \* a changeset field without a value (0x00)
    Replaced,   \* a rebase field marked as replaced (0xFF)
    Absent,     \* no row, no change
    Bases,      \* tables both nodes may start from
    Uniques,    \* sets of columns that may be declared UNIQUE
    MaxStatements, MaxCuts   \* bounds: statements of a node, sessions closed early

Node == {"local", "remote"}
Table == [Key -> [Col -> Val] \cup {Absent}]
Record == [Col -> Val \cup {Undef, Replaced}]
NoRecord == [c \in Col |-> Undef]
Op == {"INSERT", "UPDATE", "DELETE"}

ASSUME SessionAssumption ==
    /\ Null \in Val /\ Undef \notin Val /\ Replaced \notin Val /\ Undef # Replaced
    /\ Absent \notin [Col -> Val] \cup Table \cup [op : Op, old : Record, new : Record]
    /\ Row \subseteq [Col -> Val]
    /\ Bases \subseteq Table /\ Uniques \subseteq SUBSET Col
    /\ MaxStatements \in [Node -> Nat] /\ MaxCuts \in Nat

VARIABLES
    unique,     \* the UNIQUE columns
    base,       \* the table both nodes started from
    db,         \* the table of a node
    txn,        \* what ROLLBACK of a node's transaction restores, or Absent
    ses,        \* the entries of a node's session, by key
    start,      \* the table when that session was created
    grp,        \* the change group of the node's earlier sessions
    mislaid,    \* keys whose entry records a move that found a row there
    left, cuts, \* statements and sessions still allowed
    stage,      \* "work", "applied", "undone", "returned" or "failed"
    sent,       \* the changesets of the two nodes, once exchanged
    ap,         \* the apply under way, or Resting
    reb,        \* the rebase records of the local node's apply, by key
    asked       \* the verdicts the conflict handler gave: <<key, verdict>>

vars == <<unique, base, db, txn, ses, start, grp, mislaid, left, cuts,
          stage, sent, ap, reb, asked>>

-----------------------------------------------------------------------------
\* Statements.  Every row change fires its event before the row is written.

UniqueHolds(t) == \A c \in unique : \A k, l \in Key :
    k # l /\ t[k] # Absent /\ t[l] # Absent /\ t[k][c] # Null => t[k][c] # t[l][c]

\* The function f, with v at k.
With(f, k, v) == [x \in DOMAIN f \cup {k} |-> IF x = k THEN v ELSE f[x]]

\* Mutant: a later event overwrites the entry.
RecordOneLatest(s, k, op, rec) == With(s, k, [op |-> op, rec |-> rec])

\* A later event of a key that has an entry changes nothing.
RecordOne(s, k, op, rec) ==
    IF k \in DOMAIN s THEN s ELSE With(s, k, [op |-> op, rec |-> rec])

RecordInsert(s, k) == RecordOne(s, k, "INSERT", NoRecord)
RecordDelete(s, k, row) == RecordOne(s, k, "DELETE", row)
\* An UPDATE is recorded at its old key, then as an INSERT at its new one.
RecordUpdate(s, k, row, l) == RecordInsert(RecordOne(s, k, "UPDATE", row), l)

Statement(n, t, s) ==
    /\ left[n] > 0
    /\ left' = [left EXCEPT ![n] = @ - 1]
    /\ db' = [db EXCEPT ![n] = t]
    /\ ses' = [ses EXCEPT ![n] = s]
    /\ UNCHANGED <<unique, base, txn, start, grp, cuts, stage, sent, ap, reb, asked>>

Insert(n, k, row) ==
    LET t == [db[n] EXCEPT ![k] = row] IN
    /\ db[n][k] = Absent /\ UniqueHolds(t)
    /\ Statement(n, t, RecordInsert(ses[n], k))
    /\ UNCHANGED mislaid

\* INSERT OR REPLACE on an existing key.
InsertOrReplace(n, k, row) ==
    LET t == [db[n] EXCEPT ![k] = row] IN
    /\ db[n][k] # Absent /\ UniqueHolds(t)
    /\ Statement(n, t, RecordInsert(RecordDelete(ses[n], k, db[n][k]), k))
    /\ UNCHANGED mislaid

Delete(n, k) ==
    /\ db[n][k] # Absent
    /\ Statement(n, [db[n] EXCEPT ![k] = Absent], RecordDelete(ses[n], k, db[n][k]))
    /\ UNCHANGED mislaid

\* The key may change too, to a free one.
Update(n, k, l, row) ==
    LET t == [db[n] EXCEPT ![k] = Absent, ![l] = row] IN
    /\ db[n][k] # Absent /\ (l = k \/ db[n][l] = Absent) /\ UniqueHolds(t)
    /\ Statement(n, t, RecordUpdate(ses[n], k, db[n][k], l))
    /\ UNCHANGED mislaid

\* An UPDATE moves a row onto a key that has one: the event is fired before
\* the key is looked up, whatever becomes of the statement.
MoveOnto(n, k, l, t) ==
    /\ k # l /\ db[n][k] # Absent /\ db[n][l] # Absent
    /\ Statement(n, t, RecordUpdate(ses[n], k, db[n][k], l))
    /\ mislaid' = [mislaid EXCEPT ![n] = @ \cup ({l} \ DOMAIN ses[n])]

MoveRefused(n, k, l) == MoveOnto(n, k, l, db[n])
MoveOrReplace(n, k, l) ==
    MoveOnto(n, k, l, [db[n] EXCEPT ![k] = Absent, ![l] = db[n][k]])

Begin(n) ==
    /\ txn[n] = Absent /\ left[n] > 0
    /\ txn' = [txn EXCEPT ![n] = db[n]]
    /\ UNCHANGED <<unique, base, db, ses, start, grp, mislaid, left, cuts, stage, sent, ap, reb, asked>>

Commit(n) ==
    /\ txn[n] # Absent
    /\ txn' = [txn EXCEPT ![n] = Absent]
    /\ UNCHANGED <<unique, base, db, ses, start, grp, mislaid, left, cuts, stage, sent, ap, reb, asked>>

\* A rollback fires no event: the session keeps what it recorded.
Rollback(n) ==
    /\ txn[n] # Absent
    /\ db' = [db EXCEPT ![n] = txn[n]]
    /\ txn' = [txn EXCEPT ![n] = Absent]
    /\ UNCHANGED <<unique, base, ses, start, grp, mislaid, left, cuts, stage, sent, ap, reb, asked>>

-----------------------------------------------------------------------------
\* Changesets.

Change(op, old, new) == [op |-> op, old |-> old, new |-> new]
Kept(rec, C) == [c \in Col |-> IF c \in C THEN rec[c] ELSE Undef]

\* An UPDATE carries the columns that differ; without one it is no change.
UpdateOf(old, new) ==
    LET C == {c \in Col : old[c] # new[c]} IN
    IF C = {} THEN Absent ELSE Change("UPDATE", Kept(old, C), Kept(new, C))

\* An entry against the row its key has now.
Resolve(e, row) ==
    IF e.op = "INSERT"
    THEN IF row = Absent THEN Absent ELSE Change("INSERT", NoRecord, row)
    ELSE IF row = Absent THEN Change("DELETE", e.rec, NoRecord) ELSE UpdateOf(e.rec, row)

Present(f) == Restrict(f, {k \in DOMAIN f : f[k] # Absent})

Generate(s, t) == Present([k \in DOMAIN s |-> Resolve(s[k], t[k])])

\* Mutant: the left one wins.
MergeRecordLeft(l, r) == [c \in Col |-> IF l[c] # Undef THEN l[c] ELSE r[c]]

\* Two records: the right one where it has a value.
MergeRecord(l, r) == [c \in Col |-> IF r[c] # Undef THEN r[c] ELSE l[c]]

MergeUpdate(old1, old2, new1, new2) ==
    UpdateOf(MergeRecord(old1, old2), MergeRecord(new1, new2))

\* Two changes of one key; a pair that cannot follow each other keeps the first.
ChangeMerge(a, b) ==
    CASE a.op = "INSERT" /\ b.op = "DELETE" -> Absent
      [] a.op = "INSERT" /\ b.op = "UPDATE" ->
            Change("INSERT", NoRecord, MergeRecord(a.new, b.new))
      [] a.op = "DELETE" /\ b.op = "INSERT" ->
            MergeUpdate(a.old, NoRecord, b.new, NoRecord)
      [] a.op = "UPDATE" /\ b.op = "UPDATE" -> MergeUpdate(b.old, a.old, a.new, b.new)
      [] a.op = "UPDATE" /\ b.op = "DELETE" ->
            Change("DELETE", MergeRecord(b.old, a.old), NoRecord)
      [] OTHER -> a

Concat(a, b) == Present([k \in DOMAIN a \cup DOMAIN b |->
    IF k \notin DOMAIN b THEN a[k]
    ELSE IF k \notin DOMAIN a THEN b[k] ELSE ChangeMerge(a[k], b[k])])

Flipped(op) == CASE op = "INSERT" -> "DELETE" [] op = "DELETE" -> "INSERT" [] OTHER -> op
\* Mutant: the sides of an UPDATE are not swapped.
InvertUnswapped(cs) == [k \in DOMAIN cs |-> IF cs[k].op = "UPDATE" THEN cs[k]
                                            ELSE Change(Flipped(cs[k].op), cs[k].new, cs[k].old)]

Invert(cs) == [k \in DOMAIN cs |-> Change(Flipped(cs[k].op), cs[k].new, cs[k].old)]

\* The changeset of a node so far.
Changeset(n) == Concat(grp[n], Generate(ses[n], db[n]))

\* A session is closed and its changeset added to the group.
Cut(n) ==
    /\ txn[n] = Absent /\ cuts > 0 /\ ses[n] # <<>>
    /\ cuts' = cuts - 1
    /\ grp' = [grp EXCEPT ![n] = Changeset(n)]
    /\ ses' = [ses EXCEPT ![n] = <<>>]
    /\ start' = [start EXCEPT ![n] = db[n]]
    /\ UNCHANGED <<unique, base, db, txn, mislaid, left, stage, sent, ap, reb, asked>>

-----------------------------------------------------------------------------
\* Apply: one savepoint, one change after the other.

\* A field without a value is bound as NULL, on both sides of an UPDATE.
Bound(rec) == [c \in Col |-> IF rec[c] \in {Undef, Replaced} THEN Null ELSE rec[c]]

Resting == [to |-> "nobody", save |-> Absent, todo |-> <<>>, queue |-> <<>>,
            constraints |-> <<>>, before |-> 0, defer |-> FALSE]
Applying == ap.to # "nobody"

StartApply(n, cs) == ap' = [to |-> n, save |-> db[n], todo |-> cs,
    queue |-> <<>>, constraints |-> <<>>, before |-> 0, defer |-> TRUE]

\* The remote node's changeset arrives, the local one's is set aside and the
\* sessions are dropped.
Deliver ==
    /\ stage = "work" /\ \A n \in Node : txn[n] = Absent
    /\ ses' = [n \in Node |-> <<>>] /\ grp' = ses' /\ start' = [n \in Node |-> base]
    /\ left' = [n \in Node |-> 0] /\ cuts' = 0
    /\ sent' = [n \in Node |-> Changeset(n)]
    /\ StartApply("local", Changeset("remote"))
    /\ stage' = "applied"
    /\ UNCHANGED <<unique, base, db, txn, mislaid, reb, asked>>

\* The changes that may be next: any of the walk, or the head of a retry round.
InHand == IF ap.queue # <<>> THEN {Head(ap.queue)} ELSE {<<k, ap.todo[k]>> : k \in DOMAIN ap.todo}
\* Mutant: a retry round does not take the head off its queue.
ConsumedInWalk(k) == [ap EXCEPT !.todo = Restrict(@, DOMAIN @ \ {k})]

Consumed(k) == [ap EXCEPT !.todo = Restrict(@, DOMAIN @ \ {k}),
                          !.queue = IF @ = <<>> THEN @ ELSE Tail(@)]

Done(t) == [kind |-> "done", table |-> t]
ConflictAt(t) == [kind |-> "conflict", table |-> t]

\* One attempt at a change.  The second one does not verify the old values.
\* A constraint that fails an INSERT is a conflict; one that fails an UPDATE
\* is the engine's error.
ApplyOneOp(t, k, ch, verify) ==
    CASE ch.op = "DELETE" ->
            IF t[k] # Absent /\ (verify => t[k] = ch.old)
            THEN Done([t EXCEPT ![k] = Absent]) ELSE ConflictAt(t)
      [] ch.op = "UPDATE" ->
            LET u == [t EXCEPT ![k] = Bound(ch.new)] IN
            IF t[k] = Absent \/ (verify /\ t[k] # Bound(ch.old)) THEN ConflictAt(t)
            ELSE IF UniqueHolds(u) THEN Done(u) ELSE [kind |-> "error", table |-> t]
      [] ch.op = "INSERT" ->
            LET u == [t EXCEPT ![k] = ch.new] IN
            IF t[k] = Absent /\ UniqueHolds(u) THEN Done(u) ELSE ConflictAt(t)

\* The first attempt, and the one after the verdict REPLACE: the row in an
\* INSERT's way is deleted before it.
First(k, ch) == ApplyOneOp(db[ap.to], k, ch, TRUE)
Second(k, ch) ==
    LET t == IF ch.op = "INSERT" THEN [db[ap.to] EXCEPT ![k] = Absent] ELSE db[ap.to]
    IN ApplyOneOp(t, k, ch, FALSE)

\* Mutant: the handler is asked at once.
NeverDeferred(t, k, ch) == FALSE

\* A CONSTRAINT conflict of an INSERT waits while the deferral is armed.
Deferred(t, k, ch) == ap.defer /\ ch.op = "INSERT" /\ t[k] = Absent

ToHandler(k, ch) ==
    First(k, ch).kind = "conflict" /\ ~Deferred(db[ap.to], k, ch)

\* Two rebase records of one key.
RebaseMerge(e, f) ==
    IF e.op = "DELETE" /\ e.replace THEN e
    ELSE [op |-> f.op, replace |-> e.replace \/ f.replace,
          rec |-> [c \in Col |-> IF e.rec[c] = Replaced \/ f.replace THEN Replaced
                                 ELSE IF f.rec[c] = Undef THEN e.rec[c] ELSE f.rec[c]]]

RebaseAdd(r, k, ch, replace) ==
    LET f == IF ch.op = "DELETE" THEN [op |-> "DELETE", replace |-> replace, rec |-> ch.old]
                                 ELSE [op |-> "INSERT", replace |-> replace, rec |-> ch.new]
    IN With(r, k, IF k \in DOMAIN r THEN RebaseMerge(r[k], f) ELSE f)

\* The rebase records are asked for when the local node applies.
Noted(r, k, ch, replace) == IF stage = "applied" THEN RebaseAdd(r, k, ch, replace) ELSE r

Elsewhere == <<unique, base, txn, ses, start, grp, mislaid, left, cuts, sent>>

Store(t) == db' = [db EXCEPT ![ap.to] = t]

ApplyChange(k, ch) ==
    /\ First(k, ch).kind = "done" /\ Store(First(k, ch).table)
    /\ ap' = Consumed(k)
    /\ UNCHANGED <<Elsewhere, stage, reb, asked>>

\* An error rolls the apply back to its savepoint.
Fail ==
    /\ Store(ap.save)
    /\ ap' = Resting /\ stage' = "failed"
    /\ UNCHANGED <<Elsewhere, reb, asked>>

EngineError(k, ch) == First(k, ch).kind = "error" /\ Fail

Buffer(k, ch) ==
    /\ First(k, ch).kind = "conflict" /\ Deferred(db[ap.to], k, ch)
    /\ ap' = [Consumed(k) EXCEPT !.constraints = Append(@, <<k, ch>>)]
    /\ UNCHANGED <<Elsewhere, db, stage, reb, asked>>

AbortVerdict(k, ch) == ToHandler(k, ch) /\ Fail

OmitVerdict(k, ch) ==
    /\ ToHandler(k, ch)
    /\ reb' = Noted(reb, k, ch, FALSE)
    /\ asked' = asked \cup {<<k, "omit">>}
    /\ ap' = Consumed(k)
    /\ UNCHANGED <<Elsewhere, db, stage>>

\* REPLACE, and the second attempt: it succeeds, fails, is buffered (its row
\* deleted), or asks the handler again, which may only omit or abort.
ReplaceVerdict(k, ch) ==
    LET s == Second(k, ch)
        r == Noted(reb, k, ch, TRUE)
    IN /\ ToHandler(k, ch)
       /\ \/ /\ s.kind = "done" /\ reb' = r /\ ap' = Consumed(k)
             /\ Store(s.table) /\ asked' = asked \cup {<<k, "replace">>}
             /\ UNCHANGED <<Elsewhere, stage>>
          \/ /\ s.kind = "conflict" /\ Deferred(s.table, k, ch) /\ reb' = r
             /\ ap' = [Consumed(k) EXCEPT !.constraints = Append(@, <<k, ch>>)]
             /\ Store(s.table) /\ asked' = asked \cup {<<k, "replace">>}
             /\ UNCHANGED <<Elsewhere, stage>>
          \/ /\ s.kind = "conflict" /\ ~Deferred(s.table, k, ch)
             /\ reb' = Noted(r, k, ch, FALSE) /\ ap' = Consumed(k)
             /\ Store(s.table) /\ asked' = asked \cup {<<k, "replace">>, <<k, "omit">>}
             /\ UNCHANGED <<Elsewhere, stage>>
          \/ /\ s.kind = "error" \/ (s.kind = "conflict" /\ ~Deferred(s.table, k, ch))
             /\ Fail

\* Mutant: the deferral stays armed.
RetryRoundArmed ==
    /\ Applying /\ InHand = {} /\ ap.constraints # <<>>
    /\ ap' = [ap EXCEPT !.queue = ap.constraints, !.constraints = <<>>,
                        !.before = Len(ap.constraints)]
    /\ UNCHANGED <<Elsewhere, db, stage, reb, asked>>

\* The walk or a retry round is over and constraints are left: a new round,
\* which asks the handler if the last one made no progress.
RetryRound ==
    /\ Applying /\ InHand = {} /\ ap.constraints # <<>>
    /\ ap' = [ap EXCEPT !.queue = ap.constraints, !.constraints = <<>>,
                        !.before = Len(ap.constraints),
                        !.defer = @ /\ (ap.before = 0 \/ Len(ap.constraints) < ap.before)]
    /\ UNCHANGED <<Elsewhere, db, stage, reb, asked>>

Release ==
    /\ Applying /\ InHand = {} /\ ap.constraints = <<>>
    /\ ap' = Resting
    /\ UNCHANGED <<Elsewhere, db, stage, reb, asked>>

ApplyStep ==
    \/ Applying /\ \E i \in InHand :
          \/ ApplyChange(i[1], i[2]) \/ EngineError(i[1], i[2]) \/ Buffer(i[1], i[2])
          \/ AbortVerdict(i[1], i[2]) \/ OmitVerdict(i[1], i[2]) \/ ReplaceVerdict(i[1], i[2])
    \/ RetryRound
    \/ Release

-----------------------------------------------------------------------------
\* After the exchange.

\* The local node takes the remote changeset back.
Undo ==
    /\ stage = "applied" /\ ~Applying
    /\ StartApply("local", Invert(sent["remote"]))
    /\ stage' = "undone"
    /\ UNCHANGED <<Elsewhere, db, reb, asked>>

\* Fields without a value, and replaced ones, come from the second record.
FilledFrom(r, s) == [c \in Col |-> IF r[c] \in {Undef, Replaced} THEN s[c] ELSE r[c]]

\* Mutant: a column the remote did not change drops out of the new values.
PartialUpdateShared(ch, rec) ==
    LET old == [c \in Col |-> IF rec[c] = Undef THEN ch.old[c]
                              ELSE IF rec[c] # Replaced /\ ch.old[c] # Undef THEN rec[c]
                              ELSE Undef]
        new == [c \in Col |-> IF rec[c] \notin {Undef, Replaced} THEN ch.new[c] ELSE Undef]
    IN IF old = NoRecord THEN Absent ELSE Change("UPDATE", old, new)

\* An UPDATE over a remote one: what was replaced drops out, the remote's
\* values become the old ones.
PartialUpdate(ch, rec) ==
    LET old == [c \in Col |-> IF rec[c] = Undef THEN ch.old[c]
                              ELSE IF rec[c] # Replaced /\ ch.old[c] # Undef THEN rec[c]
                              ELSE Undef]
        new == [c \in Col |-> IF rec[c] # Replaced THEN ch.new[c] ELSE Undef]
    IN IF old = NoRecord THEN Absent ELSE Change("UPDATE", old, new)

RebaseOne(ch, e) ==
    CASE ch.op = "INSERT" /\ e.op = "INSERT" ->
            IF e.replace THEN Absent ELSE Change("UPDATE", e.rec, ch.new)
      [] ch.op = "INSERT" /\ e.op = "DELETE" -> ch
      [] ch.op = "UPDATE" /\ e.op = "DELETE" ->
            IF e.replace THEN Absent ELSE Change("INSERT", NoRecord, FilledFrom(ch.new, e.rec))
      [] ch.op = "UPDATE" /\ e.op = "INSERT" -> PartialUpdate(ch, e.rec)
      [] ch.op = "DELETE" /\ e.op = "INSERT" ->
            Change("DELETE", FilledFrom(e.rec, ch.old), NoRecord)
      [] ch.op = "DELETE" /\ e.op = "DELETE" -> Absent

Rebase(cs, r) == Present([k \in DOMAIN cs |->
    IF k \in DOMAIN r THEN RebaseOne(cs[k], r[k]) ELSE cs[k]])

\* The local changeset, rebased, goes to the remote node.
Return ==
    /\ stage = "applied" /\ ~Applying
    /\ StartApply("remote", Rebase(sent["local"], reb))
    /\ stage' = "returned"
    /\ UNCHANGED <<Elsewhere, db, reb, asked>>

-----------------------------------------------------------------------------
Init ==
    /\ unique \in Uniques
    /\ base \in {t \in Bases : UniqueHolds(t)}
    /\ db = [n \in Node |-> base] /\ start = db
    /\ txn = [n \in Node |-> Absent]
    /\ ses = [n \in Node |-> <<>>] /\ grp = ses
    /\ mislaid = [n \in Node |-> {}]
    /\ left = MaxStatements /\ cuts = MaxCuts
    /\ stage = "work" /\ sent = ses /\ ap = Resting /\ reb = <<>> /\ asked = {}

Work(n) ==
    \/ \E k \in Key : Delete(n, k)
    \/ \E k \in Key, row \in Row : Insert(n, k, row) \/ InsertOrReplace(n, k, row)
    \/ \E k, l \in Key, row \in Row : Update(n, k, l, row)
    \/ \E k, l \in Key : MoveRefused(n, k, l) \/ MoveOrReplace(n, k, l)
    \/ Begin(n) \/ Commit(n) \/ Rollback(n)
    \/ Cut(n)

\* Before the exchange the nodes share nothing: the local one works first.
Turn(n) == n = "local" => /\ db["remote"] = base /\ txn["remote"] = Absent
                          /\ ses["remote"] = <<>> /\ grp["remote"] = <<>>

\* Nothing is left to do once an exchange has ended.
Next ==
    \/ stage = "work" /\ \E n \in Node : Turn(n) /\ Work(n)
    \/ Deliver
    \/ ApplyStep
    \/ Undo
    \/ Return

Spec == Init /\ [][Next]_vars /\ WF_vars(ApplyStep)

-----------------------------------------------------------------------------
\* Every variable has the shape its comment says; no change is buffered twice.
TypeOK ==
    /\ unique \in Uniques /\ base \in Table /\ db \in [Node -> Table]
    /\ txn \in [Node -> Table \cup {Absent}] /\ start \in [Node -> Table]
    /\ \A n \in Node : \A k \in DOMAIN ses[n] :
          k \in Key /\ ses[n][k].op \in Op /\ ses[n][k].rec \in Record
    /\ \A n \in Node : \A f \in {grp[n], sent[n]} : \A k \in DOMAIN f :
          k \in Key /\ f[k].old \in Record /\ f[k].new \in Record
    /\ mislaid \in [Node -> SUBSET Key] /\ left \in [Node -> Nat] /\ cuts \in 0..MaxCuts
    /\ stage \in {"work", "applied", "undone", "returned", "failed"}
    /\ asked \subseteq Key \X {"omit", "replace"}
    /\ \A k \in DOMAIN reb : k \in Key /\ reb[k].rec \in Record
    /\ Applying => IsInjective(ap.queue \o ap.constraints)

\* What changed between two tables, key by key.
Diff(t, u) == Present([k \in Key |->
    IF t[k] = u[k] THEN Absent
    ELSE IF t[k] = Absent THEN Change("INSERT", NoRecord, u[k])
    ELSE IF u[k] = Absent THEN Change("DELETE", t[k], NoRecord)
    ELSE Change("UPDATE", [c \in Col |-> IF t[k][c] = u[k][c] THEN Undef ELSE t[k][c]],
                          [c \in Col |-> IF t[k][c] = u[k][c] THEN Undef ELSE u[k][c]])])

\* A session's changeset is exactly the difference between the table when
\* the session was created and the table now, whatever was rolled back in
\* between (record_one keeps the first change, generate resolves it), at
\* every key no move has found taken.
CapturedDiff == stage = "work" => \A n \in Node :
    LET K == Key \ mislaid[n] IN
    \E g \in {Generate(ses[n], db[n])} : \E d \in {Diff(start[n], db[n])} :
       Restrict(g, DOMAIN g \cap K) = Restrict(d, DOMAIN d \cap K)

Found == \A n \in Node : mislaid[n] = {}

\* The changesets of successive sessions, concatenated, are the difference
\* over all of them (change_merge's table).
ConcatComposes == stage = "work" /\ Found => \A n \in Node :
    Changeset(n) = Diff(base, db[n])

\* No UPDATE leaves out a column that is not NULL: such a column is bound as
\* NULL on both sides and its row is not found.
Fits(cs) == \A k \in DOMAIN cs : cs[k].op = "UPDATE" =>
    \A c \in Col : cs[k].new[c] = Undef => base[k][c] = Null

Clean == Found /\ sent["local"] = <<>> /\ Fits(sent["remote"])

\* Applied to a copy of the table its session started from, a changeset
\* gives the table it ended with, in every order of its changes, without
\* asking the conflict handler: what apply_one_op cannot do yet it buffers
\* until it can.  Only an UPDATE that meets a UNIQUE value may fail it.
FreshCopy == Clean /\ stage # "work" =>
    /\ asked = {}
    /\ stage = "applied" /\ ~Applying => db["local"] = db["remote"]
    /\ stage = "failed" => unique # {}

\* The inverse of a changeset is the difference the other way round (invert
\* swaps the operations and the sides), and applied after the changeset it
\* gives the table back.
UndoRestores ==
    /\ stage = "work" /\ Found => \A n \in Node : Invert(Changeset(n)) = Diff(db[n], base)
    /\ Clean /\ stage = "undone" /\ ~Applying => db["local"] = base

\* The keys both nodes updated, of which:
Contested == {k \in DOMAIN sent["local"] \cap DOMAIN sent["remote"] :
    sent["local"][k].op = "UPDATE" /\ sent["remote"][k].op = "UPDATE"}
\* - the handler chose the remote's values;
Overruled == {k \in Contested : <<k, "replace">> \in asked}
\* - the remote changed a column that the local UPDATE leaves out.
Crossed == {k \in Contested : \E c \in Col :
    sent["remote"][k].new[c] # Undef /\ sent["local"][k].new[c] = Undef}

\* The local changeset, rebased over the handler's decisions, applies to the
\* remote node and leaves both nodes with the same table.  This is so
\* - of a table without UNIQUE columns: a row that only a UNIQUE value keeps
\*   out is in one node's table and no change of the other tells of it;
\* - of UPDATEs on both sides whose omitted columns are NULL (Fits);
\* - except at the Overruled keys, because configure does not mark the
\*   replaced fields of a key's first record, and
\* - except at the Crossed keys: append_partial_update leaves the column out
\*   of the old values, it is bound as NULL and the row is not found.
Converges ==
    stage = "returned" /\ ~Applying /\ Found /\ unique = {} /\ (\A n \in Node : Fits(sent[n]))
    => \A k \in Key \ (Overruled \cup Crossed) : db["local"][k] = db["remote"][k]

\* An apply ends: a retry round without progress disarms the deferral.
ApplyEnds == [](Applying => <>(~Applying))
============================================================================
