--------------------------- MODULE SessionProofs ---------------------------
(***************************************************************************)
(* The session extension for any keys, columns, values and UNIQUE columns  *)
(* and any number of statements: what a changeset records, what it is      *)
(* merged to, what applying, undoing and rebasing it does.                 *)
(***************************************************************************)
EXTENDS Session, TLAPS

Slot == [Col -> Val] \cup {Absent}
Changes == [op : Op, old : Record, new : Record]

\* The change of a key, if there is one.
At(cs, k) == IF k \in DOMAIN cs THEN cs[k] ELSE Absent

\* The change that leads from one row to another.
DiffRow(a, b) ==
    IF a = b THEN Absent
    ELSE IF a = Absent THEN Change("INSERT", NoRecord, b)
    ELSE IF b = Absent THEN Change("DELETE", a, NoRecord)
    ELSE Change("UPDATE", [c \in Col |-> IF a[c] = b[c] THEN Undef ELSE a[c]],
                          [c \in Col |-> IF a[c] = b[c] THEN Undef ELSE b[c]])

-----------------------------------------------------------------------------
(* Changes of one row.                                                     *)

\* A row is not the absence of one, nor is a change.
LEMMA Kinds ==
  /\ \A a \in [Col -> Val] : a # Absent /\ a \in Record /\ \A c \in Col : a[c] \notin {Undef, Replaced}
  /\ \A a \in Changes : a # Absent
  /\ \A a \in Table : a # Absent
  /\ NoRecord \in Record
  <1>1. \A a \in [Col -> Val] : a # Absent /\ \A c \in Col : a[c] \notin {Undef, Replaced}
    BY SessionAssumption
  <1>2. \A a \in [Col -> Val] : a \in Record
    BY DEF Record
  <1>3. \A a \in Changes : a # Absent
    BY SessionAssumption DEF Changes
  <1>4. \A a \in Table : a # Absent
    BY SessionAssumption
  <1>5. NoRecord \in Record
    BY DEF NoRecord, Record
  <1> QED BY <1>1, <1>2, <1>3, <1>4, <1>5

LEMMA DiffRowType ==
  ASSUME NEW a \in Slot, NEW b \in Slot
  PROVE  /\ a = b => DiffRow(a, b) = Absent
         /\ a # b => DiffRow(a, b) \in Changes /\ DiffRow(a, b) # Absent
  <1>1. a # b => DiffRow(a, b) \in Changes
    <2>1. CASE a # b /\ a = Absent
      BY <2>1, Kinds DEF DiffRow, Change, Changes, Op, Slot
    <2>2. CASE a # b /\ a # Absent /\ b = Absent
      BY <2>2, Kinds DEF DiffRow, Change, Changes, Op, Slot
    <2>3. CASE a # b /\ a # Absent /\ b # Absent
      <3>1. a \in [Col -> Val] /\ b \in [Col -> Val]
        BY <2>3 DEF Slot
      <3>2. /\ [c \in Col |-> IF a[c] = b[c] THEN Undef ELSE a[c]] \in Record
            /\ [c \in Col |-> IF a[c] = b[c] THEN Undef ELSE b[c]] \in Record
        BY <3>1 DEF Record
      <3> QED BY <2>3, <3>2 DEF DiffRow, Change, Changes, Op
    <2> QED BY <2>1, <2>2, <2>3
  <1> QED BY <1>1, Kinds DEF DiffRow

\* Rows that agree in every column are one row.
LEMMA SameRow ==
  ASSUME NEW a \in [Col -> Val], NEW b \in [Col -> Val], \A c \in Col : a[c] = b[c]
  PROVE  a = b
  OBVIOUS

\* update_of's columns are those of the difference.
LEMMA UpdateOfIs ==
  ASSUME NEW a \in [Col -> Val], NEW b \in [Col -> Val]
  PROVE  UpdateOf(a, b) = DiffRow(a, b)
  <1> DEFINE C == {c \in Col : a[c] # b[c]}
  <1>1. C = {} <=> a = b
    BY SameRow
  <1>2. a # Absent /\ b # Absent
    BY Kinds
  <1>3. CASE a = b
    BY <1>1, <1>3 DEF UpdateOf, DiffRow
  <1>4. CASE a # b
    <2>1. /\ Kept(a, C) = [c \in Col |-> IF a[c] = b[c] THEN Undef ELSE a[c]]
          /\ Kept(b, C) = [c \in Col |-> IF a[c] = b[c] THEN Undef ELSE b[c]]
      BY DEF Kept
    <2>2. UpdateOf(a, b) = Change("UPDATE", Kept(a, C), Kept(b, C))
      BY <1>1, <1>4 DEF UpdateOf
    <2> QED BY <1>2, <1>4, <2>1, <2>2 DEF DiffRow
  <1> QED BY <1>3, <1>4

\* generate: the first change of a key, resolved against its row now, is the
\* change from the row it had at first.
LEMMA ResolveIs ==
  ASSUME NEW a \in Slot, NEW b \in Slot, NEW e,
         \/ e.op = "INSERT" /\ a = Absent
         \/ e.op \in {"UPDATE", "DELETE"} /\ a # Absent /\ e.rec = a
  PROVE  Resolve(e, b) = DiffRow(a, b)
  <1>1. CASE e.op = "INSERT" /\ a = Absent
    BY <1>1 DEF Resolve, DiffRow
  <1>2. CASE e.op \in {"UPDATE", "DELETE"} /\ a # Absent /\ e.rec = a
    <2>1. CASE b = Absent
      BY <1>2, <2>1 DEF Resolve, DiffRow
    <2>2. CASE b # Absent
      <3>1. a \in [Col -> Val] /\ b \in [Col -> Val]
        BY <1>2, <2>2 DEF Slot
      <3> QED BY <1>2, <2>2, <3>1, UpdateOfIs DEF Resolve
    <2> QED BY <2>1, <2>2
  <1> QED BY <1>1, <1>2

\* change_merge: two changes that follow each other are the change over both.
LEMMA MergeIs ==
  ASSUME NEW a \in Slot, NEW b \in Slot, NEW d \in Slot, a # b, b # d
  PROVE  ChangeMerge(DiffRow(a, b), DiffRow(b, d)) = DiffRow(a, d)
  <1> DEFINE x == DiffRow(a, b)
             y == DiffRow(b, d)
  <1>1. CASE a = Absent /\ d = Absent
    <2>1. x.op = "INSERT" /\ y.op = "DELETE"
      BY <1>1 DEF DiffRow, Change
    <2> QED BY <1>1, <2>1 DEF ChangeMerge, DiffRow
  <1>2. CASE a = Absent /\ d # Absent
    <2>1. b \in [Col -> Val] /\ d \in [Col -> Val] /\ b # Absent
      BY <1>2 DEF Slot
    <2>2. /\ x.op = "INSERT" /\ x.new = b /\ y.op = "UPDATE"
          /\ y.new = [c \in Col |-> IF b[c] = d[c] THEN Undef ELSE d[c]]
      BY <1>2, <2>1 DEF DiffRow, Change
    <2>3. MergeRecord(x.new, y.new) = d
      <3>1. \A c \in Col : d[c] # Undef
        BY <2>1, Kinds
      <3>2. \A c \in Col : (IF y.new[c] # Undef THEN y.new[c] ELSE x.new[c]) = d[c]
        BY <2>2, <3>1
      <3> QED BY <2>1, <3>2 DEF MergeRecord
    <2>4. ChangeMerge(x, y) = Change("INSERT", NoRecord, MergeRecord(x.new, y.new))
      BY <2>2 DEF ChangeMerge
    <2> QED BY <1>2, <2>3, <2>4 DEF DiffRow
  <1>3. CASE a # Absent /\ b = Absent
    <2>1. a \in [Col -> Val] /\ d \in [Col -> Val] /\ d # Absent
      BY <1>3 DEF Slot
    <2>2. x.op = "DELETE" /\ x.old = a /\ y.op = "INSERT" /\ y.new = d
      BY <1>3, <2>1 DEF DiffRow, Change
    <2>3. MergeRecord(a, NoRecord) = a /\ MergeRecord(d, NoRecord) = d
      BY <2>1 DEF MergeRecord, NoRecord
    <2>4. ChangeMerge(x, y) = UpdateOf(a, d)
      BY <2>2, <2>3 DEF ChangeMerge, MergeUpdate
    <2> QED BY <2>1, <2>4, UpdateOfIs
  <1>4. CASE a # Absent /\ b # Absent /\ d = Absent
    <2>1. a \in [Col -> Val] /\ b \in [Col -> Val]
      BY <1>4 DEF Slot
    <2>2. /\ x.op = "UPDATE" /\ y.op = "DELETE" /\ y.old = b
          /\ x.old = [c \in Col |-> IF a[c] = b[c] THEN Undef ELSE a[c]]
      BY <1>4 DEF DiffRow, Change
    <2>3. MergeRecord(y.old, x.old) = a
      <3>1. \A c \in Col : a[c] # Undef
        BY <2>1, Kinds
      <3>2. \A c \in Col : (IF x.old[c] # Undef THEN x.old[c] ELSE y.old[c]) = a[c]
        BY <2>2, <3>1
      <3> QED BY <2>1, <3>2 DEF MergeRecord
    <2>4. ChangeMerge(x, y) = Change("DELETE", MergeRecord(y.old, x.old), NoRecord)
      BY <2>2 DEF ChangeMerge
    <2> QED BY <1>4, <2>3, <2>4 DEF DiffRow
  <1>5. CASE a # Absent /\ b # Absent /\ d # Absent
    <2>1. a \in [Col -> Val] /\ b \in [Col -> Val] /\ d \in [Col -> Val]
      BY <1>5 DEF Slot
    <2>2. /\ x.op = "UPDATE" /\ y.op = "UPDATE"
          /\ x.old = [c \in Col |-> IF a[c] = b[c] THEN Undef ELSE a[c]]
          /\ x.new = [c \in Col |-> IF a[c] = b[c] THEN Undef ELSE b[c]]
          /\ y.old = [c \in Col |-> IF b[c] = d[c] THEN Undef ELSE b[c]]
          /\ y.new = [c \in Col |-> IF b[c] = d[c] THEN Undef ELSE d[c]]
      BY <1>5 DEF DiffRow, Change
    <2>3. \A c \in Col : a[c] # Undef /\ b[c] # Undef /\ d[c] # Undef
      BY <2>1, Kinds
    <2> DEFINE o == MergeRecord(y.old, x.old)
               n == MergeRecord(x.new, y.new)
               C == {c \in Col : o[c] # n[c]}
    <2>4. /\ o = [c \in Col |-> IF a[c] # b[c] \/ b[c] # d[c] THEN a[c] ELSE Undef]
          /\ n = [c \in Col |-> IF a[c] # b[c] \/ b[c] # d[c] THEN d[c] ELSE Undef]
      BY <2>2, <2>3 DEF MergeRecord
    <2>5. C = {c \in Col : a[c] # d[c]}
      BY <2>4
    <2>6. ChangeMerge(x, y) = UpdateOf(o, n)
      BY <2>2 DEF ChangeMerge, MergeUpdate
    <2>7. UpdateOf(o, n) = IF C = {} THEN Absent ELSE Change("UPDATE", Kept(o, C), Kept(n, C))
      BY DEF UpdateOf
    <2>8. /\ Kept(o, C) = [c \in Col |-> IF a[c] = d[c] THEN Undef ELSE a[c]]
          /\ Kept(n, C) = [c \in Col |-> IF a[c] = d[c] THEN Undef ELSE d[c]]
      <3> HIDE DEF o, n, C
      <3> QED BY <2>4, <2>5 DEF Kept
    <2>9. C = {} <=> a = d
      <3> HIDE DEF C
      <3> QED BY <2>1, <2>5, SameRow
    <2> HIDE DEF x, y, o, n, C
    <2> QED BY <1>5, <2>6, <2>7, <2>8, <2>9 DEF DiffRow, x, y
  <1> QED BY <1>1, <1>2, <1>3, <1>4, <1>5

\* invert: the change back.
LEMMA InvertIs ==
  ASSUME NEW a \in Slot, NEW b \in Slot, a # b
  PROVE  LET x == DiffRow(a, b) IN Change(Flipped(x.op), x.new, x.old) = DiffRow(b, a)
  <1>1. CASE a = Absent \/ b = Absent
    BY <1>1 DEF DiffRow, Change, Flipped
  <1>2. CASE a # Absent /\ b # Absent
    <2>1. /\ [c \in Col |-> IF a[c] = b[c] THEN Undef ELSE a[c]] = [c \in Col |-> IF b[c] = a[c] THEN Undef ELSE a[c]]
          /\ [c \in Col |-> IF a[c] = b[c] THEN Undef ELSE b[c]] = [c \in Col |-> IF b[c] = a[c] THEN Undef ELSE b[c]]
      OBVIOUS
    <2> QED BY <1>2, <2>1 DEF DiffRow, Change, Flipped
  <1> QED BY <1>1, <1>2

-----------------------------------------------------------------------------
(* Changesets.                                                             *)

LEMMA PresentIs ==
  ASSUME NEW f
  PROVE  /\ DOMAIN Present(f) = {k \in DOMAIN f : f[k] # Absent}
         /\ \A k : At(Present(f), k) = IF k \in DOMAIN f THEN f[k] ELSE Absent
         /\ Present(f) = [k \in DOMAIN Present(f) |-> At(Present(f), k)]
  <1>1. Present(f) = [k \in {k \in DOMAIN f : f[k] # Absent} |-> f[k]]
    BY DEF Present, Restrict
  <1>2. \A k : At(Present(f), k) = IF k \in DOMAIN f THEN f[k] ELSE Absent
    BY <1>1 DEF At
  <1> QED BY <1>1, <1>2 DEF At

\* A changeset without empty changes is known by its changes.
LEMMA SamePresent ==
  ASSUME NEW f, NEW g, \A k : At(Present(f), k) = At(Present(g), k)
  PROVE  Present(f) = Present(g)
  <1>1. DOMAIN Present(f) = {k \in DOMAIN f : f[k] # Absent} /\ DOMAIN Present(g) = {k \in DOMAIN g : g[k] # Absent}
    BY PresentIs
  <1>2. /\ \A k : At(Present(f), k) = IF k \in DOMAIN f THEN f[k] ELSE Absent
        /\ \A k : At(Present(g), k) = IF k \in DOMAIN g THEN g[k] ELSE Absent
    BY PresentIs
  <1>3. DOMAIN Present(f) = DOMAIN Present(g)
    BY <1>1, <1>2
  <1>4. /\ Present(f) = [k \in DOMAIN Present(f) |-> At(Present(f), k)]
        /\ Present(g) = [k \in DOMAIN Present(g) |-> At(Present(g), k)]
    BY PresentIs
  <1> QED BY <1>3, <1>4

LEMMA DiffIs ==
  ASSUME NEW t, NEW u
  PROVE  /\ \A k \in Key : At(Diff(t, u), k) = DiffRow(t[k], u[k])
         /\ \A k : k \notin Key => At(Diff(t, u), k) = Absent
         /\ DOMAIN Diff(t, u) = {k \in Key : DiffRow(t[k], u[k]) # Absent}
  <1> DEFINE f == [k \in Key |-> DiffRow(t[k], u[k])]
  <1>1. Diff(t, u) = Present(f)
    BY DEF Diff, DiffRow
  <1>2. /\ \A k : At(Present(f), k) = IF k \in DOMAIN f THEN f[k] ELSE Absent
        /\ DOMAIN Present(f) = {k \in DOMAIN f : f[k] # Absent}
    BY PresentIs
  <1> QED BY <1>1, <1>2

\* cs has the changes from t to u.
Same(cs, t, u) ==
    /\ DOMAIN cs = {k \in Key : t[k] # u[k]}
    /\ \A k \in DOMAIN cs : cs[k] = DiffRow(t[k], u[k])

LEMMA SameDiff ==
  ASSUME NEW t \in Table, NEW u \in Table
  PROVE  Same(Diff(t, u), t, u)
  <1>1. \A k \in Key : t[k] \in Slot /\ u[k] \in Slot
    BY DEF Table, Slot
  <1>2. \A k \in Key : DiffRow(t[k], u[k]) # Absent <=> t[k] # u[k]
    BY <1>1, DiffRowType
  <1> QED BY <1>2, DiffIs DEF Same, At

\* A changeset made by Present with the right changes is the difference.
LEMMA PresentSame ==
  ASSUME NEW t \in Table, NEW u \in Table, NEW f, DOMAIN f \subseteq Key,
         \A k \in Key : (IF k \in DOMAIN f THEN f[k] ELSE Absent) = DiffRow(t[k], u[k])
  PROVE  Present(f) = Diff(t, u)
  <1> DEFINE g == [k \in Key |-> DiffRow(t[k], u[k])]
  <1>1. Diff(t, u) = Present(g)
    BY DEF Diff, DiffRow
  <1>2. DOMAIN g = Key /\ \A k \in Key : g[k] = DiffRow(t[k], u[k])
    OBVIOUS
  <1> HIDE DEF g
  <1>3. /\ \A k : At(Present(f), k) = IF k \in DOMAIN f THEN f[k] ELSE Absent
        /\ \A k : At(Present(g), k) = IF k \in DOMAIN g THEN g[k] ELSE Absent
    BY PresentIs
  <1>4. \A k : At(Present(f), k) = At(Present(g), k)
    BY <1>2, <1>3
  <1> QED BY <1>1, <1>4, SamePresent

\* Changegroup::add: the changesets of consecutive sessions, over both.
LEMMA ConcatIs ==
  ASSUME NEW t \in Table, NEW u \in Table, NEW w \in Table, NEW a, NEW b, Same(a, t, u), Same(b, u, w)
  PROVE  Concat(a, b) = Diff(t, w)
  <1> DEFINE f == [k \in DOMAIN a \cup DOMAIN b |->
                      IF k \notin DOMAIN b THEN a[k]
                      ELSE IF k \notin DOMAIN a THEN b[k] ELSE ChangeMerge(a[k], b[k])]
  <1>1. Concat(a, b) = Present(f)
    BY DEF Concat
  <1>2. ASSUME NEW k \in Key PROVE (IF k \in DOMAIN f THEN f[k] ELSE Absent) = DiffRow(t[k], w[k])
    <2>1. t[k] \in Slot /\ u[k] \in Slot /\ w[k] \in Slot
      BY DEF Table, Slot
    <2>2. /\ k \in DOMAIN a <=> t[k] # u[k]
          /\ k \in DOMAIN b <=> u[k] # w[k]
          /\ k \in DOMAIN a => a[k] = DiffRow(t[k], u[k])
          /\ k \in DOMAIN b => b[k] = DiffRow(u[k], w[k])
      BY DEF Same
    <2>3. CASE t[k] = u[k] /\ u[k] = w[k]
      BY <2>2, <2>3 DEF DiffRow
    <2>4. CASE t[k] # u[k] /\ u[k] = w[k]
      BY <2>2, <2>4
    <2>5. CASE t[k] = u[k] /\ u[k] # w[k]
      BY <2>2, <2>5
    <2>6. CASE t[k] # u[k] /\ u[k] # w[k]
      <3>1. f[k] = ChangeMerge(DiffRow(t[k], u[k]), DiffRow(u[k], w[k])) /\ k \in DOMAIN f
        BY <2>2, <2>6
      <3> QED BY <2>1, <2>6, <3>1, MergeIs
    <2> QED BY <2>3, <2>4, <2>5, <2>6
  <1>3. DOMAIN f \subseteq Key
    BY DEF Same
  <1> HIDE DEF f
  <1>4. Present(f) = Diff(t, w)
    BY <1>2, <1>3, PresentSame
  <1> QED BY <1>1, <1>4

\* invert: the difference the other way round.
LEMMA InvertDiff ==
  ASSUME NEW t \in Table, NEW u \in Table
  PROVE  Invert(Diff(t, u)) = Diff(u, t)
  <1> DEFINE a == Diff(t, u)
             b == Diff(u, t)
  <1>1. /\ DOMAIN a = {k \in Key : DiffRow(t[k], u[k]) # Absent}
        /\ DOMAIN b = {k \in Key : DiffRow(u[k], t[k]) # Absent}
        /\ \A k \in DOMAIN a : a[k] = DiffRow(t[k], u[k])
        /\ \A k \in DOMAIN b : b[k] = DiffRow(u[k], t[k])
    BY DiffIs DEF At
  <1>2. b = [k \in DOMAIN b |-> At(b, k)]
    <2> DEFINE g == [k \in Key |-> DiffRow(u[k], t[k])]
    <2>1. b = Present(g)
      BY DEF Diff, DiffRow
    <2> HIDE DEF b, g
    <2>2. Present(g) = [k \in DOMAIN Present(g) |-> At(Present(g), k)]
      BY PresentIs
    <2> QED BY <2>1, <2>2
  <1> HIDE DEF a, b
  <1>3. \A k \in Key : t[k] \in Slot /\ u[k] \in Slot
    BY DEF Table, Slot
  <1>4. \A k \in Key : (DiffRow(t[k], u[k]) # Absent <=> t[k] # u[k]) /\ (DiffRow(u[k], t[k]) # Absent <=> t[k] # u[k])
    BY <1>3, DiffRowType
  <1>5. DOMAIN a = DOMAIN b
    BY <1>1, <1>4
  <1>6. ASSUME NEW k \in DOMAIN a PROVE Change(Flipped(a[k].op), a[k].new, a[k].old) = b[k]
    <2>1. k \in Key /\ t[k] # u[k] /\ a[k] = DiffRow(t[k], u[k]) /\ b[k] = DiffRow(u[k], t[k])
      BY <1>1, <1>4, <1>5
    <2>2. t[k] \in Slot /\ u[k] \in Slot
      BY <1>3, <2>1
    <2> DEFINE x == DiffRow(t[k], u[k])
    <2>3. Change(Flipped(x.op), x.new, x.old) = DiffRow(u[k], t[k])
      BY <2>1, <2>2, InvertIs
    <2> QED BY <2>1, <2>3
  <1>7. Invert(a) = b
    BY <1>2, <1>5, <1>6 DEF Invert, At
  <1> QED BY <1>7 DEF a, b
-----------------------------------------------------------------------------
(* The types of the state.                                                 *)

PlainRec == [Col -> Val \cup {Undef}]
Plain == {x \in [op : Op, old : PlainRec, new : PlainRec] :
             /\ x.op = "INSERT" => x.new \in [Col -> Val]
             /\ x.op = "DELETE" => x.old \in [Col -> Val]}

\* A changeset, the entries of a session, the rebase records.
CsOK(cs) == \A k \in DOMAIN cs : k \in Key /\ cs[k] \in Plain
EntryType(op, rec) == op \in Op /\ rec \in PlainRec /\ (op # "INSERT" => rec \in [Col -> Val])
SesOK(s) == \A k \in DOMAIN s : k \in Key /\ EntryType(s[k].op, s[k].rec)
RebOK(r) == \A k \in DOMAIN r : /\ k \in Key /\ r[k].op \in {"INSERT", "DELETE"}
                                /\ r[k].replace \in BOOLEAN /\ r[k].rec \in Record
                                /\ r[k].op = "DELETE" => r[k].rec \in [Col -> Val]

\* A change that can be applied, and one that may wait for a constraint.
Doable == {x \in Changes : /\ x.op = "INSERT" => x.new \in [Col -> Val]
                           /\ x.op = "DELETE" => x.old \in [Col -> Val]}
Waiting == Key \X {x \in Doable : x.op = "INSERT"}

\* The keys of the apply under way are in one place each.
Apart(a) ==
    /\ \A i, j \in 1 .. Len(a.queue) : a.queue[i][1] = a.queue[j][1] => i = j
    /\ \A i, j \in 1 .. Len(a.constraints) : a.constraints[i][1] = a.constraints[j][1] => i = j
    /\ \A i \in 1 .. Len(a.queue), j \in 1 .. Len(a.constraints) : a.queue[i][1] # a.constraints[j][1]
    /\ \A i \in 1 .. Len(a.queue) : a.queue[i][1] \notin DOMAIN a.todo
    /\ \A i \in 1 .. Len(a.constraints) : a.constraints[i][1] \notin DOMAIN a.todo
    /\ a.queue # <<>> => DOMAIN a.todo = {}

\* The apply under way.
ApShape(a) ==
    /\ a = [to |-> a.to, save |-> a.save, todo |-> a.todo, queue |-> a.queue,
            constraints |-> a.constraints, before |-> a.before, defer |-> a.defer]
    /\ a.to \in Node \cup {"nobody"}
ApData(a) ==
    /\ a.save \in Table
    /\ \A k \in DOMAIN a.todo : k \in Key /\ a.todo[k] \in Doable
    /\ a.queue \in Seq(Waiting) /\ a.constraints \in Seq(Waiting)
ApCount(a) == a.before \in Nat /\ a.defer \in BOOLEAN
ApOK(a) == ApShape(a) /\ (a.to # "nobody" => ApData(a) /\ ApCount(a) /\ Apart(a))

STypes ==
    /\ unique \in Uniques /\ base \in Table
    /\ db \in [Node -> Table] /\ start \in [Node -> Table] /\ txn \in [Node -> Table \cup {Absent}]
    /\ DOMAIN ses = Node /\ DOMAIN grp = Node /\ DOMAIN sent = Node
    /\ \A n \in Node : SesOK(ses[n]) /\ CsOK(grp[n]) /\ CsOK(sent[n])
    /\ mislaid \in [Node -> SUBSET Key] /\ left \in [Node -> Nat] /\ cuts \in 0 .. MaxCuts
    /\ stage \in {"work", "applied", "undone", "returned", "failed"}
    /\ asked \subseteq Key \X {"omit", "replace"}
    /\ RebOK(reb) /\ ApOK(ap)
    /\ stage \in {"work", "failed"} => ~Applying
    /\ stage = "applied" /\ Applying => \A k \in DOMAIN ap.todo : k \notin DOMAIN reb
    /\ stage = "work" => DOMAIN reb = {} /\ asked = {}

LEMMA PlainFacts ==
  /\ PlainRec \subseteq Record /\ NoRecord \in PlainRec /\ [Col -> Val] \subseteq PlainRec
  /\ Plain \subseteq Doable /\ Doable \subseteq Changes
  /\ \A r, s \in PlainRec : MergeRecord(r, s) \in PlainRec /\ UpdateOf(r, s) \in Plain \cup {Absent}
  /\ \A r \in [Col -> Val], s \in PlainRec : MergeRecord(r, s) \in [Col -> Val]
  <1>1. PlainRec \subseteq Record /\ NoRecord \in PlainRec /\ [Col -> Val] \subseteq PlainRec
    BY DEF PlainRec, Record, NoRecord
  <1>2. Plain \subseteq Doable /\ Doable \subseteq Changes
    BY <1>1 DEF Plain, Doable, Changes
  <1>3. \A r, s \in PlainRec : MergeRecord(r, s) \in PlainRec
    BY DEF PlainRec, MergeRecord
  <1>4. ASSUME NEW r \in PlainRec, NEW s \in PlainRec PROVE UpdateOf(r, s) \in Plain \cup {Absent}
    <2> DEFINE C == {c \in Col : r[c] # s[c]}
    <2>1. Kept(r, C) \in PlainRec /\ Kept(s, C) \in PlainRec
      BY DEF PlainRec, Kept
    <2>2. UpdateOf(r, s) \in {Absent, Change("UPDATE", Kept(r, C), Kept(s, C))}
      BY DEF UpdateOf
    <2> HIDE DEF C
    <2>3. Change("UPDATE", Kept(r, C), Kept(s, C)) \in Plain
      BY <2>1 DEF Change, Plain, Op
    <2> QED BY <2>2, <2>3
  <1>5. \A r \in [Col -> Val], s \in PlainRec : MergeRecord(r, s) \in [Col -> Val]
    BY DEF PlainRec, MergeRecord
  <1> QED BY <1>1, <1>2, <1>3, <1>4, <1>5

\* A changeset made by Present.
LEMMA PresentType ==
  ASSUME NEW f, \A k \in DOMAIN f : k \in Key /\ f[k] \in Plain \cup {Absent}
  PROVE  CsOK(Present(f))
  <1>1. DOMAIN Present(f) = {k \in DOMAIN f : f[k] # Absent}
    BY PresentIs
  <1>2. \A k : At(Present(f), k) = IF k \in DOMAIN f THEN f[k] ELSE Absent
    BY PresentIs
  <1>3. ASSUME NEW k \in DOMAIN Present(f) PROVE Present(f)[k] = f[k]
    <2>1. At(Present(f), k) = Present(f)[k] /\ k \in DOMAIN f
      BY <1>1 DEF At
    <2> QED BY <1>2, <2>1
  <1> QED BY <1>1, <1>3 DEF CsOK

LEMMA GenerateType ==
  ASSUME NEW s, SesOK(s), NEW t \in Table
  PROVE  CsOK(Generate(s, t))
  <1> DEFINE f == [k \in DOMAIN s |-> Resolve(s[k], t[k])]
  <1>1. ASSUME NEW k \in DOMAIN s PROVE k \in Key /\ f[k] \in Plain \cup {Absent}
    <2>1. k \in Key /\ t[k] \in Slot /\ s[k].op \in Op /\ s[k].rec \in PlainRec
          /\ (s[k].op # "INSERT" => s[k].rec \in [Col -> Val])
      BY DEF SesOK, EntryType, Table, Slot
    <2>2. CASE s[k].op = "INSERT" /\ t[k] = Absent
      BY <2>1, <2>2 DEF Resolve
    <2>3. CASE s[k].op = "INSERT" /\ t[k] # Absent
      BY <2>1, <2>3, PlainFacts DEF Resolve, Change, Plain, Slot, Op
    <2>4. CASE s[k].op # "INSERT" /\ t[k] = Absent
      BY <2>1, <2>4, PlainFacts DEF Resolve, Change, Plain, Op
    <2>5. CASE s[k].op # "INSERT" /\ t[k] # Absent
      <3>1. t[k] \in PlainRec
        BY <2>1, <2>5, PlainFacts DEF Slot
      <3>2. f[k] = UpdateOf(s[k].rec, t[k])
        BY <2>5 DEF Resolve
      <3> QED BY <2>1, <3>1, <3>2, PlainFacts
    <2> QED BY <2>1, <2>2, <2>3, <2>4, <2>5
  <1>2. Generate(s, t) = Present(f)
    BY DEF Generate
  <1>3. DOMAIN f = DOMAIN s
    OBVIOUS
  <1> HIDE DEF f
  <1> QED BY <1>1, <1>2, <1>3, PresentType

LEMMA MergeType ==
  ASSUME NEW a \in Plain, NEW b \in Plain
  PROVE  ChangeMerge(a, b) \in Plain \cup {Absent}
  <1>0. /\ a.old \in PlainRec /\ a.new \in PlainRec /\ b.old \in PlainRec /\ b.new \in PlainRec
        /\ a.op = "INSERT" => a.new \in [Col -> Val]
        /\ b.op = "INSERT" => b.new \in [Col -> Val]
        /\ a.op = "DELETE" => a.old \in [Col -> Val]
        /\ b.op = "DELETE" => b.old \in [Col -> Val]
        /\ a.op \in Op /\ b.op \in Op
    BY DEF Plain
  <1>1. CASE a.op = "INSERT" /\ b.op = "DELETE"
    BY <1>1 DEF ChangeMerge
  <1>2. CASE a.op = "INSERT" /\ b.op = "UPDATE"
    <2>1. MergeRecord(a.new, b.new) \in [Col -> Val] /\ MergeRecord(a.new, b.new) \in PlainRec
      BY <1>0, <1>2, PlainFacts
    <2>2. ChangeMerge(a, b) = Change("INSERT", NoRecord, MergeRecord(a.new, b.new))
      BY <1>2 DEF ChangeMerge
    <2> QED BY <2>1, <2>2, PlainFacts DEF Change, Plain, Op
  <1>3. CASE a.op = "DELETE" /\ b.op = "INSERT"
    <2>1. MergeRecord(a.old, NoRecord) \in PlainRec /\ MergeRecord(b.new, NoRecord) \in PlainRec
      BY <1>0, PlainFacts
    <2>2. ChangeMerge(a, b) = UpdateOf(MergeRecord(a.old, NoRecord), MergeRecord(b.new, NoRecord))
      BY <1>3 DEF ChangeMerge, MergeUpdate
    <2> QED BY <2>1, <2>2, PlainFacts
  <1>4. CASE a.op = "UPDATE" /\ b.op = "UPDATE"
    <2>1. MergeRecord(b.old, a.old) \in PlainRec /\ MergeRecord(a.new, b.new) \in PlainRec
      BY <1>0, PlainFacts
    <2>2. ChangeMerge(a, b) = UpdateOf(MergeRecord(b.old, a.old), MergeRecord(a.new, b.new))
      BY <1>4 DEF ChangeMerge, MergeUpdate
    <2> QED BY <2>1, <2>2, PlainFacts
  <1>5. CASE a.op = "UPDATE" /\ b.op = "DELETE"
    <2>1. MergeRecord(b.old, a.old) \in [Col -> Val] /\ MergeRecord(b.old, a.old) \in PlainRec
      BY <1>0, <1>5, PlainFacts
    <2>2. ChangeMerge(a, b) = Change("DELETE", MergeRecord(b.old, a.old), NoRecord)
      BY <1>5 DEF ChangeMerge
    <2> QED BY <2>1, <2>2, PlainFacts DEF Change, Plain, Op
  <1>6. CASE \/ a.op = b.op /\ a.op # "UPDATE"
             \/ a.op = "DELETE" /\ b.op = "UPDATE"
             \/ a.op = "UPDATE" /\ b.op = "INSERT"
    BY <1>6 DEF ChangeMerge
  <1>7. a.op \in {"INSERT", "UPDATE", "DELETE"} /\ b.op \in {"INSERT", "UPDATE", "DELETE"}
    BY <1>0 DEF Op
  <1>8. \/ a.op = "INSERT" /\ b.op = "DELETE"
        \/ a.op = "INSERT" /\ b.op = "UPDATE"
        \/ a.op = "DELETE" /\ b.op = "INSERT"
        \/ a.op = "UPDATE" /\ b.op = "UPDATE"
        \/ a.op = "UPDATE" /\ b.op = "DELETE"
        \/ a.op = b.op /\ a.op # "UPDATE"
        \/ a.op = "DELETE" /\ b.op = "UPDATE"
        \/ a.op = "UPDATE" /\ b.op = "INSERT"
    BY <1>7
  <1> QED BY <1>1, <1>2, <1>3, <1>4, <1>5, <1>6, <1>8

LEMMA ConcatType ==
  ASSUME NEW a, NEW b, CsOK(a), CsOK(b)
  PROVE  CsOK(Concat(a, b))
  <1> DEFINE f == [k \in DOMAIN a \cup DOMAIN b |->
                      IF k \notin DOMAIN b THEN a[k]
                      ELSE IF k \notin DOMAIN a THEN b[k] ELSE ChangeMerge(a[k], b[k])]
  <1>1. ASSUME NEW k \in DOMAIN f PROVE k \in Key /\ f[k] \in Plain \cup {Absent}
    <2>1. CASE k \notin DOMAIN b \/ k \notin DOMAIN a
      BY <2>1 DEF CsOK
    <2>2. CASE k \in DOMAIN b /\ k \in DOMAIN a
      <3>1. a[k] \in Plain /\ b[k] \in Plain /\ k \in Key
        BY <2>2 DEF CsOK
      <3> QED BY <2>2, <3>1, MergeType
    <2> QED BY <2>1, <2>2
  <1>2. Concat(a, b) = Present(f)
    BY DEF Concat
  <1> HIDE DEF f
  <1> QED BY <1>1, <1>2, PresentType

LEMMA ChangesetType ==
  ASSUME STypes, NEW n \in Node
  PROVE  CsOK(Changeset(n))
  <1>1. SesOK(ses[n]) /\ CsOK(grp[n]) /\ db[n] \in Table
    BY DEF STypes
  <1>2. CsOK(Generate(ses[n], db[n]))
    BY <1>1, GenerateType
  <1> QED BY <1>1, <1>2, ConcatType DEF Changeset

LEMMA InvertType ==
  ASSUME NEW cs, CsOK(cs)
  PROVE  CsOK(Invert(cs))
  <1>1. ASSUME NEW k \in DOMAIN cs PROVE k \in Key /\ Change(Flipped(cs[k].op), cs[k].new, cs[k].old) \in Plain
    <2>1. k \in Key /\ cs[k] \in Plain
      BY DEF CsOK
    <2> QED BY <2>1 DEF Plain, Change, Flipped, Op
  <1> QED BY <1>1 DEF CsOK, Invert
-----------------------------------------------------------------------------
(* Statements.                                                             *)

\* An entry tells what the row of its key was.
EntryOK(e, a) ==
    \/ e.op = "INSERT" /\ a = Absent
    \/ e.op \in {"UPDATE", "DELETE"} /\ a # Absent /\ e.rec = a

\* s continues ss: what is new in it was recorded of a row of t, or mislaid.
Continues(s, ss, t, M) ==
    /\ DOMAIN ss \subseteq DOMAIN s
    /\ \A k \in DOMAIN ss : s[k] = ss[k]
    /\ \A k \in DOMAIN s \ DOMAIN ss : k \in M \/ EntryOK(s[k], t[k])

\* r is s with an entry of k, the old one if there was one.
Recorded(r, s, k, op, rec) ==
    /\ SesOK(r)
    /\ DOMAIN r = DOMAIN s \cup {k}
    /\ \A x \in DOMAIN s : r[x] = s[x]
    /\ k \notin DOMAIN s => r[k].op = op /\ r[k].rec = rec

\* record_one: an entry is added where there was none.
LEMMA RecordOneIs ==
  ASSUME NEW s, SesOK(s), NEW k \in Key, NEW op, NEW rec, EntryType(op, rec)
  PROVE  Recorded(RecordOne(s, k, op, rec), s, k, op, rec)
  <1> DEFINE r == RecordOne(s, k, op, rec)
  <1>1. CASE k \in DOMAIN s
    <2>1. r = s
      BY <1>1 DEF RecordOne
    <2> QED BY <1>1, <2>1 DEF Recorded
  <1>2. CASE k \notin DOMAIN s
    <2>1. r = [x \in DOMAIN s \cup {k} |-> IF x = k THEN [op |-> op, rec |-> rec] ELSE s[x]]
      BY <1>2 DEF RecordOne, With
    <2>2. DOMAIN r = DOMAIN s \cup {k} /\ r[k] = [op |-> op, rec |-> rec]
      BY <2>1
    <2>3. \A x \in DOMAIN s : r[x] = s[x]
      BY <1>2, <2>1
    <2> HIDE DEF r
    <2>4. r[k].op = op /\ r[k].rec = rec
      BY <2>2
    <2>5. SesOK(r)
      BY <2>2, <2>3, <2>4 DEF SesOK
    <2> QED BY <2>2, <2>3, <2>4, <2>5 DEF Recorded, r
  <1> QED BY <1>1, <1>2

\* r continues s and has an entry of k.
Noticed(r, s, t, M, k) == SesOK(r) /\ Continues(r, s, t, M) /\ k \in DOMAIN r

LEMMA RecordedNotices ==
  ASSUME NEW s, NEW k, NEW t, NEW M, NEW op, NEW rec, NEW r, Recorded(r, s, k, op, rec),
         k \in DOMAIN s \/ k \in M \/ EntryOK([op |-> op, rec |-> rec], t[k])
  PROVE  Noticed(r, s, t, M, k)
  <1>1. ASSUME NEW x \in DOMAIN r \ DOMAIN s PROVE x \in M \/ EntryOK(r[x], t[x])
    <2>1. x = k /\ r[x].op = op /\ r[x].rec = rec
      BY DEF Recorded
    <2> QED BY <2>1 DEF EntryOK
  <1>2. Continues(r, s, t, M)
    BY <1>1 DEF Continues, Recorded
  <1> QED BY <1>2 DEF Noticed, Recorded

\* An INSERT is recorded of a key without a row.
LEMMA InsertNoticed ==
  ASSUME NEW s, SesOK(s), NEW k \in Key, NEW t, NEW M,
         k \in DOMAIN s \/ k \in M \/ t[k] = Absent
  PROVE  Noticed(RecordInsert(s, k), s, t, M, k)
  <1>1. EntryType("INSERT", NoRecord)
    BY PlainFacts DEF EntryType, Op
  <1>2. Recorded(RecordInsert(s, k), s, k, "INSERT", NoRecord)
    BY <1>1, RecordOneIs DEF RecordInsert
  <1>3. t[k] = Absent => EntryOK([op |-> "INSERT", rec |-> NoRecord], t[k])
    BY DEF EntryOK
  <1> QED BY <1>2, <1>3, RecordedNotices

\* An UPDATE or a DELETE is recorded with the row of its key.
LEMMA RowNoticed ==
  ASSUME NEW s, SesOK(s), NEW k \in Key, NEW t \in Table, NEW M, t[k] # Absent
  PROVE  /\ Noticed(RecordOne(s, k, "UPDATE", t[k]), s, t, M, k)
         /\ Noticed(RecordOne(s, k, "DELETE", t[k]), s, t, M, k)
  <1>1. EntryType("UPDATE", t[k]) /\ EntryType("DELETE", t[k])
    BY PlainFacts DEF EntryType, Op, Table
  <1>2. /\ Recorded(RecordOne(s, k, "UPDATE", t[k]), s, k, "UPDATE", t[k])
        /\ Recorded(RecordOne(s, k, "DELETE", t[k]), s, k, "DELETE", t[k])
    BY <1>1, RecordOneIs
  <1>3. /\ EntryOK([op |-> "UPDATE", rec |-> t[k]], t[k])
        /\ EntryOK([op |-> "DELETE", rec |-> t[k]], t[k])
    BY DEF EntryOK
  <1> QED BY <1>2, <1>3, RecordedNotices

\* One event after the other.
LEMMA NoticedOn ==
  ASSUME NEW s, NEW r, NEW q, NEW t, NEW M, NEW k, NEW l,
         Noticed(r, s, t, M, k), Noticed(q, r, t, M, l)
  PROVE  SesOK(q) /\ Continues(q, s, t, M) /\ k \in DOMAIN q /\ l \in DOMAIN q
  BY DEF Noticed, Continues

\* The rows of u stem from those of t, in keys of their own.
LEMMA UniqueMoved ==
  ASSUME NEW t \in Table, NEW k \in Key, NEW l \in Key, k # l, UniqueHolds(t)
  PROVE  UniqueHolds([t EXCEPT ![k] = Absent, ![l] = t[k]])
  <1> DEFINE u == [t EXCEPT ![k] = Absent, ![l] = t[k]]
  <1>1. \A x \in Key : u[x] = IF x = l THEN t[k] ELSE IF x = k THEN Absent ELSE t[x]
    BY DEF Table
  <1> HIDE DEF u
  <1>2. ASSUME NEW c \in unique, NEW x \in Key, NEW y \in Key,
               x # y, u[x] # Absent, u[y] # Absent, u[x][c] # Null
        PROVE  u[x][c] # u[y][c]
    <2>1. CASE x = l
      BY <1>1, <1>2, <2>1 DEF UniqueHolds
    <2>2. CASE y = l
      BY <1>1, <1>2, <2>2 DEF UniqueHolds
    <2>3. CASE x # l /\ y # l
      BY <1>1, <1>2, <2>3 DEF UniqueHolds
    <2> QED BY <2>1, <2>2, <2>3
  <1>3. UniqueHolds(u)
    BY <1>2 DEF UniqueHolds
  <1> QED BY <1>3 DEF u

\* What every statement does: it writes rows its session has entries of.
Written(n) ==
    /\ left[n] > 0 /\ left' = [left EXCEPT ![n] = @ - 1]
    /\ db' = [db EXCEPT ![n] = db'[n]] /\ db'[n] \in Table
    /\ UniqueHolds(db[n]) => UniqueHolds(db'[n])
    /\ ses' = [ses EXCEPT ![n] = ses'[n]] /\ SesOK(ses'[n])
    /\ Continues(ses'[n], ses[n], db[n], mislaid'[n])
    /\ \A k \in Key \ DOMAIN ses'[n] : db'[n][k] = db[n][k]
    /\ mislaid' \in [Node -> SUBSET Key] /\ mislaid[n] \subseteq mislaid'[n]
    /\ \A m \in Node : m # n => mislaid'[m] = mislaid[m]
    /\ UNCHANGED <<unique, base, txn, start, grp, cuts, stage, sent, ap, reb, asked>>

LEMMA StatementWrites ==
  ASSUME STypes, NEW n \in Node, NEW t \in Table, NEW s, Statement(n, t, s),
         SesOK(s), Continues(s, ses[n], db[n], mislaid'[n]),
         UniqueHolds(db[n]) => UniqueHolds(t),
         \A k \in Key \ DOMAIN s : t[k] = db[n][k],
         mislaid' \in [Node -> SUBSET Key], mislaid[n] \subseteq mislaid'[n],
         \A m \in Node : m # n => mislaid'[m] = mislaid[m]
  PROVE  Written(n)
  <1>1. db'[n] = t /\ ses'[n] = s
    BY DEF Statement, STypes
  <1> QED BY <1>1 DEF Written, Statement
LEMMA InsertWrites ==
  ASSUME STypes, NEW n \in Node, NEW k \in Key, NEW row \in Row, Insert(n, k, row)
  PROVE  Written(n)
  <1> DEFINE t == [db[n] EXCEPT ![k] = row]
             s == RecordInsert(ses[n], k)
  <1>1. Statement(n, t, s) /\ db[n][k] = Absent /\ UniqueHolds(t) /\ mislaid' = mislaid
    BY DEF Insert
  <1>2. db[n] \in Table /\ SesOK(ses[n])
    BY DEF STypes
  <1>3. t \in Table /\ \A x \in Key : x # k => t[x] = db[n][x]
    BY <1>2, SessionAssumption DEF Table
  <1>4. Noticed(s, ses[n], db[n], mislaid'[n], k)
    BY <1>1, <1>2, InsertNoticed
  <1> HIDE DEF s, t
  <1>5. mislaid' \in [Node -> SUBSET Key]
    BY <1>1 DEF STypes
  <1> QED BY <1>1, <1>3, <1>4, <1>5, StatementWrites DEF Noticed

LEMMA InsertOrReplaceWrites ==
  ASSUME STypes, NEW n \in Node, NEW k \in Key, NEW row \in Row, InsertOrReplace(n, k, row)
  PROVE  Written(n)
  <1> DEFINE t == [db[n] EXCEPT ![k] = row]
             r == RecordOne(ses[n], k, "DELETE", db[n][k])
             s == RecordInsert(r, k)
  <1>1. Statement(n, t, s) /\ db[n][k] # Absent /\ UniqueHolds(t) /\ mislaid' = mislaid
    BY DEF InsertOrReplace, RecordDelete
  <1>2. db[n] \in Table /\ SesOK(ses[n])
    BY DEF STypes
  <1>3. t \in Table /\ \A x \in Key : x # k => t[x] = db[n][x]
    BY <1>2, SessionAssumption DEF Table
  <1>4. Noticed(r, ses[n], db[n], mislaid'[n], k)
    BY <1>1, <1>2, RowNoticed
  <1> HIDE DEF r
  <1>5. Noticed(s, r, db[n], mislaid'[n], k)
    BY <1>4, InsertNoticed DEF Noticed
  <1> HIDE DEF s, t
  <1>6. mislaid' \in [Node -> SUBSET Key]
    BY <1>1 DEF STypes
  <1>7. SesOK(s) /\ Continues(s, ses[n], db[n], mislaid'[n]) /\ k \in DOMAIN s
    BY <1>4, <1>5, NoticedOn
  <1> QED BY <1>1, <1>3, <1>6, <1>7, StatementWrites

LEMMA DeleteWrites ==
  ASSUME STypes, NEW n \in Node, NEW k \in Key, Delete(n, k)
  PROVE  Written(n)
  <1> DEFINE t == [db[n] EXCEPT ![k] = Absent]
             s == RecordOne(ses[n], k, "DELETE", db[n][k])
  <1>1. Statement(n, t, s) /\ db[n][k] # Absent /\ mislaid' = mislaid
    BY DEF Delete, RecordDelete
  <1>2. db[n] \in Table /\ SesOK(ses[n])
    BY DEF STypes
  <1>3. t \in Table /\ t[k] = Absent /\ \A x \in Key : x # k => t[x] = db[n][x]
    BY <1>2 DEF Table
  <1>4. Noticed(s, ses[n], db[n], mislaid'[n], k)
    BY <1>1, <1>2, RowNoticed
  <1> HIDE DEF s, t
  <1>5. mislaid' \in [Node -> SUBSET Key]
    BY <1>1 DEF STypes
  <1>6. UniqueHolds(db[n]) => UniqueHolds(t)
    BY <1>3 DEF UniqueHolds
  <1> QED BY <1>1, <1>3, <1>4, <1>5, <1>6, StatementWrites DEF Noticed

\* An UPDATE's two events.
LEMMA UpdateNoticed ==
  ASSUME NEW s, SesOK(s), NEW k \in Key, NEW l \in Key, NEW t \in Table, NEW M, t[k] # Absent,
         l = k \/ l \in M \/ l \in DOMAIN s \/ t[l] = Absent, NEW row, row = t[k]
  PROVE  /\ SesOK(RecordUpdate(s, k, row, l)) /\ Continues(RecordUpdate(s, k, row, l), s, t, M)
         /\ k \in DOMAIN RecordUpdate(s, k, row, l) /\ l \in DOMAIN RecordUpdate(s, k, row, l)
  <1> DEFINE r == RecordOne(s, k, "UPDATE", t[k])
             q == RecordInsert(r, l)
  <1>1. Noticed(r, s, t, M, k)
    BY RowNoticed
  <1> HIDE DEF r
  <1>2. SesOK(r) /\ (l \in DOMAIN r \/ l \in M \/ t[l] = Absent)
    BY <1>1 DEF Noticed, Continues
  <1>3. Noticed(q, r, t, M, l)
    BY <1>2, InsertNoticed
  <1>4. q = RecordUpdate(s, k, row, l)
    BY DEF RecordUpdate, r
  <1> HIDE DEF q
  <1>5. SesOK(q) /\ Continues(q, s, t, M) /\ k \in DOMAIN q /\ l \in DOMAIN q
    BY <1>1, <1>3, NoticedOn
  <1> QED BY <1>4, <1>5

LEMMA UpdateWrites ==
  ASSUME STypes, NEW n \in Node, NEW k \in Key, NEW l \in Key, NEW row \in Row, Update(n, k, l, row)
  PROVE  Written(n)
  <1> DEFINE t == [db[n] EXCEPT ![k] = Absent, ![l] = row]
             s == RecordUpdate(ses[n], k, db[n][k], l)
  <1>1. /\ Statement(n, t, s) /\ db[n][k] # Absent /\ UniqueHolds(t) /\ mislaid' = mislaid
        /\ l = k \/ db[n][l] = Absent
    BY DEF Update
  <1>2. db[n] \in Table /\ SesOK(ses[n])
    BY DEF STypes
  <1>3. t \in Table /\ \A x \in Key : x # k /\ x # l => t[x] = db[n][x]
    BY <1>2, SessionAssumption DEF Table
  <1>4. SesOK(s) /\ Continues(s, ses[n], db[n], mislaid'[n]) /\ k \in DOMAIN s /\ l \in DOMAIN s
    BY <1>1, <1>2, UpdateNoticed
  <1> HIDE DEF s, t
  <1>5. mislaid' \in [Node -> SUBSET Key]
    BY <1>1 DEF STypes
  <1> QED BY <1>1, <1>3, <1>4, <1>5, StatementWrites

LEMMA MoveWrites ==
  ASSUME STypes, NEW n \in Node, NEW k \in Key, NEW l \in Key,
         MoveRefused(n, k, l) \/ MoveOrReplace(n, k, l)
  PROVE  Written(n)
  <1>1. db[n] \in Table /\ SesOK(ses[n]) /\ mislaid \in [Node -> SUBSET Key]
    BY DEF STypes
  <1> DEFINE u == [db[n] EXCEPT ![k] = Absent, ![l] = db[n][k]]
             s == RecordUpdate(ses[n], k, db[n][k], l)
  <1>2. PICK t \in {db[n], u} : MoveOnto(n, k, l, t)
    BY DEF MoveRefused, MoveOrReplace
  <1>3. /\ k # l /\ db[n][k] # Absent /\ db[n][l] # Absent /\ Statement(n, t, s)
        /\ mislaid' = [mislaid EXCEPT ![n] = @ \cup ({l} \ DOMAIN ses[n])]
    BY <1>2 DEF MoveOnto
  <1>4. u \in Table /\ \A x \in Key : x # k /\ x # l => u[x] = db[n][x]
    BY <1>1 DEF Table
  <1>5. /\ mislaid' \in [Node -> SUBSET Key] /\ mislaid[n] \subseteq mislaid'[n]
        /\ \A m \in Node : m # n => mislaid'[m] = mislaid[m]
        /\ l \in DOMAIN ses[n] \/ l \in mislaid'[n]
    BY <1>1, <1>3
  <1>6. SesOK(s) /\ Continues(s, ses[n], db[n], mislaid'[n]) /\ k \in DOMAIN s /\ l \in DOMAIN s
    BY <1>1, <1>3, <1>5, UpdateNoticed
  <1>7. UniqueHolds(db[n]) => UniqueHolds(u)
    BY <1>1, <1>3, UniqueMoved
  <1> HIDE DEF s, u
  <1>8. t \in Table /\ (UniqueHolds(db[n]) => UniqueHolds(t)) /\ \A x \in Key \ DOMAIN s : t[x] = db[n][x]
    BY <1>1, <1>4, <1>6, <1>7
  <1> QED BY <1>3, <1>5, <1>6, <1>8, StatementWrites
-----------------------------------------------------------------------------
(* The types of the state are kept.                                        *)

\* The part of the state that an apply changes.
Types1 ==
    /\ unique \in Uniques /\ base \in Table
    /\ start \in [Node -> Table] /\ txn \in [Node -> Table \cup {Absent}]
    /\ DOMAIN ses = Node /\ DOMAIN grp = Node /\ DOMAIN sent = Node
    /\ \A n \in Node : SesOK(ses[n]) /\ CsOK(grp[n]) /\ CsOK(sent[n])
    /\ mislaid \in [Node -> SUBSET Key] /\ left \in [Node -> Nat] /\ cuts \in 0 .. MaxCuts
Types2 ==
    /\ db \in [Node -> Table]
    /\ stage \in {"work", "applied", "undone", "returned", "failed"}
    /\ asked \subseteq Key \X {"omit", "replace"}
    /\ RebOK(reb) /\ ApOK(ap)
    /\ stage \in {"work", "failed"} => ~Applying
    /\ stage = "applied" /\ Applying => \A k \in DOMAIN ap.todo : k \notin DOMAIN reb
    /\ stage = "work" => DOMAIN reb = {} /\ asked = {}

LEMMA TypesSplit ==
  /\ STypes <=> Types1 /\ Types2
  /\ STypes' <=> Types1' /\ Types2'
  BY DEF STypes, Types1, Types2

\* Nothing is empty.
LEMMA Empty ==
  /\ SesOK(<<>>) /\ CsOK(<<>>) /\ RebOK(<<>>) /\ DOMAIN <<>> = {}
  /\ ApOK(Resting) /\ Resting.to = "nobody"
  <1>1. SesOK(<<>>) /\ CsOK(<<>>) /\ RebOK(<<>>) /\ DOMAIN <<>> = {}
    BY DEF SesOK, CsOK, RebOK
  <1>2. ApOK(Resting) /\ Resting.to = "nobody"
    BY DEF ApOK, ApShape, Resting
  <1> QED BY <1>1, <1>2

LEMMA WrittenTypes ==
  ASSUME STypes, NEW n \in Node, Written(n)
  PROVE  STypes'
  <1>1. Types1 /\ Types2
    BY TypesSplit
  <1>2. Types2'
    <2>1. db' \in [Node -> Table]
      BY <1>1 DEF Types2, Written
    <2> QED BY <1>1, <2>1 DEF Types2, Written, Applying
  <1>3. Types1'
    <2>1. left' \in [Node -> Nat]
      BY <1>1 DEF Types1, Written
    <2>2. DOMAIN ses' = Node /\ \A m \in Node : SesOK(ses'[m])
      BY <1>1 DEF Types1, Written
    <2>3. mislaid' \in [Node -> SUBSET Key]
      BY DEF Written
    <2>4. UNCHANGED <<unique, base, txn, start, grp, cuts, sent>>
      BY DEF Written
    <2> QED BY <1>1, <2>1, <2>2, <2>3, <2>4 DEF Types1
  <1> QED BY <1>2, <1>3, TypesSplit

\* The transactions and the sessions of a node.
LEMMA SessionTypes ==
  ASSUME STypes, NEW n \in Node, Begin(n) \/ Commit(n) \/ Rollback(n) \/ Cut(n)
  PROVE  STypes'
  <1>1. Types1 /\ Types2
    BY TypesSplit
  <1>2. UNCHANGED <<unique, base, mislaid, left, stage, sent, ap, reb, asked>>
    BY DEF Begin, Commit, Rollback, Cut
  <1>3. Types2'
    <2>1. db' \in [Node -> Table]
      BY <1>1 DEF Types1, Types2, Begin, Commit, Rollback, Cut
    <2> QED BY <1>1, <1>2, <2>1 DEF Types2, Applying
  <1>4. Types1'
    <2>1. CASE Begin(n) \/ Commit(n) \/ Rollback(n)
      <3>1. UNCHANGED <<start, ses, grp, cuts>>
        BY <2>1 DEF Begin, Commit, Rollback
      <3>2. txn' \in [Node -> Table \cup {Absent}]
        BY <1>1, <2>1 DEF Types1, Types2, Begin, Commit, Rollback
      <3> QED BY <1>1, <1>2, <3>1, <3>2 DEF Types1
    <2>2. CASE Cut(n)
      <3>1. txn' = txn /\ cuts' \in 0 .. MaxCuts
        <4>1. txn' = txn /\ cuts' = cuts - 1 /\ cuts > 0
          BY <2>2 DEF Cut
        <4>2. cuts \in 0 .. MaxCuts /\ MaxCuts \in Nat
          BY <1>1, SessionAssumption DEF Types1
        <4> QED BY <4>1, <4>2
      <3>2. start' \in [Node -> Table]
        BY <1>1, <2>2 DEF Cut, Types1, Types2
      <3>3. DOMAIN ses' = Node /\ \A m \in Node : SesOK(ses'[m])
        BY <1>1, <2>2, Empty DEF Cut, Types1
      <3>4. CsOK(Changeset(n))
        BY ChangesetType
      <3>5. DOMAIN grp' = Node /\ \A m \in Node : CsOK(grp'[m])
        BY <1>1, <2>2, <3>4 DEF Cut, Types1
      <3> QED BY <1>1, <1>2, <3>1, <3>2, <3>3, <3>5 DEF Types1
    <2> QED BY <2>1, <2>2
  <1> QED BY <1>3, <1>4, TypesSplit

\* An apply starts with a changeset that can be applied.
LEMMA StartTypes ==
  ASSUME STypes, NEW n \in Node, NEW cs, \A k \in DOMAIN cs : k \in Key /\ cs[k] \in Doable,
         StartApply(n, cs)
  PROVE  ApOK(ap') /\ ap'.to = n /\ ap'.todo = cs
  <1>1. ap' = [to |-> n, save |-> db[n], todo |-> cs, queue |-> <<>>, constraints |-> <<>>,
               before |-> 0, defer |-> TRUE]
    BY DEF StartApply
  <1>2. ap'.to = n /\ ap'.todo = cs /\ ap'.save = db[n] /\ ap'.queue = <<>> /\ ap'.constraints = <<>>
        /\ ap'.before = 0 /\ ap'.defer = TRUE
    BY <1>1
  <1>3. db[n] \in Table
    BY DEF STypes
  <1>4. <<>> \in Seq(Waiting)
    OBVIOUS
  <1>5. Apart(ap')
    BY <1>2 DEF Apart
  <1>6. ap' = [to |-> ap'.to, save |-> ap'.save, todo |-> ap'.todo, queue |-> ap'.queue,
               constraints |-> ap'.constraints, before |-> ap'.before, defer |-> ap'.defer]
    BY <1>1, <1>2
  <1>7. ApOK(ap')
    <2>1. ApShape(ap')
      BY <1>2, <1>6 DEF ApShape
    <2>2. ApData(ap')
      BY <1>2, <1>3, <1>4 DEF ApData
    <2>3. ApCount(ap')
      <3>1. ap'.before \in Nat
        BY <1>1
      <3>2. ap'.defer \in BOOLEAN
        BY <1>1, Zenon
      <3> QED BY <3>1, <3>2 DEF ApCount
    <2> QED BY <1>5, <2>1, <2>2, <2>3 DEF ApOK
  <1> QED BY <1>2, <1>7
\* generate has no empty change, rebase none either.
LEMMA RebaseType ==
  ASSUME NEW cs, CsOK(cs), NEW r, RebOK(r), NEW k \in DOMAIN Rebase(cs, r)
  PROVE  k \in DOMAIN cs /\ k \in Key /\ Rebase(cs, r)[k] \in Doable
  <1> DEFINE f == [x \in DOMAIN cs |-> IF x \in DOMAIN r THEN RebaseOne(cs[x], r[x]) ELSE cs[x]]
             y == Rebase(cs, r)[k]
  <1>1. k \in DOMAIN cs /\ f[k] # Absent /\ y = f[k]
    <2>1. Rebase(cs, r) = [x \in {z \in DOMAIN f : f[z] # Absent} |-> f[x]]
      BY DEF Rebase, Present, Restrict
    <2> QED BY <2>1
  <1>2. k \in Key /\ cs[k] \in Plain /\ cs[k].op \in Op /\ cs[k].old \in Record /\ cs[k].new \in Record
        /\ (cs[k].op = "INSERT" => cs[k].new \in [Col -> Val])
        /\ (cs[k].op = "DELETE" => cs[k].old \in [Col -> Val])
    BY <1>1, PlainFacts DEF CsOK, Plain
  <1>3. CASE k \notin DOMAIN r
    BY <1>1, <1>2, <1>3, PlainFacts
  <1>4. CASE k \in DOMAIN r
    <2> SUFFICES y \in Doable
      BY <1>1, <1>2
    <2> HIDE DEF y
    <2> DEFINE ch == cs[k]
               e == r[k]
    <2>1. /\ e.op \in {"INSERT", "DELETE"} /\ e.rec \in Record
          /\ e.op = "DELETE" => e.rec \in [Col -> Val]
      BY <1>4 DEF RebOK
    <2>2. y = RebaseOne(ch, e)
      BY <1>1, <1>4
    <2>3. ch.op \in {"INSERT", "UPDATE", "DELETE"}
      BY <1>2 DEF Op
    <2>4. CASE ch.op = "INSERT" /\ e.op = "INSERT"
      <3>1. y = Change("UPDATE", e.rec, ch.new)
        BY <1>1, <2>2, <2>4 DEF RebaseOne
      <3> QED BY <1>2, <2>1, <3>1 DEF Change, Doable, Changes, Op
    <2>5. CASE ch.op = "INSERT" /\ e.op = "DELETE"
      <3>1. y = ch
        BY <2>2, <2>5 DEF RebaseOne
      <3> QED BY <1>2, <3>1, PlainFacts
    <2>6. CASE ch.op = "UPDATE" /\ e.op = "DELETE"
      <3>1. y = Change("INSERT", NoRecord, FilledFrom(ch.new, e.rec))
        BY <1>1, <2>2, <2>6 DEF RebaseOne
      <3>2. FilledFrom(ch.new, e.rec) \in [Col -> Val]
        BY <1>2, <2>1, <2>6 DEF FilledFrom, Record
      <3> QED BY <3>1, <3>2, Kinds DEF Change, Doable, Changes, Op
    <2>7. CASE ch.op = "UPDATE" /\ e.op = "INSERT"
      <3>1. y = PartialUpdate(ch, e.rec)
        BY <2>2, <2>7 DEF RebaseOne
      <3>2. \E o, n \in Record : y = Change("UPDATE", o, n)
        <4> DEFINE o == [c \in Col |-> IF e.rec[c] = Undef THEN ch.old[c]
                                       ELSE IF e.rec[c] # Replaced /\ ch.old[c] # Undef THEN e.rec[c]
                                       ELSE Undef]
                   n == [c \in Col |-> IF e.rec[c] # Replaced THEN ch.new[c] ELSE Undef]
        <4>1. o \in Record /\ n \in Record
          BY <1>2, <2>1 DEF Record
        <4>2. y = Change("UPDATE", o, n)
          BY <1>1, <3>1 DEF PartialUpdate
        <4> QED BY <4>1, <4>2
      <3> QED BY <3>2 DEF Change, Doable, Changes, Op
    <2>8. CASE ch.op = "DELETE" /\ e.op = "INSERT"
      <3>1. y = Change("DELETE", FilledFrom(e.rec, ch.old), NoRecord)
        BY <2>2, <2>8 DEF RebaseOne
      <3>2. FilledFrom(e.rec, ch.old) \in [Col -> Val]
        BY <1>2, <2>1, <2>8 DEF FilledFrom, Record
      <3> QED BY <3>1, <3>2, Kinds DEF Change, Doable, Changes, Op
    <2>9. ~(ch.op = "DELETE" /\ e.op = "DELETE")
      BY <1>1, <2>2 DEF RebaseOne
    <2> HIDE DEF ch, e
    <2> QED BY <2>1, <2>3, <2>4, <2>5, <2>6, <2>7, <2>8, <2>9
  <1> QED BY <1>1, <1>2, <1>3, <1>4

\* The rest of an exchange starts.
LEMMA ExchangeTypes ==
  ASSUME STypes, Deliver \/ Undo \/ Return
  PROVE  STypes'
  <1>0. Types1 /\ Types2
    BY TypesSplit
  <1>1. CASE Deliver
    <2>1. \A n \in Node : CsOK(Changeset(n))
      BY ChangesetType
    <2>2. /\ ApOK(ap') /\ ap'.to = "local" /\ DOMAIN ap'.todo = DOMAIN Changeset("remote")
      <3>1. \A k \in DOMAIN Changeset("remote") : k \in Key /\ Changeset("remote")[k] \in Doable
        BY <2>1, PlainFacts DEF CsOK, Node
      <3>2. StartApply("local", Changeset("remote"))
        BY <1>1 DEF Deliver
      <3>3. "local" \in Node
        BY DEF Node
      <3> HIDE DEF Changeset
      <3> QED BY <3>1, <3>2, <3>3, StartTypes
    <2>3. stage = "work" /\ stage' = "applied" /\ UNCHANGED <<unique, base, db, txn, mislaid, reb, asked>>
      BY <1>1 DEF Deliver
    <2>4. Types2'
      BY <1>0, <2>2, <2>3 DEF Types2, Applying
    <2>5. start' \in [Node -> Table] /\ left' \in [Node -> Nat] /\ cuts' \in 0 .. MaxCuts
      <3>1. start' \in [Node -> Table]
        BY <1>0, <1>1 DEF Deliver, Types1
      <3>2. left' \in [Node -> Nat]
        BY <1>1 DEF Deliver
      <3>3. cuts' \in 0 .. MaxCuts
        BY <1>1, SessionAssumption DEF Deliver
      <3> QED BY <3>1, <3>2, <3>3
    <2>6. /\ DOMAIN ses' = Node /\ DOMAIN grp' = Node /\ DOMAIN sent' = Node
          /\ \A n \in Node : ses'[n] = <<>> /\ grp'[n] = <<>> /\ sent'[n] = Changeset(n)
      BY <1>1 DEF Deliver
    <2>7. \A n \in Node : SesOK(ses'[n]) /\ CsOK(grp'[n]) /\ CsOK(sent'[n])
      BY <2>1, <2>6, Empty
    <2>8. Types1'
      BY <1>0, <2>3, <2>5, <2>6, <2>7 DEF Types1
    <2> QED BY <2>4, <2>8, TypesSplit
  <1>2. ASSUME Undo \/ Return
        PROVE  ApOK(ap') /\ ap'.to # "nobody"
    <2>1. "local" \in Node /\ "remote" \in Node
      BY DEF Node
    <2>2. CASE Undo
      <3>1. CsOK(Invert(sent["remote"]))
        BY <1>0, <2>1, InvertType DEF Types1
      <3>2. \A k \in DOMAIN Invert(sent["remote"]) : k \in Key /\ Invert(sent["remote"])[k] \in Doable
        BY <3>1, PlainFacts DEF CsOK
      <3>3. StartApply("local", Invert(sent["remote"]))
        BY <2>2 DEF Undo
      <3> QED BY <2>1, <3>2, <3>3, StartTypes
    <2>3. CASE Return
      <3>1. CsOK(sent["local"]) /\ RebOK(reb)
        BY <1>0, <2>1 DEF Types1, Types2
      <3>2. \A k \in DOMAIN Rebase(sent["local"], reb) :
               k \in Key /\ Rebase(sent["local"], reb)[k] \in Doable
        BY <3>1, RebaseType
      <3>3. StartApply("remote", Rebase(sent["local"], reb))
        BY <2>3 DEF Return
      <3> QED BY <2>1, <3>2, <3>3, StartTypes
    <2> QED BY <1>2, <2>2, <2>3
  <1>3. CASE Undo \/ Return
    <2>1. /\ stage = "applied" /\ stage' \in {"undone", "returned"} /\ UNCHANGED <<db, reb, asked>>
          /\ UNCHANGED Elsewhere
      BY <1>3 DEF Undo, Return
    <2>2. Types2'
      BY <1>0, <1>2, <1>3, <2>1 DEF Types2, Applying
    <2>3. Types1'
      BY <1>0, <2>1 DEF Types1, Elsewhere
    <2> QED BY <2>2, <2>3, TypesSplit
  <1> QED BY <1>1, <1>3
-----------------------------------------------------------------------------
(* The apply under way.                                                    *)

\* The elements of a queue, and the changes an apply has still to make.
Parts(q) == {q[i] : i \in 1 .. Len(q)}
Pending(a) == {<<k, a.todo[k]>> : k \in DOMAIN a.todo} \cup Parts(a.queue) \cup Parts(a.constraints)

LEMMA Ends ==
  ASSUME NEW S, NEW q \in Seq(S)
  PROVE  /\ q # <<>> => /\ Head(q) = q[1] /\ Tail(q) \in Seq(S) /\ Len(Tail(q)) = Len(q) - 1
                        /\ 1 \in 1 .. Len(q) /\ q[1] \in S
                        /\ \A i \in 1 .. Len(q) - 1 : Tail(q)[i] = q[i + 1]
         /\ \A x \in S : /\ Append(q, x) \in Seq(S) /\ Len(Append(q, x)) = Len(q) + 1
                         /\ Append(q, x)[Len(q) + 1] = x
                         /\ \A i \in 1 .. Len(q) : Append(q, x)[i] = q[i]
         /\ Len(q) \in Nat /\ \A i \in 1 .. Len(q) : q[i] \in S
  OBVIOUS

LEMMA EndParts ==
  ASSUME NEW S, NEW q \in Seq(S)
  PROVE  /\ q # <<>> => Parts(q) = {q[1]} \cup Parts(Tail(q))
         /\ \A x \in S : Parts(Append(q, x)) = Parts(q) \cup {x}
         /\ Parts(q) \subseteq S /\ (Parts(q) = {} <=> q = <<>>)
  <1>1. q # <<>> => Parts(q) = {q[1]} \cup Parts(Tail(q))
    <2>1. SUFFICES ASSUME q # <<>>, NEW x PROVE x \in Parts(q) <=> x = q[1] \/ x \in Parts(Tail(q))
      BY Zenon
    <2>2. /\ Len(Tail(q)) = Len(q) - 1 /\ Len(q) \in Nat /\ Len(q) >= 1
          /\ \A i \in 1 .. Len(q) - 1 : Tail(q)[i] = q[i + 1]
      BY <2>1, Ends
    <2>3. ASSUME NEW i \in 1 .. Len(q) PROVE i = 1 \/ (i - 1 \in 1 .. Len(q) - 1 /\ q[i] = Tail(q)[i - 1])
      BY <2>2
    <2>4. ASSUME NEW i \in 1 .. Len(Tail(q)) PROVE i + 1 \in 1 .. Len(q) /\ q[i + 1] = Tail(q)[i]
      BY <2>2
    <2>5. 1 \in 1 .. Len(q)
      BY <2>2
    <2>6. ASSUME x \in Parts(q) PROVE x = q[1] \/ x \in Parts(Tail(q))
      BY <2>2, <2>3, <2>6 DEF Parts
    <2>7. ASSUME x = q[1] \/ x \in Parts(Tail(q)) PROVE x \in Parts(q)
      BY <2>4, <2>5, <2>7 DEF Parts
    <2> QED BY <2>6, <2>7
  <1>2. ASSUME NEW x \in S PROVE Parts(Append(q, x)) = Parts(q) \cup {x}
    <2> DEFINE r == Append(q, x)
    <2>1. /\ Len(r) = Len(q) + 1 /\ r[Len(q) + 1] = x /\ \A i \in 1 .. Len(q) : r[i] = q[i]
          /\ Len(q) \in Nat
      BY Ends
    <2> HIDE DEF r
    <2>2. 1 .. Len(r) = (1 .. Len(q)) \cup {Len(q) + 1}
      BY <2>1
    <2>3. Parts(r) = Parts(q) \cup {x}
      BY <2>1, <2>2 DEF Parts
    <2> QED BY <2>3 DEF r
  <1>3. Parts(q) \subseteq S /\ (Parts(q) = {} <=> q = <<>>)
    BY Ends DEF Parts
  <1> QED BY <1>1, <1>2, <1>3

\* The change in hand, and where it comes from.
HandOf(k, ch) ==
    /\ k \in Key /\ ch \in Doable
    /\ \/ ap.queue = <<>> /\ k \in DOMAIN ap.todo /\ ch = ap.todo[k]
       \/ ap.queue # <<>> /\ ap.queue[1] = <<k, ch>> /\ DOMAIN ap.todo = {} /\ ch.op = "INSERT"

LEMMA InHandIs ==
  ASSUME ApOK(ap), Applying, NEW i \in InHand
  PROVE  HandOf(i[1], i[2])
  <1>1. ApData(ap) /\ Apart(ap)
    BY DEF ApOK, Applying
  <1>2. CASE ap.queue = <<>>
    <2>1. PICK k \in DOMAIN ap.todo : i = <<k, ap.todo[k]>>
      BY <1>2 DEF InHand
    <2>2. k \in Key /\ ap.todo[k] \in Doable /\ i[1] = k /\ i[2] = ap.todo[k]
      BY <1>1, <2>1 DEF ApData
    <2> QED BY <1>2, <2>2 DEF HandOf
  <1>3. CASE ap.queue # <<>>
    <2>1. i = ap.queue[1] /\ i \in Waiting
      BY <1>1, <1>3, Ends DEF InHand, ApData
    <2>2. i = <<i[1], i[2]>> /\ i[1] \in Key /\ i[2] \in Doable /\ i[2].op = "INSERT"
      BY <2>1 DEF Waiting
    <2>3. DOMAIN ap.todo = {}
      BY <1>1, <1>3 DEF Apart
    <2> QED BY <1>3, <2>1, <2>2, <2>3 DEF HandOf
  <1> QED BY <1>2, <1>3

\* What becomes of the apply when its change in hand is done with.
LEMMA ConsumedIs ==
  ASSUME ApOK(ap), Applying, NEW k, NEW ch, HandOf(k, ch), NEW a, a = Consumed(k)
  PROVE  /\ a = [to |-> ap.to, save |-> ap.save, todo |-> a.todo, queue |-> a.queue,
                 constraints |-> ap.constraints, before |-> ap.before, defer |-> ap.defer]
         /\ DOMAIN a.todo = DOMAIN ap.todo \ {k} /\ \A x \in DOMAIN a.todo : a.todo[x] = ap.todo[x]
         /\ a.queue = IF ap.queue = <<>> THEN <<>> ELSE Tail(ap.queue)
  <1>1. ap = [to |-> ap.to, save |-> ap.save, todo |-> ap.todo, queue |-> ap.queue,
              constraints |-> ap.constraints, before |-> ap.before, defer |-> ap.defer]
    BY DEF ApOK, ApShape
  <1> DEFINE m == Restrict(ap.todo, DOMAIN ap.todo \ {k})
             q == IF ap.queue = <<>> THEN ap.queue ELSE Tail(ap.queue)
  <1>2. a = [to |-> ap.to, save |-> ap.save, todo |-> m, queue |-> q,
             constraints |-> ap.constraints, before |-> ap.before, defer |-> ap.defer]
    BY <1>1 DEF Consumed
  <1>3. DOMAIN m = DOMAIN ap.todo \ {k} /\ \A x \in DOMAIN m : m[x] = ap.todo[x]
    BY DEF Restrict
  <1> HIDE DEF m, q
  <1>4. a.todo = m /\ a.queue = q
    BY <1>2
  <1> QED BY <1>2, <1>3, <1>4 DEF q
\* The key in hand is nowhere else.
LEMMA HandApart ==
  ASSUME ApOK(ap), Applying, NEW k, NEW ch, HandOf(k, ch), NEW a, a = Consumed(k)
  PROVE  /\ ApOK(a) /\ a.to = ap.to /\ a.save = ap.save /\ a.before = ap.before /\ a.defer = ap.defer
         /\ k \notin DOMAIN a.todo
         /\ \A i \in 1 .. Len(a.queue) : a.queue[i][1] # k
         /\ \A i \in 1 .. Len(a.constraints) : a.constraints[i][1] # k
  <1>1. ApShape(ap) /\ ApData(ap) /\ ApCount(ap) /\ Apart(ap)
    BY DEF ApOK, Applying
  <1>2. /\ a = [to |-> ap.to, save |-> ap.save, todo |-> a.todo, queue |-> a.queue,
                constraints |-> ap.constraints, before |-> ap.before, defer |-> ap.defer]
        /\ DOMAIN a.todo = DOMAIN ap.todo \ {k} /\ \A x \in DOMAIN a.todo : a.todo[x] = ap.todo[x]
        /\ a.queue = IF ap.queue = <<>> THEN <<>> ELSE Tail(ap.queue)
    BY ConsumedIs
  <1>3. a.to = ap.to /\ a.save = ap.save /\ a.constraints = ap.constraints /\ a.before = ap.before
        /\ a.defer = ap.defer
    BY <1>2
  <1>4. ApShape(a)
    BY <1>1, <1>2, <1>3 DEF ApShape
  <1>5. ap.queue # <<>> => /\ Tail(ap.queue) \in Seq(Waiting) /\ Len(ap.queue) \in Nat /\ Len(ap.queue) >= 1
                           /\ Len(a.queue) = Len(ap.queue) - 1
                           /\ \A i \in 1 .. Len(ap.queue) - 1 : a.queue[i] = ap.queue[i + 1]
    BY <1>1, <1>2, Ends DEF ApData
  <1>6. a.queue \in Seq(Waiting)
    BY <1>2, <1>5
  <1>7. ApData(a)
    BY <1>1, <1>2, <1>3, <1>6 DEF ApData
  <1>8. ApCount(a)
    BY <1>1, <1>3 DEF ApCount
  <1>9. k \notin DOMAIN a.todo
    BY <1>2
  <1>10. \A i \in 1 .. Len(ap.constraints) : ap.constraints[i][1] # k
    <2>1. CASE ap.queue = <<>>
      BY <1>1, <2>1 DEF Apart, HandOf
    <2>2. CASE ap.queue # <<>>
      <3>1. ap.queue[1] = <<k, ch>> /\ 1 \in 1 .. Len(ap.queue)
        BY <1>5, <2>2 DEF HandOf
      <3>2. ap.queue[1][1] = k
        BY <3>1
      <3> QED BY <1>1, <3>1, <3>2 DEF Apart
    <2> QED BY <2>1, <2>2
  <1>11. ap.queue = <<>> => a.queue = <<>> /\ Len(a.queue) = 0
    BY <1>2
  <1>12. ASSUME NEW i \in 1 .. Len(a.queue)
         PROVE  /\ ap.queue # <<>> /\ i + 1 \in 1 .. Len(ap.queue) /\ a.queue[i] = ap.queue[i + 1]
                /\ i \in Nat
    BY <1>5, <1>11
  <1>13. ASSUME NEW i \in 1 .. Len(a.queue) PROVE a.queue[i][1] # k
    <2>1. ap.queue[1] = <<k, ch>> /\ 1 \in 1 .. Len(ap.queue)
      BY <1>5, <1>12 DEF HandOf
    <2>2. ap.queue[1][1] = k
      BY <2>1
    <2>3. ap.queue[i + 1][1] = k => i + 1 = 1
      BY <1>1, <1>12, <2>1, <2>2 DEF Apart
    <2> QED BY <1>12, <2>3
  <1>14. Apart(a)
    <2>1. ASSUME NEW i \in 1 .. Len(a.queue), NEW j \in 1 .. Len(a.queue), a.queue[i][1] = a.queue[j][1]
          PROVE  i = j
      <3>0. /\ i + 1 \in 1 .. Len(ap.queue) /\ j + 1 \in 1 .. Len(ap.queue)
            /\ ap.queue[i + 1][1] = ap.queue[j + 1][1]
        <4>1. a.queue[i] = ap.queue[i + 1] /\ i + 1 \in 1 .. Len(ap.queue)
          BY <1>12
        <4>2. a.queue[j] = ap.queue[j + 1] /\ j + 1 \in 1 .. Len(ap.queue)
          BY <1>12
        <4> QED BY <2>1, <4>1, <4>2
      <3>1. i + 1 = j + 1
        BY <1>1, <3>0 DEF Apart
      <3> QED BY <1>12, <3>1
    <2>2. ASSUME NEW i \in 1 .. Len(a.queue), NEW j \in 1 .. Len(a.constraints)
          PROVE  a.queue[i][1] # a.constraints[j][1]
      BY <1>1, <1>3, <1>12 DEF Apart
    <2>3. \A i \in 1 .. Len(a.queue) : a.queue[i][1] \notin DOMAIN a.todo
      BY <1>1, <1>2, <1>12 DEF Apart
    <2>4. a.queue # <<>> => DOMAIN a.todo = {}
      BY <1>1, <1>2, <1>11 DEF Apart
    <2> QED BY <1>1, <1>2, <1>3, <2>1, <2>2, <2>3, <2>4 DEF Apart
  <1> QED BY <1>3, <1>4, <1>7, <1>8, <1>9, <1>10, <1>13, <1>14 DEF ApOK

\* What an apply is when the change in hand waits.
Buffered(b, k, ch) ==
    /\ ApOK(b) /\ b.to = ap.to /\ b.save = ap.save /\ b.before = ap.before /\ b.defer = ap.defer
    /\ b.todo = Consumed(k).todo /\ b.queue = Consumed(k).queue
    /\ b.constraints = Append(ap.constraints, <<k, ch>>)

\* Its change waits.
LEMMA BufferedIs ==
  ASSUME ApOK(ap), Applying, NEW k, NEW ch, HandOf(k, ch), ch.op = "INSERT",
         NEW b, b = [Consumed(k) EXCEPT !.constraints = Append(@, <<k, ch>>)]
  PROVE  Buffered(b, k, ch)
  <1> DEFINE a == Consumed(k)
  <1>1. /\ a = [to |-> ap.to, save |-> ap.save, todo |-> a.todo, queue |-> a.queue,
                constraints |-> ap.constraints, before |-> ap.before, defer |-> ap.defer]
    BY ConsumedIs
  <1>2. /\ ApOK(a) /\ a.to = ap.to /\ k \notin DOMAIN a.todo
        /\ \A i \in 1 .. Len(a.queue) : a.queue[i][1] # k
        /\ \A i \in 1 .. Len(a.constraints) : a.constraints[i][1] # k
    BY HandApart
  <1>3. b = [a EXCEPT !.constraints = Append(@, <<k, ch>>)]
    OBVIOUS
  <1> HIDE DEF a
  <1>4. ApShape(a) /\ ApData(a) /\ ApCount(a) /\ Apart(a)
    BY <1>2 DEF ApOK, Applying
  <1>5. b = [to |-> ap.to, save |-> ap.save, todo |-> a.todo, queue |-> a.queue,
             constraints |-> Append(ap.constraints, <<k, ch>>), before |-> ap.before, defer |-> ap.defer]
    <2> DEFINE x == Append(ap.constraints, <<k, ch>>)
               m == a.todo
               q == a.queue
    <2>1. a.constraints = ap.constraints
      BY <1>1
    <2>2. b = [a EXCEPT !.constraints = x]
      BY <1>3, <2>1
    <2>3. a = [to |-> ap.to, save |-> ap.save, todo |-> m, queue |-> q,
               constraints |-> ap.constraints, before |-> ap.before, defer |-> ap.defer]
      BY <1>1
    <2> HIDE DEF x, m, q
    <2>4. b = [to |-> ap.to, save |-> ap.save, todo |-> m, queue |-> q,
               constraints |-> x, before |-> ap.before, defer |-> ap.defer]
      BY <2>2, <2>3
    <2> QED BY <2>4 DEF x, m, q
  <1>6. /\ b.to = ap.to /\ b.save = ap.save /\ b.before = ap.before /\ b.defer = ap.defer
        /\ b.todo = a.todo /\ b.queue = a.queue /\ b.constraints = Append(ap.constraints, <<k, ch>>)
    BY <1>5
  <1>7. /\ a.save = ap.save /\ a.before = ap.before /\ a.defer = ap.defer /\ a.constraints = ap.constraints
    BY <1>1
  <1>8. <<k, ch>> \in Waiting
    BY DEF HandOf, Waiting
  <1> DEFINE q == ap.constraints
             r == Append(ap.constraints, <<k, ch>>)
  <1>9. /\ q \in Seq(Waiting) /\ r \in Seq(Waiting) /\ Len(r) = Len(q) + 1 /\ r[Len(q) + 1] = <<k, ch>>
        /\ \A i \in 1 .. Len(q) : r[i] = q[i]
        /\ Len(q) \in Nat
    BY <1>4, <1>7, <1>8, Ends DEF ApData
  <1> HIDE DEF r, q
  <1>10. ApShape(b)
    BY <1>2, <1>4, <1>5, <1>6 DEF ApShape
  <1>11. ApData(b)
    BY <1>4, <1>6, <1>7, <1>9 DEF ApData, r
  <1>12. ApCount(b)
    BY <1>4, <1>6, <1>7 DEF ApCount
  <1>13. ASSUME NEW i \in 1 .. Len(r)
         PROVE  \/ i = Len(q) + 1 /\ r[i][1] = k
                \/ i \in 1 .. Len(q) /\ r[i][1] = q[i][1] /\ q[i][1] # k
    <2>1. CASE i = Len(q) + 1
      BY <1>9, <2>1
    <2>2. CASE i # Len(q) + 1
      <3>1. i \in 1 .. Len(q)
        BY <1>9, <2>2
      <3> QED BY <1>2, <1>7, <1>9, <3>1 DEF q
    <2> QED BY <2>1, <2>2
  <1>14. Apart(b)
    <2>0. b.constraints = r /\ a.constraints = q
      BY <1>6, <1>7 DEF r, q
    <2>1. ASSUME NEW i \in 1 .. Len(r), NEW j \in 1 .. Len(r), r[i][1] = r[j][1]
          PROVE  i = j
      BY <1>4, <1>13, <2>0, <2>1 DEF Apart
    <2>2. ASSUME NEW i \in 1 .. Len(b.queue), NEW j \in 1 .. Len(r)
          PROVE  b.queue[i][1] # r[j][1]
      BY <1>2, <1>4, <1>6, <1>13, <2>0 DEF Apart
    <2>3. \A i \in 1 .. Len(r) : r[i][1] \notin DOMAIN b.todo
      BY <1>2, <1>4, <1>6, <1>13, <2>0 DEF Apart
    <2> QED BY <1>4, <1>6, <2>0, <2>1, <2>2, <2>3 DEF Apart
  <1>15. ApOK(b)
    BY <1>10, <1>11, <1>12, <1>14 DEF ApOK
  <1> QED BY <1>6, <1>15 DEF Buffered, a

\* One attempt at a change.
LEMMA OneOpType ==
  ASSUME NEW t \in Table, NEW k \in Key, NEW ch \in Doable, NEW v \in BOOLEAN
  PROVE  /\ ApplyOneOp(t, k, ch, v).table \in Table
         /\ ApplyOneOp(t, k, ch, v).kind \in {"done", "conflict", "error"}
         /\ ApplyOneOp(t, k, ch, v).kind # "done" => ApplyOneOp(t, k, ch, v).table = t
  <1> DEFINE r == ApplyOneOp(t, k, ch, v)
  <1>1. ch.op \in {"INSERT", "UPDATE", "DELETE"} /\ ch.new \in Record /\ (ch.op = "INSERT" => ch.new \in [Col -> Val])
    BY DEF Doable, Changes, Op
  <1>2. CASE ch.op = "DELETE"
    <2> DEFINE u == [t EXCEPT ![k] = Absent]
    <2>1. u \in Table
      BY DEF Table
    <2>2. r \in {Done(u), ConflictAt(t)}
      BY <1>2 DEF ApplyOneOp
    <2> HIDE DEF r, u
    <2>3. /\ r.table \in Table /\ r.kind \in {"done", "conflict", "error"}
          /\ r.kind # "done" => r.table = t
      BY <2>1, <2>2 DEF Done, ConflictAt
    <2> QED BY <2>3 DEF r
  <1>3. CASE ch.op = "UPDATE"
    <2> DEFINE u == [t EXCEPT ![k] = Bound(ch.new)]
    <2>1. Bound(ch.new) \in [Col -> Val]
      BY <1>1, SessionAssumption DEF Bound, Record
    <2>2. u \in Table
      BY <2>1 DEF Table
    <2>3. r \in {Done(u), ConflictAt(t), [kind |-> "error", table |-> t]}
      BY <1>3 DEF ApplyOneOp
    <2> HIDE DEF r, u
    <2>4. /\ r.table \in Table /\ r.kind \in {"done", "conflict", "error"}
          /\ r.kind # "done" => r.table = t
      BY <2>2, <2>3 DEF Done, ConflictAt
    <2> QED BY <2>4 DEF r
  <1>4. CASE ch.op = "INSERT"
    <2> DEFINE u == [t EXCEPT ![k] = ch.new]
    <2>2. u \in Table
      BY <1>1, <1>4 DEF Table
    <2>3. r \in {Done(u), ConflictAt(t)}
      BY <1>4 DEF ApplyOneOp
    <2> HIDE DEF r, u
    <2>4. /\ r.table \in Table /\ r.kind \in {"done", "conflict", "error"}
          /\ r.kind # "done" => r.table = t
      BY <2>2, <2>3 DEF Done, ConflictAt
    <2> QED BY <2>4 DEF r
  <1> QED BY <1>1, <1>2, <1>3, <1>4

LEMMA OneOpElsewhere ==
  ASSUME NEW t \in Table, NEW k \in Key, NEW ch \in Doable, NEW v \in BOOLEAN
  PROVE  \A x \in Key : x # k => ApplyOneOp(t, k, ch, v).table[x] = t[x]
  <1> DEFINE r == ApplyOneOp(t, k, ch, v)
  <1>1. ch.op \in {"INSERT", "UPDATE", "DELETE"}
    BY DEF Doable, Changes, Op
  <1>2. PICK w : r.table \in {t, [t EXCEPT ![k] = w]}
    <2>1. CASE ch.op = "DELETE"
      BY <2>1 DEF ApplyOneOp, Done, ConflictAt
    <2>2. CASE ch.op = "UPDATE"
      BY <2>2 DEF ApplyOneOp, Done, ConflictAt
    <2>3. CASE ch.op = "INSERT"
      BY <2>3 DEF ApplyOneOp, Done, ConflictAt
    <2> QED BY <1>1, <2>1, <2>2, <2>3
  <1> HIDE DEF r
  <1>3. \A x \in Key : x # k => r.table[x] = t[x]
    BY <1>2 DEF Table
  <1> QED BY <1>3 DEF r

\* The rebase record of a change.
RebaseOf(ch, b) == [op |-> IF ch.op = "DELETE" THEN "DELETE" ELSE "INSERT", replace |-> b,
                    rec |-> IF ch.op = "DELETE" THEN ch.old ELSE ch.new]
RecOK(e) == /\ e.op \in {"INSERT", "DELETE"} /\ e.replace \in BOOLEAN /\ e.rec \in Record
            /\ e.op = "DELETE" => e.rec \in [Col -> Val]

\* A DELETE has a second record only after REPLACE, and keeps the first.
MayAdd(r, k, ch) == (k \in DOMAIN r /\ ch.op = "DELETE") => (r[k].op = "DELETE" /\ r[k].replace)
Added(q, r, k, ch, b) ==
    /\ RebOK(q) /\ DOMAIN q = DOMAIN r \cup {k}
    /\ \A x \in DOMAIN r : x # k => q[x] = r[x]
    /\ k \notin DOMAIN r => q[k] = RebaseOf(ch, b)
    /\ k \in DOMAIN r => q[k] = RebaseMerge(r[k], RebaseOf(ch, b))

\* A first record of a key, and a second one.
LEMMA RebaseAddIs ==
  ASSUME NEW r, RebOK(r), NEW k \in Key, NEW ch \in Doable, NEW b \in BOOLEAN, MayAdd(r, k, ch)
  PROVE  Added(RebaseAdd(r, k, ch, b), r, k, ch, b)
  <1> DEFINE q == RebaseAdd(r, k, ch, b)
  <1> DEFINE f == RebaseOf(ch, b)
             e == IF k \in DOMAIN r THEN RebaseMerge(r[k], f) ELSE f
  <1>1. q = [x \in DOMAIN r \cup {k} |-> IF x = k THEN e ELSE r[x]]
    BY DEF RebaseAdd, RebaseOf, With
  <1>2. f.op \in {"INSERT", "DELETE"} /\ f.replace = b /\ f.rec \in Record
        /\ (f.op = "DELETE" => f.rec \in [Col -> Val]) /\ (f.op = "DELETE" <=> ch.op = "DELETE")
    BY DEF RebaseOf, Doable, Changes, Op
  <1> HIDE DEF f
  <1>3. RecOK(f)
    BY <1>2, Zenon DEF RecOK
  <1>4. RecOK(e)
    <2>1. CASE k \notin DOMAIN r
      BY <1>3, <2>1
    <2>2. CASE k \in DOMAIN r
      <3> DEFINE g == r[k]
      <3>1. /\ g.op \in {"INSERT", "DELETE"} /\ g.rec \in Record
            /\ g.op = "DELETE" => g.rec \in [Col -> Val]
        BY <2>2 DEF RebOK
      <3>2. g.replace \in BOOLEAN
        BY <2>2 DEF RebOK
      <3>3. e = RebaseMerge(g, f)
        BY <2>2
      <3>4. CASE g.op = "DELETE" /\ g.replace
        <4>1. e = g
          BY <3>3, <3>4 DEF RebaseMerge
        <4> QED BY <3>1, <3>2, <4>1 DEF RecOK
      <3>5. CASE ~(g.op = "DELETE" /\ g.replace)
        <4> DEFINE w == [c \in Col |-> IF g.rec[c] = Replaced \/ f.replace THEN Replaced
                                       ELSE IF f.rec[c] = Undef THEN g.rec[c] ELSE f.rec[c]]
        <4>1. e = [op |-> f.op, replace |-> g.replace \/ f.replace, rec |-> w]
          BY <3>3, <3>5 DEF RebaseMerge
        <4>2. w \in Record
          BY <1>2, <3>1 DEF Record
        <4>3. f.op = "INSERT"
          BY <1>2, <2>2, <3>5 DEF MayAdd
        <4> HIDE DEF w, e
        <4>4. e.op = "INSERT" /\ e.rec \in Record
          BY <4>1, <4>2, <4>3
        <4>5. e.replace = (g.replace \/ f.replace)
          BY <4>1
        <4>6. e.replace \in BOOLEAN
          BY <4>5, Zenon
        <4> QED BY <4>4, <4>6 DEF RecOK
      <3> QED BY <3>4, <3>5
    <2> QED BY <2>1, <2>2
  <1>5. (k \notin DOMAIN r => e = f) /\ (k \in DOMAIN r => e = RebaseMerge(r[k], f))
    OBVIOUS
  <1> HIDE DEF e, q
  <1>6. DOMAIN q = DOMAIN r \cup {k} /\ q[k] = e /\ \A x \in DOMAIN r : x # k => q[x] = r[x]
    BY <1>1
  <1>7. \A x \in DOMAIN r : x \in Key /\ RecOK(r[x])
    BY DEF RebOK, RecOK
  <1>8. \A x \in DOMAIN q : x \in Key /\ RecOK(q[x])
    BY <1>4, <1>6, <1>7
  <1>9. RebOK(q)
    BY <1>8 DEF RebOK, RecOK
  <1> QED BY <1>5, <1>6, <1>9 DEF f, q, Added
\* q is r but for k.
Others(q, r, k) ==
    /\ DOMAIN r \subseteq DOMAIN q /\ DOMAIN q \subseteq DOMAIN r \cup {k}
    /\ \A x \in DOMAIN r : x # k => q[x] = r[x]

\* What the handler's verdicts leave for the rebase.
LEMMA NotedType ==
  ASSUME STypes, Applying, NEW k, NEW ch, HandOf(k, ch), NEW b \in BOOLEAN
  PROVE  /\ RebOK(Noted(reb, k, ch, b)) /\ Others(Noted(reb, k, ch, b), reb, k)
         /\ RebOK(Noted(Noted(reb, k, ch, TRUE), k, ch, b))
         /\ Others(Noted(Noted(reb, k, ch, TRUE), k, ch, b), reb, k)
  <1>1. RebOK(reb) /\ (stage = "applied" => \A x \in DOMAIN ap.todo : x \notin DOMAIN reb)
    BY DEF STypes
  <1>2. k \in Key /\ ch \in Doable /\ (ch.op = "DELETE" => k \in DOMAIN ap.todo)
    BY DEF HandOf
  <1>3. CASE stage # "applied"
    BY <1>1, <1>3 DEF Noted, Others
  <1>4. CASE stage = "applied"
    <2> DEFINE p == RebaseAdd(reb, k, ch, b)
               q == RebaseAdd(reb, k, ch, TRUE)
               r == RebaseAdd(q, k, ch, b)
    <2>1. MayAdd(reb, k, ch)
      BY <1>1, <1>2, <1>4 DEF MayAdd
    <2>2. Added(p, reb, k, ch, b) /\ Added(q, reb, k, ch, TRUE)
      BY <1>1, <1>2, <2>1, RebaseAddIs
    <2>3. Noted(reb, k, ch, b) = p /\ Noted(Noted(reb, k, ch, TRUE), k, ch, b) = r
      BY <1>4 DEF Noted
    <2> HIDE DEF p, q
    <2>4. MayAdd(q, k, ch)
      <3>1. ch.op = "DELETE" => q[k] = RebaseOf(ch, TRUE)
        BY <1>1, <1>2, <1>4, <2>2 DEF Added
      <3> QED BY <3>1 DEF MayAdd, RebaseOf
    <2>5. Added(r, q, k, ch, b)
      BY <1>2, <2>2, <2>4, RebaseAddIs DEF Added
    <2> HIDE DEF r
    <2> QED BY <2>2, <2>3, <2>5 DEF Added, Others
  <1> QED BY <1>3, <1>4

\* The change in hand is done, omitted or put off.
Handled(k, ch, t) ==
    /\ \/ ap' = Consumed(k)
       \/ ch.op = "INSERT" /\ ap' = [Consumed(k) EXCEPT !.constraints = Append(@, <<k, ch>>)]
    /\ db' = [db EXCEPT ![ap.to] = t] /\ \A x \in Key : x # k => t[x] = db[ap.to][x]
    /\ RebOK(reb') /\ Others(reb', reb, k)
    /\ asked' \in {asked, asked \cup {<<k, "omit">>}, asked \cup {<<k, "replace">>},
                   asked \cup {<<k, "replace">>, <<k, "omit">>}}
    /\ UNCHANGED <<Elsewhere, stage>>

LEMMA HandledTypes ==
  ASSUME STypes, Applying, NEW k, NEW ch, HandOf(k, ch), NEW t \in Table, Handled(k, ch, t)
  PROVE  STypes'
  <1>1. Types1 /\ Types2
    BY TypesSplit
  <1>2. ApOK(ap) /\ ap.to \in Node
    BY <1>1 DEF Types2, ApOK, ApShape, Applying
  <1>3. ApOK(ap') /\ ap'.to = ap.to /\ ap'.todo = Consumed(k).todo
    <2>1. CASE ap' = Consumed(k)
      BY <1>2, <2>1, HandApart
    <2>2. CASE ch.op = "INSERT" /\ ap' = [Consumed(k) EXCEPT !.constraints = Append(@, <<k, ch>>)]
      <3>1. Buffered(ap', k, ch)
        BY <1>2, <2>2, BufferedIs, Zenon
      <3>2. ApOK(ap') /\ ap'.to = ap.to
        BY <3>1, Zenon DEF Buffered
      <3>3. ap'.todo = Consumed(k).todo
        BY <3>1, Zenon DEF Buffered
      <3> QED BY <3>2, <3>3
    <2> QED BY <2>1, <2>2 DEF Handled
  <1>4. DOMAIN Consumed(k).todo = DOMAIN ap.todo \ {k}
    BY <1>2, ConsumedIs
  <1>5. db' \in [Node -> Table]
    BY <1>1, <1>2 DEF Types2, Handled
  <1>6. asked' \subseteq Key \X {"omit", "replace"}
    BY <1>1 DEF Types2, Handled, HandOf
  <1>7. stage' = stage /\ stage \notin {"work", "failed"} /\ Applying'
    BY <1>1, <1>3 DEF Handled, Types2, Applying
  <1>8. RebOK(reb') /\ (stage = "applied" => \A x \in DOMAIN ap'.todo : x \notin DOMAIN reb')
    BY <1>1, <1>3, <1>4 DEF Handled, Types2, Others
  <1>9. Types2'
    BY <1>1, <1>3, <1>5, <1>6, <1>7, <1>8 DEF Types2
  <1>10. Types1'
    BY <1>1 DEF Types1, Handled, Elsewhere
  <1> QED BY <1>9, <1>10, TypesSplit

\* The results of the attempts.
LEMMA AttemptTypes ==
  ASSUME STypes, Applying, NEW k, NEW ch, HandOf(k, ch)
  PROVE  /\ ap.to \in Node /\ db[ap.to] \in Table /\ ap.save \in Table
         /\ First(k, ch).table \in Table /\ Second(k, ch).table \in Table
         /\ First(k, ch).kind \in {"done", "conflict", "error"}
         /\ Second(k, ch).kind \in {"done", "conflict", "error"}
         /\ \A x \in Key : x # k => First(k, ch).table[x] = db[ap.to][x]
         /\ \A x \in Key : x # k => Second(k, ch).table[x] = db[ap.to][x]
  <1>1. ap.to \in Node /\ db[ap.to] \in Table /\ ap.save \in Table /\ k \in Key /\ ch \in Doable
    BY DEF STypes, ApOK, ApShape, ApData, Applying, HandOf
  <1> DEFINE t == IF ch.op = "INSERT" THEN [db[ap.to] EXCEPT ![k] = Absent] ELSE db[ap.to]
  <1>2. t \in Table
    BY <1>1 DEF Table
  <1>3. First(k, ch) = ApplyOneOp(db[ap.to], k, ch, TRUE) /\ Second(k, ch) = ApplyOneOp(t, k, ch, FALSE)
    BY DEF First, Second
  <1>4. \A x \in Key : x # k => t[x] = db[ap.to][x]
    BY <1>1 DEF Table
  <1> HIDE DEF t
  <1>5. /\ \A x \in Key : x # k => ApplyOneOp(db[ap.to], k, ch, TRUE).table[x] = db[ap.to][x]
        /\ \A x \in Key : x # k => ApplyOneOp(t, k, ch, FALSE).table[x] = t[x]
    BY <1>1, <1>2, OneOpElsewhere
  <1>6. /\ First(k, ch).table \in Table /\ Second(k, ch).table \in Table
        /\ First(k, ch).kind \in {"done", "conflict", "error"}
        /\ Second(k, ch).kind \in {"done", "conflict", "error"}
    <2> DEFINE f == ApplyOneOp(db[ap.to], k, ch, TRUE)
               g == ApplyOneOp(t, k, ch, FALSE)
    <2>1. f.table \in Table /\ f.kind \in {"done", "conflict", "error"}
      BY <1>1, OneOpType
    <2>2. g.table \in Table /\ g.kind \in {"done", "conflict", "error"}
      BY <1>1, <1>2, OneOpType
    <2> HIDE DEF f, g
    <2>3. First(k, ch) = f /\ Second(k, ch) = g
      BY <1>3 DEF f, g
    <2> QED BY <2>1, <2>2, <2>3
  <1>7. /\ \A x \in Key : x # k => First(k, ch).table[x] = db[ap.to][x]
        /\ \A x \in Key : x # k => Second(k, ch).table[x] = db[ap.to][x]
    BY <1>3, <1>4, <1>5
  <1> QED BY <1>1, <1>6, <1>7

LEMMA StepHandled ==
  ASSUME STypes, Applying, NEW k, NEW ch, HandOf(k, ch),
         \/ ApplyChange(k, ch) \/ Buffer(k, ch) \/ OmitVerdict(k, ch) \/ ReplaceVerdict(k, ch),
         stage' # "failed"
  PROVE  \E t \in Table : Handled(k, ch, t)
  <1>0. /\ ap.to \in Node /\ db[ap.to] \in Table
        /\ First(k, ch).table \in Table /\ Second(k, ch).table \in Table
        /\ \A x \in Key : x # k => First(k, ch).table[x] = db[ap.to][x]
        /\ \A x \in Key : x # k => Second(k, ch).table[x] = db[ap.to][x]
    BY AttemptTypes
  <1>1. db = [db EXCEPT ![ap.to] = db[ap.to]] /\ RebOK(reb) /\ Others(reb, reb, k)
    BY <1>0 DEF STypes, Others
  <1>2. CASE ApplyChange(k, ch)
    BY <1>0, <1>1, <1>2 DEF ApplyChange, Handled, Store
  <1>3. CASE Buffer(k, ch)
    BY <1>0, <1>1, <1>3 DEF Buffer, Handled, Deferred
  <1>4. CASE OmitVerdict(k, ch)
    <2>1. RebOK(Noted(reb, k, ch, FALSE)) /\ Others(Noted(reb, k, ch, FALSE), reb, k)
      BY NotedType
    <2> QED BY <1>0, <1>1, <1>4, <2>1 DEF OmitVerdict, Handled
  <1>5. CASE ReplaceVerdict(k, ch)
    <2> DEFINE s == Second(k, ch)
               r == Noted(reb, k, ch, TRUE)
    <2>1. /\ RebOK(r) /\ Others(r, reb, k)
          /\ RebOK(Noted(r, k, ch, FALSE)) /\ Others(Noted(r, k, ch, FALSE), reb, k)
      BY NotedType
    <2>2. ~Fail
      BY DEF Fail
    <2>3. /\ \/ ap' = Consumed(k)
             \/ ch.op = "INSERT" /\ ap' = [Consumed(k) EXCEPT !.constraints = Append(@, <<k, ch>>)]
          /\ reb' \in {r, Noted(r, k, ch, FALSE)} /\ Store(s.table)
          /\ asked' \in {asked \cup {<<k, "replace">>}, asked \cup {<<k, "replace">>, <<k, "omit">>}}
          /\ UNCHANGED <<Elsewhere, stage>>
      BY <1>5, <2>2 DEF ReplaceVerdict, Deferred
    <2> HIDE DEF r
    <2> QED BY <1>0, <2>1, <2>3 DEF Handled, Store
  <1> QED BY <1>2, <1>3, <1>4, <1>5
\* The walk or a round is over.
LEMMA Between ==
  ASSUME ApOK(ap), Applying, InHand = {}
  PROVE  ap.queue = <<>> /\ DOMAIN ap.todo = {}
  <1>1. ap.queue = <<>>
    BY DEF InHand
  <1>2. InHand = {<<k, ap.todo[k]>> : k \in DOMAIN ap.todo}
    BY <1>1 DEF InHand
  <1> QED BY <1>1, <1>2

LEMMA RoundIs ==
  ASSUME ApOK(ap), RetryRound
  PROVE  /\ ApOK(ap') /\ ap'.to = ap.to /\ ap'.save = ap.save /\ ap'.todo = ap.todo
         /\ ap'.queue = ap.constraints /\ ap'.constraints = <<>> /\ ap'.before = Len(ap.constraints)
         /\ ap'.defer = (ap.defer /\ (ap.before = 0 \/ Len(ap.constraints) < ap.before))
         /\ DOMAIN ap.todo = {} /\ ap.queue = <<>>
  <1>1. /\ Applying /\ InHand = {} /\ ap.constraints # <<>>
        /\ ap' = [ap EXCEPT !.queue = ap.constraints, !.constraints = <<>>,
                            !.before = Len(ap.constraints),
                            !.defer = @ /\ (ap.before = 0 \/ Len(ap.constraints) < ap.before)]
    BY DEF RetryRound
  <1>2. ap.queue = <<>> /\ DOMAIN ap.todo = {}
    BY <1>1, Between
  <1>3. ApShape(ap) /\ ApData(ap) /\ ApCount(ap) /\ Apart(ap)
    BY <1>1 DEF ApOK, Applying
  <1> DEFINE d == ap.defer /\ (ap.before = 0 \/ Len(ap.constraints) < ap.before)
  <1>4. ap = [to |-> ap.to, save |-> ap.save, todo |-> ap.todo, queue |-> ap.queue,
              constraints |-> ap.constraints, before |-> ap.before, defer |-> ap.defer]
    BY <1>3 DEF ApShape
  <1>5. ap' = [ap EXCEPT !.queue = ap.constraints, !.constraints = <<>>,
                         !.before = Len(ap.constraints), !.defer = d]
    BY <1>1
  <1>d. d \in BOOLEAN
    OBVIOUS
  <1> HIDE DEF d
  <1>6. ap' = [to |-> ap.to, save |-> ap.save, todo |-> ap.todo, queue |-> ap.constraints,
               constraints |-> <<>>, before |-> Len(ap.constraints), defer |-> d]
    BY <1>4, <1>5
  <1>7. /\ ap'.to = ap.to /\ ap'.save = ap.save /\ ap'.todo = ap.todo
        /\ ap'.queue = ap.constraints /\ ap'.constraints = <<>> /\ ap'.before = Len(ap.constraints)
        /\ ap'.defer = d
    BY <1>6
  <1>8. ApShape(ap')
    BY <1>3, <1>6, <1>7 DEF ApShape
  <1>9. ApData(ap')
    BY <1>3, <1>7 DEF ApData
  <1>10. ApCount(ap')
    <2>1. Len(ap.constraints) \in Nat
      BY <1>3 DEF ApData
    <2> QED BY <1>7, <1>d, <2>1 DEF ApCount
  <1>11. Apart(ap')
    BY <1>2, <1>3, <1>7 DEF Apart
  <1> QED BY <1>2, <1>7, <1>8, <1>9, <1>10, <1>11 DEF ApOK, d

LEMMA EndTypes ==
  ASSUME STypes, Applying, Fail \/ RetryRound \/ Release
  PROVE  STypes'
  <1>1. Types1 /\ Types2
    BY TypesSplit
  <1>2. Types1'
    BY <1>1 DEF Types1, Fail, RetryRound, Release, Elsewhere
  <1>3. CASE Fail
    <2>1. ap.to \in Node /\ ap.save \in Table
      BY <1>1 DEF Types2, ApOK, ApShape, ApData, Applying
    <2>2. db' \in [Node -> Table]
      BY <1>1, <1>3, <2>1 DEF Types2, Fail, Store
    <2>3. ap' = Resting /\ stage' = "failed" /\ UNCHANGED <<reb, asked>>
      BY <1>3 DEF Fail
    <2>4. ApOK(ap') /\ ~Applying'
      BY <2>3, Empty DEF Applying
    <2>5. Types2'
      BY <1>1, <2>2, <2>3, <2>4 DEF Types2
    <2> QED BY <1>2, <2>5, TypesSplit
  <1>4. CASE RetryRound
    <2>1. ApOK(ap') /\ ap'.to = ap.to /\ ap'.todo = ap.todo
      BY <1>1, <1>4, RoundIs DEF Types2
    <2>2. UNCHANGED <<db, stage, reb, asked>>
      BY <1>4 DEF RetryRound
    <2>3. Types2'
      BY <1>1, <2>1, <2>2 DEF Types2, Applying
    <2> QED BY <1>2, <2>3, TypesSplit
  <1>5. CASE Release
    <2>1. ap' = Resting /\ UNCHANGED <<db, stage, reb, asked>>
      BY <1>5 DEF Release
    <2>2. ApOK(ap') /\ ~Applying'
      BY <2>1, Empty DEF Applying
    <2>3. Types2'
      BY <1>1, <2>1, <2>2 DEF Types2
    <2> QED BY <1>2, <2>3, TypesSplit
  <1> QED BY <1>3, <1>4, <1>5

\* What a step of an apply is.
LEMMA ApplyStepIs ==
  ASSUME STypes, ApplyStep
  PROVE  /\ Applying
         /\ \/ RetryRound \/ Release
            \/ \E k, ch : /\ HandOf(k, ch)
                          /\ \/ ApplyChange(k, ch) \/ EngineError(k, ch) \/ Buffer(k, ch)
                             \/ AbortVerdict(k, ch) \/ OmitVerdict(k, ch) \/ ReplaceVerdict(k, ch)
  <1>1. ApOK(ap)
    BY DEF STypes
  <1>2. CASE RetryRound \/ Release
    BY <1>2 DEF RetryRound, Release
  <1>3. CASE ~(RetryRound \/ Release)
    <2>1. Applying
      BY <1>3 DEF ApplyStep
    <2>2. PICK i \in InHand :
          \/ ApplyChange(i[1], i[2]) \/ EngineError(i[1], i[2]) \/ Buffer(i[1], i[2])
          \/ AbortVerdict(i[1], i[2]) \/ OmitVerdict(i[1], i[2]) \/ ReplaceVerdict(i[1], i[2])
      BY <1>3 DEF ApplyStep
    <2>3. HandOf(i[1], i[2])
      BY <1>1, <2>1, InHandIs
    <2> QED BY <2>1, <2>2, <2>3
  <1> QED BY <1>2, <1>3

LEMMA ApplyTypes ==
  ASSUME STypes, ApplyStep
  PROVE  STypes'
  <1>1. Applying
    BY ApplyStepIs
  <1>2. CASE RetryRound \/ Release
    BY <1>1, <1>2, EndTypes
  <1>3. ASSUME NEW k, NEW ch, HandOf(k, ch),
               \/ ApplyChange(k, ch) \/ EngineError(k, ch) \/ Buffer(k, ch)
               \/ AbortVerdict(k, ch) \/ OmitVerdict(k, ch) \/ ReplaceVerdict(k, ch)
        PROVE  STypes'
    <2>1. CASE Fail
      BY <1>1, <2>1, EndTypes
    <2>2. CASE ~Fail
      <3>1. ApplyChange(k, ch) \/ Buffer(k, ch) \/ OmitVerdict(k, ch) \/ ReplaceVerdict(k, ch)
        BY <1>3, <2>2 DEF EngineError, AbortVerdict
      <3>2. stage' = stage /\ stage # "failed"
        BY <1>1, <2>2, <3>1 DEF ApplyChange, Buffer, OmitVerdict, ReplaceVerdict, STypes
      <3>3. PICK t \in Table : Handled(k, ch, t)
        BY <1>1, <1>3, <3>1, <3>2, StepHandled
      <3> QED BY <1>1, <1>3, <3>3, HandledTypes
    <2> QED BY <2>1, <2>2
  <1> QED BY <1>2, <1>3, ApplyStepIs

\* A step of a node at work.
LEMMA WorkIs ==
  ASSUME STypes, NEW n \in Node, Work(n)
  PROVE  Written(n) \/ Begin(n) \/ Commit(n) \/ Rollback(n) \/ Cut(n)
  BY InsertWrites, InsertOrReplaceWrites, DeleteWrites, UpdateWrites, MoveWrites DEF Work

LEMMA InitTypes == Init => STypes
  <1> SUFFICES ASSUME Init PROVE STypes
    OBVIOUS
  <1>1. Types1
    <2>1. unique \in Uniques /\ base \in Table /\ start \in [Node -> Table] /\ txn \in [Node -> Table \cup {Absent}]
      BY SessionAssumption DEF Init
    <2>2. /\ DOMAIN ses = Node /\ DOMAIN grp = Node /\ DOMAIN sent = Node
          /\ \A n \in Node : SesOK(ses[n]) /\ CsOK(grp[n]) /\ CsOK(sent[n])
      BY Empty DEF Init
    <2>3. mislaid \in [Node -> SUBSET Key]
      BY DEF Init
    <2>4. left \in [Node -> Nat] /\ cuts \in 0 .. MaxCuts
      BY SessionAssumption DEF Init
    <2> QED BY <2>1, <2>2, <2>3, <2>4 DEF Types1
  <1>2. Types2
    <2>1. db \in [Node -> Table] /\ stage = "work" /\ asked = {} /\ reb = <<>> /\ ap = Resting
      BY SessionAssumption DEF Init
    <2> QED BY <2>1, Empty DEF Types2, Applying
  <1> QED BY <1>1, <1>2, TypesSplit

LEMMA NextTypes == STypes /\ [Next]_vars => STypes'
  <1> SUFFICES ASSUME STypes, [Next]_vars PROVE STypes'
    OBVIOUS
  <1>1. CASE UNCHANGED vars
    <2>1. Types1 /\ Types2
      BY TypesSplit
    <2>2. Types1' /\ Types2'
      BY <1>1, <2>1 DEF Types1, Types2, vars, Applying
    <2> QED BY <2>2, TypesSplit
  <1>2. ASSUME NEW n \in Node, Work(n) PROVE STypes'
    BY <1>2, WorkIs, WrittenTypes, SessionTypes
  <1>3. CASE Deliver \/ Undo \/ Return
    BY <1>3, ExchangeTypes
  <1>4. CASE ApplyStep
    BY <1>4, ApplyTypes
  <1> QED BY <1>1, <1>2, <1>3, <1>4 DEF Next

\* The changes waiting are different ones.
LEMMA ApartInjective ==
  ASSUME ApOK(ap), Applying
  PROVE  IsInjective(ap.queue \o ap.constraints)
  <1>1. ApData(ap) /\ Apart(ap)
    BY DEF ApOK, Applying
  <1> DEFINE p == ap.queue
             q == ap.constraints
             r == p \o q
  <1>2. p \in Seq(Waiting) /\ q \in Seq(Waiting)
    BY <1>1 DEF ApData
  <1>3. /\ \A i, j \in 1 .. Len(p) : p[i] = p[j] => i = j
        /\ \A i, j \in 1 .. Len(q) : q[i] = q[j] => i = j
        /\ \A i \in 1 .. Len(p), j \in 1 .. Len(q) : p[i] # q[j]
    BY <1>1 DEF Apart
  <1> HIDE DEF p, q
  <1>4. /\ Len(p) \in Nat /\ Len(q) \in Nat /\ DOMAIN r = 1 .. (Len(p) + Len(q))
        /\ \A i \in 1 .. (Len(p) + Len(q)) : r[i] = IF i \in 1 .. Len(p) THEN p[i] ELSE q[i - Len(p)]
    BY <1>2
  <1> HIDE DEF r
  <1>5. ASSUME NEW i \in DOMAIN r, NEW j \in DOMAIN r, r[i] = r[j] PROVE i = j
    <2>1. i \in 1 .. Len(p) \/ i - Len(p) \in 1 .. Len(q)
      BY <1>4
    <2>2. j \in 1 .. Len(p) \/ j - Len(p) \in 1 .. Len(q)
      BY <1>4
    <2>3. CASE i \in 1 .. Len(p) /\ j \in 1 .. Len(p)
      BY <1>3, <1>4, <1>5, <2>3
    <2>4. CASE i \in 1 .. Len(p) /\ j \notin 1 .. Len(p)
      BY <1>3, <1>4, <1>5, <2>2, <2>4
    <2>5. CASE i \notin 1 .. Len(p) /\ j \in 1 .. Len(p)
      BY <1>3, <1>4, <1>5, <2>1, <2>5
    <2>6. CASE i \notin 1 .. Len(p) /\ j \notin 1 .. Len(p)
      <3>1. i - Len(p) = j - Len(p)
        BY <1>3, <1>4, <1>5, <2>1, <2>2, <2>6
      <3> QED BY <1>4, <3>1
    <2> QED BY <2>3, <2>4, <2>5, <2>6
  <1>6. IsInjective(r)
    BY <1>5 DEF IsInjective
  <1> QED BY <1>6 DEF p, q, r

\* TypeOK: every session entry, change and rebase record is well formed, and
\* no change of an apply is buffered twice.
THEOREM TypesHold == Spec => []TypeOK
  <1>1. Init => STypes
    BY InitTypes
  <1>2. STypes /\ [Next]_vars => STypes'
    BY NextTypes
  <1>3. STypes => TypeOK
    <2> SUFFICES ASSUME STypes PROVE TypeOK
      OBVIOUS
    <2>1. Applying => IsInjective(ap.queue \o ap.constraints)
      BY ApartInjective DEF STypes
    <2>2. \A n \in Node : \A k \in DOMAIN ses[n] : k \in Key /\ ses[n][k].op \in Op /\ ses[n][k].rec \in Record
      BY PlainFacts DEF STypes, SesOK, EntryType
    <2>3. \A n \in Node : \A f \in {grp[n], sent[n]} : \A k \in DOMAIN f :
             k \in Key /\ f[k].old \in Record /\ f[k].new \in Record
      BY PlainFacts DEF STypes, CsOK, Plain
    <2>4. \A k \in DOMAIN reb : k \in Key /\ reb[k].rec \in Record
      BY DEF STypes, RebOK
    <2> QED BY <2>1, <2>2, <2>3, <2>4 DEF STypes, TypeOK
  <1>4. Spec => Init /\ [][Next]_vars
    BY PTL DEF Spec
  <1> QED BY <1>1, <1>2, <1>3, <1>4, PTL
-----------------------------------------------------------------------------
(* What the sessions record.                                               *)

\* Outside the entries nothing has changed since the session was created, an
\* open transaction's table included; an entry tells the row it started from.
Entries(n) ==
    /\ \A k \in Key \ DOMAIN ses[n] : /\ db[n][k] = start[n][k]
                                      /\ txn[n] # Absent => txn[n][k] = start[n][k]
    /\ \A k \in DOMAIN ses[n] : k \in mislaid[n] \/ EntryOK(ses[n][k], start[n][k])

\* The group has the changes of the earlier sessions.
Group(n) == mislaid[n] = {} => Same(grp[n], base, start[n])

KeepsUnique(n) == UniqueHolds(db[n]) /\ (txn[n] # Absent => UniqueHolds(txn[n]))

WorkInv ==
    /\ UniqueHolds(base)
    /\ stage = "work" => \A n \in Node : Entries(n) /\ Group(n) /\ KeepsUnique(n)

LEMMA GeneratedIs ==
  ASSUME STypes, NEW n \in Node, Entries(n), NEW k \in Key \ mislaid[n]
  PROVE  (IF k \in DOMAIN ses[n] THEN Resolve(ses[n][k], db[n][k]) ELSE Absent)
            = DiffRow(start[n][k], db[n][k])
  <1>1. start[n][k] \in Slot /\ db[n][k] \in Slot
    BY DEF STypes, Table, Slot
  <1>2. CASE k \in DOMAIN ses[n]
    <2>1. EntryOK(ses[n][k], start[n][k])
      BY <1>2 DEF Entries
    <2> HIDE DEF EntryOK
    <2>2. Resolve(ses[n][k], db[n][k]) = DiffRow(start[n][k], db[n][k])
      BY <1>1, <2>1, ResolveIs DEF EntryOK
    <2> QED BY <1>2, <2>2
  <1>3. CASE k \notin DOMAIN ses[n]
    BY <1>3 DEF Entries, DiffRow
  <1> QED BY <1>2, <1>3

\* Where changesets have the same changes they are the same.
LEMMA RestrictSame ==
  ASSUME NEW f, NEW g, NEW K, \A k \in K : At(Present(f), k) = At(Present(g), k)
  PROVE  Restrict(Present(f), DOMAIN Present(f) \cap K) = Restrict(Present(g), DOMAIN Present(g) \cap K)
  <1> DEFINE a == Present(f)
             b == Present(g)
  <1>1. /\ DOMAIN a = {k \in DOMAIN f : f[k] # Absent} /\ DOMAIN b = {k \in DOMAIN g : g[k] # Absent}
        /\ \A k : At(a, k) = IF k \in DOMAIN f THEN f[k] ELSE Absent
        /\ \A k : At(b, k) = IF k \in DOMAIN g THEN g[k] ELSE Absent
    BY PresentIs
  <1> HIDE DEF a, b
  <1>2. \A k \in K : (k \in DOMAIN a <=> k \in DOMAIN b) /\ (k \in DOMAIN a => a[k] = b[k])
    <2> TAKE k \in K
    <2>1. At(a, k) = At(b, k)
      BY DEF a, b
    <2>2. (k \in DOMAIN a <=> At(a, k) # Absent) /\ (k \in DOMAIN b <=> At(b, k) # Absent)
      BY <1>1
    <2> QED BY <2>1, <2>2 DEF At
  <1>3. DOMAIN a \cap K = DOMAIN b \cap K
    BY <1>2
  <1>4. Restrict(a, DOMAIN a \cap K) = Restrict(b, DOMAIN b \cap K)
    BY <1>2, <1>3 DEF Restrict
  <1> QED BY <1>4 DEF a, b

LEMMA Captures ==
  ASSUME STypes, NEW n \in Node, Entries(n)
  PROVE  LET K == Key \ mislaid[n]
             g == Generate(ses[n], db[n])
             d == Diff(start[n], db[n])
         IN  Restrict(g, DOMAIN g \cap K) = Restrict(d, DOMAIN d \cap K)
  <1> DEFINE K == Key \ mislaid[n]
             f == [k \in DOMAIN ses[n] |-> Resolve(ses[n][k], db[n][k])]
             h == [k \in Key |-> DiffRow(start[n][k], db[n][k])]
  <1>1. Generate(ses[n], db[n]) = Present(f) /\ Diff(start[n], db[n]) = Present(h)
    BY DEF Generate, Diff, DiffRow
  <1>2. \A k \in K : (IF k \in DOMAIN f THEN f[k] ELSE Absent) = h[k] /\ k \in DOMAIN h
    BY GeneratedIs
  <1> HIDE DEF K, f, h
  <1>3. \A k : /\ At(Present(f), k) = (IF k \in DOMAIN f THEN f[k] ELSE Absent)
              /\ At(Present(h), k) = (IF k \in DOMAIN h THEN h[k] ELSE Absent)
    BY PresentIs
  <1>4. \A k \in K : At(Present(f), k) = At(Present(h), k)
    BY <1>2, <1>3
  <1>5. Restrict(Present(f), DOMAIN Present(f) \cap K) = Restrict(Present(h), DOMAIN Present(h) \cap K)
    BY <1>4, RestrictSame
  <1> QED BY <1>1, <1>5 DEF K

\* The changeset of a node without a mislaid entry.
LEMMA ChangesetIs ==
  ASSUME STypes, NEW n \in Node, Entries(n), Group(n), mislaid[n] = {}
  PROVE  Changeset(n) = Diff(base, db[n])
  <1>1. db[n] \in Table /\ start[n] \in Table /\ base \in Table
    BY DEF STypes
  <1> DEFINE f == [k \in DOMAIN ses[n] |-> Resolve(ses[n][k], db[n][k])]
  <1>2. \A k \in Key : (IF k \in DOMAIN f THEN f[k] ELSE Absent) = DiffRow(start[n][k], db[n][k])
    BY GeneratedIs
  <1>3. DOMAIN f \subseteq Key
    BY DEF STypes, SesOK
  <1>4. Generate(ses[n], db[n]) = Present(f)
    BY DEF Generate
  <1> HIDE DEF f
  <1>5. Generate(ses[n], db[n]) = Diff(start[n], db[n])
    BY <1>1, <1>2, <1>3, <1>4, PresentSame
  <1>6. Same(Diff(start[n], db[n]), start[n], db[n])
    BY <1>1, SameDiff
  <1>7. Same(grp[n], base, start[n])
    BY DEF Group
  <1> QED BY <1>1, <1>5, <1>6, <1>7, ConcatIs DEF Changeset

LEMMA WrittenKeeps ==
  ASSUME STypes, NEW n \in Node, NEW m \in Node, Written(n), Entries(m), Group(m), KeepsUnique(m)
  PROVE  Entries(m)' /\ Group(m)' /\ KeepsUnique(m)'
  <1>1. CASE m # n
    <2>1. db'[m] = db[m] /\ ses'[m] = ses[m] /\ mislaid'[m] = mislaid[m]
          /\ UNCHANGED <<txn, start, grp, base, unique>>
      BY <1>1 DEF Written, STypes
    <2> QED BY <2>1 DEF Entries, Group, KeepsUnique, UniqueHolds, Same
  <1>2. CASE m = n
    <2>1. UNCHANGED <<unique, base, txn, start, grp>>
      BY DEF Written
    <2>2. /\ DOMAIN ses[n] \subseteq DOMAIN ses'[n] /\ \A k \in DOMAIN ses[n] : ses'[n][k] = ses[n][k]
          /\ \A k \in DOMAIN ses'[n] \ DOMAIN ses[n] : k \in mislaid'[n] \/ EntryOK(ses'[n][k], db[n][k])
          /\ \A k \in Key \ DOMAIN ses'[n] : db'[n][k] = db[n][k]
          /\ mislaid[n] \subseteq mislaid'[n]
      BY DEF Written, Continues
    <2>3. SesOK(ses'[n])
      BY DEF Written
    <2>4. Entries(n)'
      <3>1. ASSUME NEW k \in Key \ DOMAIN ses'[n]
            PROVE  /\ db'[n][k] = start'[n][k]
                   /\ txn'[n] # Absent => txn'[n][k] = start'[n][k]
        BY <1>2, <2>1, <2>2 DEF Entries
      <3>2. ASSUME NEW k \in DOMAIN ses'[n]
            PROVE  k \in mislaid'[n] \/ EntryOK(ses'[n][k], start'[n][k])
        <4>1. CASE k \in DOMAIN ses[n]
          BY <1>2, <2>1, <2>2, <4>1 DEF Entries
        <4>2. CASE k \notin DOMAIN ses[n]
          <5>1. k \in Key
            BY <2>3 DEF SesOK
          <5>2. db[n][k] = start[n][k]
            BY <1>2, <4>2, <5>1 DEF Entries
          <5> QED BY <2>1, <2>2, <4>2, <5>2
        <4> QED BY <4>1, <4>2
      <3> QED BY <3>1, <3>2 DEF Entries
    <2>5. Group(n)'
      BY <1>2, <2>1, <2>2 DEF Group, Same
    <2>6. KeepsUnique(n)'
      <3>1. UniqueHolds(db'[n]) /\ (txn'[n] # Absent => UniqueHolds(txn'[n]))
        BY <1>2, <2>1 DEF KeepsUnique, Written
      <3> QED BY <2>1, <3>1 DEF KeepsUnique, UniqueHolds
    <2> QED BY <1>2, <2>4, <2>5, <2>6
  <1> QED BY <1>1, <1>2

LEMMA SessionKeeps ==
  ASSUME STypes, NEW n \in Node, NEW m \in Node, Begin(n) \/ Commit(n) \/ Rollback(n) \/ Cut(n),
         Entries(m), Group(m), KeepsUnique(m)
  PROVE  Entries(m)' /\ Group(m)' /\ KeepsUnique(m)'
  <1>0. UNCHANGED <<unique, base, mislaid>>
    BY DEF Begin, Commit, Rollback, Cut
  <1>1. CASE m # n
    <2>1. db'[m] = db[m] /\ ses'[m] = ses[m] /\ txn'[m] = txn[m] /\ start'[m] = start[m] /\ grp'[m] = grp[m]
      BY <1>1 DEF Begin, Commit, Rollback, Cut, STypes
    <2> QED BY <1>0, <2>1 DEF Entries, Group, KeepsUnique, UniqueHolds, Same
  <1>2. CASE m = n /\ ~Cut(n)
    <2>1. UNCHANGED <<start, ses, grp>>
      BY <1>2 DEF Begin, Commit, Rollback
    <2>2. db'[n] \in {db[n], txn[n]} /\ txn'[n] \in {db[n], Absent} /\ (db'[n] = txn[n] \/ db'[n] = db[n])
          /\ (db'[n] # db[n] => txn[n] # Absent /\ txn'[n] = Absent)
      BY <1>2 DEF Begin, Commit, Rollback, STypes
    <2>3. Entries(n)'
      BY <1>0, <1>2, <2>1, <2>2 DEF Entries
    <2>4. Group(n)'
      BY <1>0, <1>2, <2>1 DEF Group, Same
    <2>5. KeepsUnique(n)'
      BY <1>0, <1>2, <2>2 DEF KeepsUnique, UniqueHolds
    <2> QED BY <1>2, <2>3, <2>4, <2>5
  <1>3. CASE m = n /\ Cut(n)
    <2>1. /\ UNCHANGED <<db, txn>> /\ txn[n] = Absent
          /\ ses'[n] = <<>> /\ start'[n] = db[n] /\ grp'[n] = Changeset(n)
      BY <1>3 DEF Cut, STypes
    <2>2. Entries(n)'
      BY <2>1, Empty DEF Entries
    <2>3. Group(n)'
      <3>1. SUFFICES ASSUME mislaid[n] = {} PROVE Same(grp'[n], base, start'[n])
        BY <1>0 DEF Group, Same
      <3>2. grp'[n] = Diff(base, db[n])
        BY <1>3, <2>1, <3>1, ChangesetIs
      <3>3. db[n] \in Table /\ base \in Table
        BY DEF STypes
      <3> QED BY <2>1, <3>2, <3>3, SameDiff
    <2>4. KeepsUnique(n)'
      BY <1>0, <1>3, <2>1 DEF KeepsUnique, UniqueHolds
    <2> QED BY <1>3, <2>2, <2>3, <2>4
  <1> QED BY <1>1, <1>2, <1>3
LEMMA InitWork == Init => WorkInv
  <1> SUFFICES ASSUME Init PROVE WorkInv
    OBVIOUS
  <1>1. UniqueHolds(base) /\ base \in Table
    BY SessionAssumption DEF Init
  <1>2. ASSUME NEW n \in Node PROVE Entries(n) /\ Group(n) /\ KeepsUnique(n)
    <2>1. db[n] = base /\ start[n] = base /\ txn[n] = Absent /\ ses[n] = <<>> /\ grp[n] = <<>>
      BY DEF Init
    <2> QED BY <1>1, <2>1, Empty DEF Entries, Group, KeepsUnique, Same
  <1> QED BY <1>1, <1>2 DEF WorkInv

LEMMA NextWork == STypes /\ WorkInv /\ [Next]_vars => WorkInv'
  <1> SUFFICES ASSUME STypes, WorkInv, [Next]_vars PROVE WorkInv'
    OBVIOUS
  <1>1. CASE UNCHANGED vars
    BY <1>1 DEF WorkInv, Entries, Group, KeepsUnique, UniqueHolds, Same, vars
  <1>2. ASSUME NEW n \in Node, Work(n), stage = "work" PROVE WorkInv'
    <2>1. UNCHANGED <<unique, base, stage>>
      BY <1>2, WorkIs DEF Written, Begin, Commit, Rollback, Cut
    <2>2. ASSUME NEW m \in Node PROVE Entries(m)' /\ Group(m)' /\ KeepsUnique(m)'
      <3>1. Entries(m) /\ Group(m) /\ KeepsUnique(m)
        BY <1>2 DEF WorkInv
      <3> QED BY <1>2, <3>1, WorkIs, WrittenKeeps, SessionKeeps
    <2>3. UniqueHolds(base)'
      BY <2>1 DEF WorkInv, UniqueHolds
    <2> QED BY <2>2, <2>3 DEF WorkInv
  <1>3. CASE Deliver \/ Undo \/ Return
    <2>1. stage' # "work" /\ UNCHANGED <<unique, base>>
      BY <1>3 DEF Deliver, Undo, Return, Elsewhere
    <2> QED BY <2>1 DEF WorkInv, UniqueHolds
  <1>4. CASE ApplyStep
    <2>1. Applying /\ stage # "work"
      BY <1>4, ApplyStepIs DEF STypes
    <2>2. UNCHANGED <<unique, base>> /\ stage' \in {stage, "failed"}
      BY <1>4 DEF ApplyStep, ApplyChange, EngineError, Buffer, AbortVerdict, OmitVerdict,
                  ReplaceVerdict, RetryRound, Release, Fail, Elsewhere
    <2> QED BY <2>1, <2>2 DEF WorkInv, UniqueHolds
  <1> QED BY <1>1, <1>2, <1>3, <1>4 DEF Next

LEMMA WorkHolds == Spec => [](STypes /\ WorkInv)
  <1>1. Init => STypes /\ WorkInv
    BY InitTypes, InitWork
  <1>2. STypes /\ WorkInv /\ [Next]_vars => (STypes /\ WorkInv)'
    BY NextTypes, NextWork
  <1>3. Spec => Init /\ [][Next]_vars
    BY PTL DEF Spec
  <1> QED BY <1>1, <1>2, <1>3, PTL

\* CapturedDiff: a session's changeset is the difference between the table
\* its session started from and the table now, rollbacks or not.
THEOREM SessionsCaptureTheDifference == Spec => []CapturedDiff
  <1>1. STypes /\ WorkInv => CapturedDiff
    <2> SUFFICES ASSUME STypes, WorkInv, stage = "work", NEW n \in Node
                 PROVE  LET K == Key \ mislaid[n] IN
                        \E g \in {Generate(ses[n], db[n])} : \E d \in {Diff(start[n], db[n])} :
                           Restrict(g, DOMAIN g \cap K) = Restrict(d, DOMAIN d \cap K)
      BY DEF CapturedDiff
    <2>1. Entries(n)
      BY DEF WorkInv
    <2> DEFINE K == Key \ mislaid[n]
               g == Generate(ses[n], db[n])
               d == Diff(start[n], db[n])
    <2>2. Restrict(g, DOMAIN g \cap K) = Restrict(d, DOMAIN d \cap K)
      BY <2>1, Captures
    <2> HIDE DEF g, d, K
    <2>3. \E x \in {g} : \E y \in {d} : Restrict(x, DOMAIN x \cap K) = Restrict(y, DOMAIN y \cap K)
      BY <2>2
    <2> QED BY <2>3 DEF g, d, K
  <1> QED BY <1>1, WorkHolds, PTL

\* ConcatComposes: the changesets of successive sessions, concatenated, are
\* the difference over all of them.
THEOREM ConcatenationComposes == Spec => []ConcatComposes
  <1>1. STypes /\ WorkInv => ConcatComposes
    BY ChangesetIs DEF WorkInv, ConcatComposes, Found
  <1> QED BY <1>1, WorkHolds, PTL
-----------------------------------------------------------------------------
(* A changeset applied to the table it starts from.                        *)

\* The change in hand is a pending one, and no longer when it is done with.
LEMMA HandPending ==
  ASSUME ApOK(ap), Applying, NEW k, NEW ch, HandOf(k, ch), NEW a, a = Consumed(k)
  PROVE  /\ <<k, ch>> \in Pending(ap)
         /\ \A p \in Pending(a) : p \in Pending(ap) /\ p[1] # k
         /\ \A p \in Pending(ap) : p[1] # k => p \in Pending(a)
  <1>1. ApData(ap)
    BY DEF ApOK, Applying
  <1>2. /\ a.constraints = ap.constraints
        /\ DOMAIN a.todo = DOMAIN ap.todo \ {k} /\ \A x \in DOMAIN a.todo : a.todo[x] = ap.todo[x]
        /\ a.queue = IF ap.queue = <<>> THEN <<>> ELSE Tail(ap.queue)
    <2>1. /\ a = [to |-> ap.to, save |-> ap.save, todo |-> a.todo, queue |-> a.queue,
                  constraints |-> ap.constraints, before |-> ap.before, defer |-> ap.defer]
          /\ DOMAIN a.todo = DOMAIN ap.todo \ {k} /\ \A x \in DOMAIN a.todo : a.todo[x] = ap.todo[x]
          /\ a.queue = IF ap.queue = <<>> THEN <<>> ELSE Tail(ap.queue)
      BY ConsumedIs
    <2>2. a.constraints = ap.constraints
      BY <2>1
    <2> QED BY <2>1, <2>2
  <1>3. ap.queue = <<>> => Parts(ap.queue) = {} /\ Parts(a.queue) = {}
    BY <1>2 DEF Parts
  <1>4. ap.queue # <<>> => Parts(ap.queue) = {<<k, ch>>} \cup Parts(a.queue)
    BY <1>1, <1>2, EndParts DEF ApData, HandOf
  <1>5. /\ \A p \in Parts(a.queue) : p[1] # k
        /\ \A p \in Parts(ap.constraints) : p[1] # k
    <2>1. /\ \A i \in 1 .. Len(a.queue) : a.queue[i][1] # k
          /\ \A i \in 1 .. Len(a.constraints) : a.constraints[i][1] # k
      BY HandApart
    <2>2. ASSUME NEW p \in Parts(a.queue) PROVE p[1] # k
      <3>1. PICK i \in 1 .. Len(a.queue) : p = a.queue[i]
        BY DEF Parts
      <3> QED BY <2>1, <3>1
    <2>3. ASSUME NEW p \in Parts(a.constraints) PROVE p[1] # k
      <3>1. PICK i \in 1 .. Len(a.constraints) : p = a.constraints[i]
        BY DEF Parts
      <3> QED BY <2>1, <3>1
    <2> QED BY <1>2, <2>2, <2>3
  <1>6. {<<x, a.todo[x]>> : x \in DOMAIN a.todo} = {<<x, ap.todo[x]>> : x \in DOMAIN ap.todo \ {k}}
    BY <1>2
  <1>7. <<k, ch>> \in Pending(ap)
    BY <1>4 DEF Pending, HandOf
  <1>8. ASSUME NEW p \in Pending(a) PROVE p \in Pending(ap) /\ p[1] # k
    <2>1. CASE p \in Parts(a.queue)
      BY <1>3, <1>4, <1>5, <2>1 DEF Pending
    <2>2. CASE p \in Parts(a.constraints)
      BY <1>2, <1>5, <2>2 DEF Pending
    <2>3. CASE p \in {<<x, a.todo[x]>> : x \in DOMAIN a.todo}
      BY <1>6, <2>3 DEF Pending
    <2> QED BY <2>1, <2>2, <2>3 DEF Pending
  <1>9. ASSUME NEW p \in Pending(ap), p[1] # k PROVE p \in Pending(a)
    <2>1. CASE p \in Parts(ap.queue)
      BY <1>3, <1>4, <1>9, <2>1 DEF Pending
    <2>2. CASE p \in Parts(ap.constraints)
      BY <1>2, <2>2 DEF Pending
    <2>3. CASE p \in {<<x, ap.todo[x]>> : x \in DOMAIN ap.todo}
      BY <1>6, <1>9, <2>3 DEF Pending
    <2> QED BY <2>1, <2>2, <2>3 DEF Pending
  <1> QED BY <1>7, <1>8, <1>9

LEMMA BufferPending ==
  ASSUME ApOK(ap), Applying, NEW k, NEW ch, HandOf(k, ch), ch.op = "INSERT",
         NEW b, b = [Consumed(k) EXCEPT !.constraints = Append(@, <<k, ch>>)]
  PROVE  Pending(b) = Pending(Consumed(k)) \cup {<<k, ch>>}
  <1>1. /\ b.todo = Consumed(k).todo /\ b.queue = Consumed(k).queue
        /\ b.constraints = Append(ap.constraints, <<k, ch>>)
    <2>1. Buffered(b, k, ch)
      BY BufferedIs, Zenon
    <2> QED BY <2>1, Zenon DEF Buffered
  <1>2. Consumed(k).constraints = ap.constraints
    BY ConsumedIs
  <1>3. Parts(b.constraints) = Parts(ap.constraints) \cup {<<k, ch>>}
    <2>1. ap.constraints \in Seq(Waiting) /\ <<k, ch>> \in Waiting
      BY DEF ApOK, Applying, ApData, HandOf, Waiting
    <2> DEFINE q == ap.constraints
               x == <<k, ch>>
    <2>2. q \in Seq(Waiting) /\ x \in Waiting
      BY <2>1
    <2> HIDE DEF q, x
    <2>3. \A y \in Waiting : Parts(Append(q, y)) = Parts(q) \cup {y}
      BY <2>2, EndParts
    <2>4. Parts(Append(q, x)) = Parts(q) \cup {x}
      BY <2>2, <2>3
    <2> QED BY <1>1, <2>4 DEF q, x
  <1> QED BY <1>1, <1>2, <1>3 DEF Pending

\* The table t on the way from F to T: what is pending has not been done,
\* everything else has.
Moving(a, t, F, T) ==
    /\ \A p \in Pending(a) : /\ p[1] \in Key /\ F[p[1]] # T[p[1]]
                             /\ p[2] = DiffRow(F[p[1]], T[p[1]]) /\ t[p[1]] = F[p[1]]
    /\ \A k \in Key : (\A p \in Pending(a) : p[1] # k) => t[k] = T[k]

\* A retry round makes every change it has: nothing is put off in it.
InStep(a) ==
    /\ a.defer
    /\ a.before # 0 => DOMAIN a.todo = {} /\ a.constraints = <<>>
    /\ a.before = 0 => a.queue = <<>>

\* No UPDATE from F to T leaves out a column that is not NULL.
Fit(F, T) == \A k \in Key : F[k] # Absent /\ T[k] # Absent /\ F[k] # T[k]
                               => \A c \in Col : F[k][c] = T[k][c] => F[k][c] = Null

\* One change is made, any of them.
LEMMA MovedOn ==
  ASSUME ApOK(ap), Applying, NEW k, NEW ch, HandOf(k, ch), NEW t \in Table, NEW u \in Table,
         NEW F \in Table, NEW T \in Table,
         Moving(ap, t, F, T), u = [t EXCEPT ![k] = T[k]], NEW a, a = Consumed(k)
  PROVE  Moving(a, u, F, T)
  <1>1. /\ <<k, ch>> \in Pending(ap)
        /\ \A p \in Pending(a) : p \in Pending(ap) /\ p[1] # k
        /\ \A p \in Pending(ap) : p[1] # k => p \in Pending(a)
    BY HandPending
  <1>2. k \in Key
    BY DEF HandOf
  <1>3. u[k] = T[k] /\ \A x \in Key : x # k => u[x] = t[x]
    BY <1>2 DEF Table
  <1>4. ASSUME NEW p \in Pending(a)
        PROVE  p[1] \in Key /\ F[p[1]] # T[p[1]] /\ p[2] = DiffRow(F[p[1]], T[p[1]]) /\ u[p[1]] = F[p[1]]
    BY <1>1, <1>3 DEF Moving
  <1>5. ASSUME NEW x \in Key, \A p \in Pending(a) : p[1] # x PROVE u[x] = T[x]
    <2>1. CASE x = k
      BY <1>3, <2>1
    <2>2. CASE x # k
      <3>1. \A p \in Pending(ap) : p[1] # x
        BY <1>1, <1>5, <2>2
      <3> QED BY <1>3, <2>2, <3>1 DEF Moving
    <2> QED BY <2>1, <2>2
  <1> QED BY <1>4, <1>5 DEF Moving

\* The attempt at a pending change succeeds, waits for a UNIQUE value, or is
\* the engine's error.
Attempted(r, t, u, ch, a) ==
    /\ ch.op \in {"INSERT", "DELETE", "UPDATE"}
    /\ ch.op = "INSERT" => a = Absent /\ r = IF UniqueHolds(u) THEN Done(u) ELSE ConflictAt(t)
    /\ ch.op = "DELETE" => r = Done(u)
    /\ ch.op = "UPDATE" => r = IF UniqueHolds(u) THEN Done(u) ELSE [kind |-> "error", table |-> t]

LEMMA AttemptIs ==
  ASSUME NEW F \in Table, NEW T \in Table, Fit(F, T), NEW k \in Key, NEW t \in Table,
         t[k] = F[k], F[k] # T[k], NEW ch, ch = DiffRow(F[k], T[k])
  PROVE  Attempted(ApplyOneOp(t, k, ch, TRUE), t, [t EXCEPT ![k] = T[k]], ch, F[k])
  <1>1. F[k] \in Slot /\ T[k] \in Slot
    BY DEF Table, Slot
  <1>2. CASE F[k] = Absent
    <2>1. ch.op = "INSERT" /\ ch.new = T[k]
      BY <1>2 DEF DiffRow, Change
    <2> QED BY <1>2, <2>1 DEF ApplyOneOp, Attempted
  <1>3. CASE F[k] # Absent /\ T[k] = Absent
    <2>1. ch.op = "DELETE" /\ ch.old = F[k]
      BY <1>3 DEF DiffRow, Change
    <2> QED BY <1>3, <2>1 DEF ApplyOneOp, Attempted
  <1>4. CASE F[k] # Absent /\ T[k] # Absent
    <2>0. F[k] \in [Col -> Val] /\ T[k] \in [Col -> Val]
      BY <1>1, <1>4 DEF Slot
    <2>1. /\ ch.op = "UPDATE"
          /\ ch.old = [c \in Col |-> IF F[k][c] = T[k][c] THEN Undef ELSE F[k][c]]
          /\ ch.new = [c \in Col |-> IF F[k][c] = T[k][c] THEN Undef ELSE T[k][c]]
      BY <1>4 DEF DiffRow, Change
    <2>2. \A c \in Col : F[k][c] \notin {Undef, Replaced} /\ T[k][c] \notin {Undef, Replaced}
      BY <2>0, Kinds
    <2>3. \A c \in Col : F[k][c] = T[k][c] => F[k][c] = Null
      BY <1>4 DEF Fit
    <2>4. \A c \in Col : Bound(ch.old)[c] = F[k][c] /\ Bound(ch.new)[c] = T[k][c]
      BY <2>1, <2>2, <2>3 DEF Bound
    <2>5. Bound(ch.old) = F[k] /\ Bound(ch.new) = T[k]
      <3>1. /\ Bound(ch.old) = [c \in Col |-> Bound(ch.old)[c]] /\ Bound(ch.new) = [c \in Col |-> Bound(ch.new)[c]]
        BY DEF Bound
      <3> QED BY <2>0, <2>4, <3>1
    <2> QED BY <1>4, <2>1, <2>5 DEF ApplyOneOp, Attempted
  <1> QED BY <1>2, <1>3, <1>4
\* A part of a table keeps its UNIQUE columns.
LEMMA PartUnique ==
  ASSUME NEW T \in Table, UniqueHolds(T), NEW u \in Table, \A k \in Key : u[k] = Absent \/ u[k] = T[k]
  PROVE  UniqueHolds(u)
  BY DEF UniqueHolds

\* What an attempt in the course of a move can be.
LEMMA MoveAttempt ==
  ASSUME STypes, Applying, ap.to = "local", NEW F \in Table, NEW T \in Table, Fit(F, T), UniqueHolds(T),
         Moving(ap, db["local"], F, T), InStep(ap), NEW k, NEW ch, HandOf(k, ch),
         NEW u, u = [db["local"] EXCEPT ![k] = T[k]]
  PROVE  /\ k \in Key /\ u \in Table
         /\ First(k, ch).kind = "done" => First(k, ch).table = u
         /\ First(k, ch).kind = "error" => unique # {}
         /\ First(k, ch).kind = "conflict" =>
               ch.op = "INSERT" /\ Deferred(db[ap.to], k, ch) /\ ap.before = 0
  <1> DEFINE t == db["local"]
  <1>0. k \in Key /\ ApOK(ap) /\ db["local"] \in Table
    BY DEF HandOf, STypes, Node
  <1>1. <<k, ch>> \in Pending(ap)
    BY <1>0, HandPending
  <1>2. F[k] # T[k] /\ ch = DiffRow(F[k], T[k]) /\ t[k] = F[k]
    <2>1. \A p \in Pending(ap) : /\ F[p[1]] # T[p[1]] /\ p[2] = DiffRow(F[p[1]], T[p[1]]) /\ t[p[1]] = F[p[1]]
      BY DEF Moving
    <2>2. <<k, ch>>[1] = k /\ <<k, ch>>[2] = ch
      OBVIOUS
    <2> QED BY <1>1, <2>1, <2>2
  <1>3. u \in Table /\ u[k] = T[k] /\ \A x \in Key : x # k => u[x] = t[x]
    BY <1>0 DEF Table
  <1>4. First(k, ch) = ApplyOneOp(t, k, ch, TRUE)
    BY DEF First
  <1>5. t \in Table /\ u = [t EXCEPT ![k] = T[k]]
    BY <1>0
  <1> HIDE DEF t
  <1>6. Attempted(First(k, ch), t, u, ch, F[k])
    <2>1. Attempted(ApplyOneOp(t, k, ch, TRUE), t, [t EXCEPT ![k] = T[k]], ch, F[k])
      BY <1>0, <1>2, <1>5, AttemptIs
    <2> HIDE DEF Attempted, First
    <2> QED BY <1>4, <1>5, <2>1
  <1>7. /\ Done(u).kind = "done" /\ Done(u).table = u /\ ConflictAt(t).kind = "conflict"
        /\ [kind |-> "error", table |-> t].kind = "error"
    BY DEF Done, ConflictAt
  <1>8. unique = {} => UniqueHolds(u)
    BY DEF UniqueHolds
  <1>9. ASSUME ap.before # 0 PROVE UniqueHolds(u)
    <2>1. DOMAIN ap.todo = {} /\ ap.constraints = <<>>
      BY <1>9 DEF InStep
    <2>2. Pending(ap) \subseteq Waiting
      <3>1. Parts(ap.queue) \subseteq Waiting /\ Parts(<<>>) = {}
        BY <1>0, EndParts DEF ApOK, ApData, Applying, Parts
      <3> QED BY <2>1, <3>1 DEF Pending
    <2>3. ASSUME NEW p \in Pending(ap) PROVE t[p[1]] = Absent
      <3>1. p[2].op = "INSERT" /\ p[1] \in Key
        BY <2>2 DEF Waiting
      <3>2. p[2] = DiffRow(F[p[1]], T[p[1]]) /\ t[p[1]] = F[p[1]] /\ F[p[1]] # T[p[1]]
        BY DEF Moving, t
      <3>3. F[p[1]] # Absent => DiffRow(F[p[1]], T[p[1]]).op \in {"UPDATE", "DELETE"}
        BY <3>2 DEF DiffRow, Change
      <3> QED BY <3>1, <3>2, <3>3
    <2>4. \A x \in Key : t[x] = Absent \/ t[x] = T[x]
      BY <2>3 DEF Moving, t
    <2>5. \A x \in Key : u[x] = Absent \/ u[x] = T[x]
      BY <1>3, <2>4
    <2> QED BY <1>3, <2>5, PartUnique
  <1>10. First(k, ch).kind = "done" => First(k, ch).table = u
    BY <1>6, <1>7 DEF Attempted
  <1>11. First(k, ch).kind = "error" => unique # {}
    BY <1>6, <1>7, <1>8 DEF Attempted
  <1>12. ASSUME First(k, ch).kind = "conflict"
         PROVE  ch.op = "INSERT" /\ Deferred(db[ap.to], k, ch) /\ ap.before = 0
    <2>1. ch.op = "INSERT" /\ ~UniqueHolds(u) /\ F[k] = Absent
      BY <1>6, <1>7, <1>12 DEF Attempted
    <2>2. Deferred(db[ap.to], k, ch)
      BY <1>2, <2>1 DEF Deferred, InStep, t
    <2> QED BY <1>9, <2>1, <2>2
  <1> QED BY <1>0, <1>3, <1>10, <1>11, <1>12

\* A step of an apply to the table its changeset starts from.
LEMMA MoveStep ==
  ASSUME STypes, Applying, ap.to = "local", NEW F \in Table, NEW T \in Table, Fit(F, T), UniqueHolds(T),
         Moving(ap, db["local"], F, T), InStep(ap), ApplyStep
  PROVE  /\ asked' = asked /\ UNCHANGED Elsewhere /\ db'["remote"] = db["remote"]
         /\ \/ stage' = "failed" /\ unique # {} /\ ~Applying'
            \/ stage' = stage /\ ~Applying' /\ \A k \in Key : db'["local"][k] = T[k]
            \/ stage' = stage /\ Applying' /\ ap'.to = "local"
               /\ Moving(ap', db'["local"], F, T) /\ InStep(ap')
  <1>0. ApOK(ap) /\ ApData(ap) /\ db \in [Node -> Table] /\ "local" \in Node /\ "remote" \in Node
    BY DEF STypes, ApOK, Applying, Node
  <1>1. CASE RetryRound
    <2>1. /\ ap'.to = ap.to /\ ap'.todo = ap.todo
          /\ ap'.queue = ap.constraints /\ ap'.constraints = <<>> /\ ap'.before = Len(ap.constraints)
          /\ ap'.defer = (ap.defer /\ (ap.before = 0 \/ Len(ap.constraints) < ap.before))
          /\ DOMAIN ap.todo = {} /\ ap.queue = <<>>
      BY <1>0, <1>1, RoundIs
    <2>2. ap.constraints # <<>> /\ UNCHANGED <<Elsewhere, db, stage, reb, asked>>
      BY <1>1 DEF RetryRound
    <2>3. Pending(ap') = Pending(ap)
      BY <2>1 DEF Pending
    <2>4. ap.before = 0 /\ ap.defer
      BY <2>2 DEF InStep
    <2>5. Len(ap.constraints) # 0
      BY <1>0, <2>2 DEF ApData
    <2>6. InStep(ap')
      <3>1. ap'.defer
        BY <2>1, <2>4
      <3>2. ap'.before # 0 /\ DOMAIN ap'.todo = {} /\ ap'.constraints = <<>>
        BY <2>1, <2>5
      <3> QED BY <3>1, <3>2 DEF InStep
    <2>7. Moving(ap', db'["local"], F, T)
      BY <2>2, <2>3 DEF Moving
    <2>8. Applying'
      BY <2>1 DEF Applying
    <2> QED BY <2>1, <2>2, <2>6, <2>7, <2>8
  <1>2. CASE Release
    <2>1. InHand = {} /\ ap.constraints = <<>> /\ ap' = Resting /\ UNCHANGED <<Elsewhere, db, stage, reb, asked>>
      BY <1>2 DEF Release
    <2>2. ap.queue = <<>> /\ DOMAIN ap.todo = {}
      BY <1>0, <2>1, Between
    <2>3. Pending(ap) = {}
      BY <2>1, <2>2 DEF Pending, Parts
    <2>4. ~Applying'
      BY <2>1, Empty DEF Applying
    <2>5. \A k \in Key : db["local"][k] = T[k]
      BY <2>3 DEF Moving
    <2> QED BY <2>1, <2>4, <2>5
  <1>3. ASSUME NEW k, NEW ch, HandOf(k, ch),
               \/ ApplyChange(k, ch) \/ EngineError(k, ch) \/ Buffer(k, ch)
               \/ AbortVerdict(k, ch) \/ OmitVerdict(k, ch) \/ ReplaceVerdict(k, ch)
        PROVE  /\ asked' = asked /\ UNCHANGED Elsewhere /\ db'["remote"] = db["remote"]
               /\ \/ stage' = "failed" /\ unique # {} /\ ~Applying'
                  \/ stage' = stage /\ Applying' /\ ap'.to = "local"
                     /\ Moving(ap', db'["local"], F, T) /\ InStep(ap')
    <2> DEFINE u == [db["local"] EXCEPT ![k] = T[k]]
               a == Consumed(k)
    <2>1. /\ k \in Key /\ u \in Table
          /\ First(k, ch).kind = "done" => First(k, ch).table = u
          /\ First(k, ch).kind = "error" => unique # {}
          /\ First(k, ch).kind = "conflict" =>
                ch.op = "INSERT" /\ Deferred(db[ap.to], k, ch) /\ ap.before = 0
      BY <1>3, MoveAttempt
    <2>2. ~ToHandler(k, ch)
      BY <2>1 DEF ToHandler
    <2>3. ApplyChange(k, ch) \/ EngineError(k, ch) \/ Buffer(k, ch)
      BY <1>3, <2>2 DEF AbortVerdict, OmitVerdict, ReplaceVerdict
    <2>4. /\ a = [to |-> ap.to, save |-> ap.save, todo |-> a.todo, queue |-> a.queue,
                  constraints |-> ap.constraints, before |-> ap.before, defer |-> ap.defer]
          /\ DOMAIN a.todo = DOMAIN ap.todo \ {k} /\ \A x \in DOMAIN a.todo : a.todo[x] = ap.todo[x]
          /\ a.queue = IF ap.queue = <<>> THEN <<>> ELSE Tail(ap.queue)
      BY <1>0, <1>3, ConsumedIs
    <2>5. a.to = ap.to /\ a.constraints = ap.constraints /\ a.before = ap.before /\ a.defer = ap.defer
      BY <2>4
    <2> HIDE DEF u
    <2>6. CASE ApplyChange(k, ch)
      <3>1. First(k, ch).kind = "done" /\ Store(First(k, ch).table) /\ ap' = a
            /\ UNCHANGED <<Elsewhere, stage, reb, asked>>
        BY <2>6 DEF ApplyChange
      <3>2. db' = [db EXCEPT !["local"] = u]
        BY <2>1, <3>1 DEF Store
      <3>3. db'["local"] = u /\ db'["remote"] = db["remote"]
        BY <1>0, <3>2
      <3>4. db["local"] \in Table
        BY <1>0
      <3>5. Moving(a, u, F, T)
        BY <1>0, <1>3, <2>1, <3>4, MovedOn DEF u
      <3> HIDE DEF a
      <3>6. InStep(a)
        BY <2>4, <2>5 DEF InStep
      <3>7. Applying' /\ ap'.to = "local"
        BY <2>5, <3>1 DEF Applying
      <3> QED BY <3>1, <3>3, <3>5, <3>6, <3>7
    <2>7. CASE EngineError(k, ch)
      <3>1. First(k, ch).kind = "error" /\ Fail
        BY <2>7 DEF EngineError
      <3>2. /\ db' = [db EXCEPT !["local"] = ap.save] /\ ap' = Resting /\ stage' = "failed"
            /\ UNCHANGED <<Elsewhere, reb, asked>>
        BY <3>1 DEF Fail, Store
      <3>3. ~Applying' /\ db'["remote"] = db["remote"]
        BY <1>0, <3>2, Empty DEF Applying
      <3> QED BY <2>1, <3>1, <3>2, <3>3
    <2>8. CASE Buffer(k, ch)
      <3>1. First(k, ch).kind = "conflict" /\ UNCHANGED <<Elsewhere, db, stage, reb, asked>>
            /\ ap' = [a EXCEPT !.constraints = Append(@, <<k, ch>>)]
        BY <2>8 DEF Buffer
      <3>2. ch.op = "INSERT" /\ ap.before = 0
        BY <2>1, <3>1
      <3>3. /\ ap'.to = ap.to /\ ap'.before = ap.before /\ ap'.defer = ap.defer /\ ap'.queue = a.queue
        <4>1. Buffered(ap', k, ch)
          <5>1. ap' = [Consumed(k) EXCEPT !.constraints = Append(@, <<k, ch>>)]
            BY <3>1
          <5> QED BY <1>0, <1>3, <3>2, <5>1, BufferedIs, Zenon
        <4>2. ap'.to = ap.to
          BY <4>1, Zenon DEF Buffered
        <4>3. ap'.before = ap.before
          BY <4>1, Zenon DEF Buffered
        <4>4. ap'.defer = ap.defer
          BY <4>1, Zenon DEF Buffered
        <4>5. ap'.queue = a.queue
          BY <4>1, Zenon DEF Buffered
        <4> QED BY <4>2, <4>3, <4>4, <4>5
      <3>4. Pending(ap') = Pending(a) \cup {<<k, ch>>}
        BY <1>0, <1>3, <3>1, <3>2, BufferPending
      <3>5. /\ <<k, ch>> \in Pending(ap)
            /\ \A p \in Pending(a) : p \in Pending(ap) /\ p[1] # k
            /\ \A p \in Pending(ap) : p[1] # k => p \in Pending(a)
        BY <1>0, <1>3, HandPending
      <3>6. InStep(ap')
        BY <2>4, <3>2, <3>3 DEF InStep
      <3>7. Moving(ap', db["local"], F, T)
        <4>1. \A p \in Pending(ap') : p \in Pending(ap)
          BY <3>4, <3>5
        <4>2. ASSUME NEW x \in Key, \A p \in Pending(ap') : p[1] # x PROVE \A p \in Pending(ap) : p[1] # x
          <5>1. <<k, ch>> \in Pending(ap') /\ <<k, ch>>[1] = k
            BY <3>4
          <5>2. x # k
            BY <4>2, <5>1
          <5> QED BY <3>4, <3>5, <4>2, <5>2
        <4> QED BY <4>1, <4>2 DEF Moving
      <3>8. Applying' /\ ap'.to = "local"
        BY <3>3 DEF Applying
      <3> QED BY <3>1, <3>6, <3>7, <3>8
    <2> QED BY <2>3, <2>6, <2>7, <2>8
  <1> QED BY <1>1, <1>2, <1>3, ApplyStepIs
LEMMA StartMoving ==
  ASSUME NEW F \in Table, NEW T \in Table, StartApply("local", Diff(F, T)),
         \A k \in Key : db["local"][k] = F[k]
  PROVE  Moving(ap', db["local"], F, T) /\ InStep(ap') /\ ap'.to = "local" /\ Applying'
  <1>1. /\ ap'.to = "local" /\ ap'.todo = Diff(F, T) /\ ap'.queue = <<>> /\ ap'.constraints = <<>>
        /\ ap'.before = 0
    BY DEF StartApply
  <1>2. ap'.defer
    BY DEF StartApply
  <1> DEFINE cs == Diff(F, T)
  <1>3. Same(cs, F, T)
    BY SameDiff
  <1> HIDE DEF cs
  <1>4. Pending(ap') = {<<k, cs[k]>> : k \in DOMAIN cs}
    BY <1>1 DEF Pending, Parts, cs
  <1>5. ASSUME NEW p \in Pending(ap')
        PROVE  /\ p[1] \in Key /\ F[p[1]] # T[p[1]]
               /\ p[2] = DiffRow(F[p[1]], T[p[1]]) /\ db["local"][p[1]] = F[p[1]]
    <2>1. PICK k \in DOMAIN cs : p = <<k, cs[k]>>
      BY <1>4
    <2>2. k \in Key /\ F[k] # T[k] /\ cs[k] = DiffRow(F[k], T[k]) /\ p[1] = k /\ p[2] = cs[k]
      BY <1>3, <2>1 DEF Same
    <2> QED BY <2>2
  <1>6. ASSUME NEW k \in Key, \A p \in Pending(ap') : p[1] # k PROVE db["local"][k] = T[k]
    <2>1. k \notin DOMAIN cs
      <3>1. k \in DOMAIN cs => <<k, cs[k]>> \in Pending(ap') /\ <<k, cs[k]>>[1] = k
        BY <1>4
      <3> QED BY <1>6, <3>1
    <2> QED BY <1>3, <2>1 DEF Same
  <1>7. Moving(ap', db["local"], F, T)
    BY <1>5, <1>6 DEF Moving
  <1>8. InStep(ap')
    BY <1>1, <1>2 DEF InStep
  <1> QED BY <1>1, <1>7, <1>8 DEF Applying

\* The table of the local node on the way from F to T, or there.
Course(F, T) ==
    IF Applying THEN ap.to = "local" /\ Moving(ap, db["local"], F, T) /\ InStep(ap)
    ELSE \A k \in Key : db["local"][k] = T[k]

CleanInv ==
    Clean /\ stage # "work" =>
        /\ asked = {}
        /\ stage = "failed" => unique # {}
        /\ stage \in {"applied", "undone"} =>
              UniqueHolds(db["remote"]) /\ sent["remote"] = Diff(base, db["remote"])
        /\ stage = "applied" => Course(base, db["remote"])
        /\ stage = "undone" => Course(db["remote"], base)
        /\ stage = "returned" => (Applying => Pending(ap) = {})

LEMMA FitsBoth ==
  ASSUME STypes, Fits(sent["remote"]), sent["remote"] = Diff(base, db["remote"])
  PROVE  Fit(base, db["remote"]) /\ Fit(db["remote"], base)
  <1> DEFINE u == db["remote"]
             cs == sent["remote"]
  <1>1. base \in Table /\ u \in Table
    BY DEF STypes, Node
  <1>2. Same(cs, base, u)
    BY <1>1, SameDiff
  <1> HIDE DEF u, cs
  <1>3. ASSUME NEW k \in Key, base[k] # Absent, u[k] # Absent, base[k] # u[k], NEW c \in Col, base[k][c] = u[k][c]
        PROVE  base[k][c] = Null
    <2>1. k \in DOMAIN cs /\ cs[k] = DiffRow(base[k], u[k])
      BY <1>2, <1>3 DEF Same
    <2>2. cs[k].op = "UPDATE" /\ cs[k].new = [d \in Col |-> IF base[k][d] = u[k][d] THEN Undef ELSE u[k][d]]
      BY <1>3, <2>1 DEF DiffRow, Change
    <2>3. cs[k].new[c] = Undef
      BY <1>3, <2>2
    <2> QED BY <2>1, <2>2, <2>3 DEF Fits, cs
  <1>4. Fit(base, u)
    BY <1>3 DEF Fit
  <1>5. Fit(u, base)
    BY <1>3 DEF Fit
  <1> QED BY <1>4, <1>5 DEF u

\* No difference, no changes.
LEMMA NoDifference ==
  ASSUME NEW t \in Table, NEW u \in Table, Diff(t, u) = <<>>
  PROVE  \A k \in Key : u[k] = t[k]
  <1>1. Same(Diff(t, u), t, u)
    BY SameDiff
  <1> HIDE DEF Diff
  <1> QED BY <1>1, Empty DEF Same

LEMMA DeliverClean ==
  ASSUME STypes, WorkInv, Deliver, Clean'
  PROVE  CleanInv'
  <1>1. /\ stage = "work" /\ stage' = "applied" /\ UNCHANGED <<unique, base, db, mislaid, asked>>
        /\ StartApply("local", Changeset("remote"))
        /\ sent'["local"] = Changeset("local") /\ sent'["remote"] = Changeset("remote")
    BY DEF Deliver, Node
  <1>2. Found /\ sent'["local"] = <<>>
    BY <1>1 DEF Clean, Found
  <1>3. "local" \in Node /\ "remote" \in Node /\ base \in Table /\ db["local"] \in Table /\ db["remote"] \in Table
        /\ asked = {}
    BY <1>1 DEF Node, STypes
  <1>4. \A n \in Node : Changeset(n) = Diff(base, db[n])
    BY <1>1, <1>2, ChangesetIs DEF WorkInv, Found
  <1>5. \A k \in Key : db["local"][k] = base[k]
    BY <1>1, <1>2, <1>3, <1>4, NoDifference
  <1>6. UniqueHolds(db["remote"])
    BY <1>1, <1>3 DEF WorkInv, KeepsUnique
  <1>7. Moving(ap', db["local"], base, db["remote"]) /\ InStep(ap') /\ ap'.to = "local" /\ Applying'
    BY <1>1, <1>3, <1>4, <1>5, StartMoving
  <1>8. Moving(ap', db'["local"], base', db'["remote"])
    BY <1>1, <1>7
  <1>9. Course(base, db["remote"])'
    BY <1>7, <1>8 DEF Course
  <1>10. UniqueHolds(db["remote"])' /\ (sent["remote"] = Diff(base, db["remote"]))'
    BY <1>1, <1>3, <1>4, <1>6 DEF UniqueHolds
  <1> QED BY <1>1, <1>3, <1>9, <1>10 DEF CleanInv

LEMMA UndoClean ==
  ASSUME STypes, WorkInv, CleanInv, Clean, Undo
  PROVE  CleanInv'
  <1>1. /\ stage = "applied" /\ ~Applying /\ stage' = "undone" /\ StartApply("local", Invert(sent["remote"]))
        /\ UNCHANGED <<unique, base, db, sent, asked>>
    BY DEF Undo, Elsewhere
  <1>2. /\ asked = {} /\ UniqueHolds(db["remote"]) /\ sent["remote"] = Diff(base, db["remote"])
        /\ \A k \in Key : db["local"][k] = db["remote"][k]
    BY <1>1 DEF CleanInv, Course
  <1>3. base \in Table /\ db["remote"] \in Table
    BY DEF STypes, Node
  <1>4. StartApply("local", Diff(db["remote"], base))
    BY <1>1, <1>2, <1>3, InvertDiff
  <1>5. Moving(ap', db["local"], db["remote"], base) /\ InStep(ap') /\ ap'.to = "local" /\ Applying'
    BY <1>2, <1>3, <1>4, StartMoving
  <1>6. Moving(ap', db'["local"], db'["remote"], base')
    BY <1>1, <1>5
  <1>7. Course(db["remote"], base)'
    BY <1>5, <1>6 DEF Course
  <1>8. UniqueHolds(db["remote"])' /\ (sent["remote"] = Diff(base, db["remote"]))'
    BY <1>1, <1>2 DEF UniqueHolds
  <1> QED BY <1>1, <1>2, <1>7, <1>8 DEF CleanInv

LEMMA ReturnClean ==
  ASSUME STypes, CleanInv, Clean, Return
  PROVE  CleanInv'
  <1>1. /\ stage = "applied" /\ stage' = "returned" /\ StartApply("remote", Rebase(sent["local"], reb))
        /\ asked' = asked
    BY DEF Return
  <1>2. asked = {}
    BY <1>1 DEF CleanInv
  <1>3. DOMAIN Rebase(sent["local"], reb) = {}
    <2>1. CsOK(sent["local"]) /\ RebOK(reb) /\ DOMAIN sent["local"] = {}
      BY Empty DEF STypes, Clean, Node
    <2> QED BY <2>1, RebaseType
  <1>4. ap'.todo = Rebase(sent["local"], reb) /\ ap'.queue = <<>> /\ ap'.constraints = <<>>
    BY <1>1 DEF StartApply
  <1>5. Pending(ap') = {}
    BY <1>3, <1>4 DEF Pending, Parts
  <1> QED BY <1>1, <1>2, <1>5 DEF CleanInv

\* An apply with nothing to do ends.
LEMMA NothingPending ==
  ASSUME STypes, ApplyStep, Pending(ap) = {}
  PROVE  Release
  <1>1. ApOK(ap) /\ Applying
    BY ApplyStepIs DEF STypes
  <1>2. \A k, ch : ~HandOf(k, ch)
    BY <1>1, HandPending
  <1>3. ap.constraints = <<>>
    <2>1. ap.constraints \in Seq(Waiting)
      BY <1>1 DEF ApOK, ApData, Applying
    <2> QED BY <2>1, EndParts DEF Pending
  <1> QED BY <1>2, <1>3, ApplyStepIs DEF RetryRound

LEMMA ApplyClean ==
  ASSUME STypes, WorkInv, CleanInv, Clean, ApplyStep
  PROVE  CleanInv'
  <1>0. Applying /\ stage \in {"applied", "undone", "returned"}
    BY ApplyStepIs DEF STypes
  <1>1. base \in Table /\ db["remote"] \in Table /\ asked = {}
    BY <1>0 DEF STypes, Node, CleanInv
  <1>2. CASE stage = "returned"
    <2>1. Pending(ap) = {}
      BY <1>0, <1>2 DEF CleanInv
    <2>2. ap' = Resting /\ UNCHANGED <<stage, asked>>
      BY <2>1, NothingPending DEF Release
    <2>3. ~Applying'
      BY <2>2, Empty DEF Applying
    <2> QED BY <1>1, <1>2, <2>2, <2>3 DEF CleanInv
  <1>3. CASE stage \in {"applied", "undone"}
    <2>1. UniqueHolds(db["remote"]) /\ sent["remote"] = Diff(base, db["remote"]) /\ UniqueHolds(base)
      BY <1>3 DEF CleanInv, WorkInv
    <2>2. Fit(base, db["remote"]) /\ Fit(db["remote"], base)
      BY <2>1, FitsBoth DEF Clean
    <2>3. PICK F \in {base, db["remote"]}, T \in {base, db["remote"]} :
             /\ Course(F, T) /\ Fit(F, T)
             /\ stage = "applied" => F = base /\ T = db["remote"]
             /\ stage = "undone" => F = db["remote"] /\ T = base
      <3>1. CASE stage = "applied"
        BY <2>2, <3>1 DEF CleanInv
      <3>2. CASE stage = "undone"
        BY <2>2, <3>2 DEF CleanInv
      <3> QED BY <1>3, <3>1, <3>2
    <2>4. F \in Table /\ T \in Table /\ UniqueHolds(T)
      BY <1>1, <2>1
    <2>5. ap.to = "local" /\ Moving(ap, db["local"], F, T) /\ InStep(ap)
      BY <1>0, <2>3 DEF Course
    <2>6. /\ asked' = asked /\ UNCHANGED Elsewhere /\ db'["remote"] = db["remote"]
          /\ \/ stage' = "failed" /\ unique # {} /\ ~Applying'
             \/ stage' = stage /\ ~Applying' /\ \A k \in Key : db'["local"][k] = T[k]
             \/ stage' = stage /\ Applying' /\ ap'.to = "local"
                /\ Moving(ap', db'["local"], F, T) /\ InStep(ap')
      BY <1>0, <2>3, <2>4, <2>5, MoveStep
    <2>7. UNCHANGED <<unique, base, sent>>
      BY <2>6 DEF Elsewhere
    <2>8. UniqueHolds(db["remote"])' /\ (sent["remote"] = Diff(base, db["remote"]))'
      BY <2>1, <2>6, <2>7 DEF UniqueHolds
    <2>9. CASE stage' = "failed"
      BY <1>1, <2>6, <2>7, <2>9, <1>3 DEF CleanInv
    <2>10. CASE stage' # "failed"
      <3>1. stage' = stage
        BY <2>6, <2>10
      <3>2. stage = "applied" => Course(base, db["remote"])'
        BY <2>3, <2>6, <2>7, <2>10 DEF Course
      <3>3. stage = "undone" => Course(db["remote"], base)'
        BY <2>3, <2>6, <2>7, <2>10 DEF Course
      <3> QED BY <1>1, <1>3, <2>6, <2>8, <3>1, <3>2, <3>3 DEF CleanInv
    <2> QED BY <2>9, <2>10
  <1> QED BY <1>0, <1>2, <1>3
LEMMA NextClean == STypes /\ WorkInv /\ CleanInv /\ [Next]_vars => CleanInv'
  <1> SUFFICES ASSUME STypes, WorkInv, CleanInv, [Next]_vars, Clean' PROVE CleanInv'
    BY DEF CleanInv
  <1>1. CASE UNCHANGED vars
    BY <1>1 DEF CleanInv, Clean, Found, Fits, UniqueHolds, Course, Moving, InStep, Applying, vars
  <1>2. ASSUME NEW n \in Node, Work(n), stage = "work" PROVE CleanInv'
    <2>1. stage' = stage
      BY <1>2, WorkIs DEF Written, Begin, Commit, Rollback, Cut
    <2> QED BY <1>2, <2>1 DEF CleanInv
  <1>3. CASE Deliver
    BY <1>3, DeliverClean
  <1>4. CASE Undo \/ Return \/ ApplyStep
    <2>1. UNCHANGED Elsewhere
      BY <1>4 DEF Undo, Return, ApplyStep, ApplyChange, EngineError, Buffer, AbortVerdict, OmitVerdict,
                  ReplaceVerdict, RetryRound, Release, Fail
    <2>2. Clean
      BY <2>1 DEF Clean, Found, Fits, Elsewhere
    <2> QED BY <1>4, <2>2, UndoClean, ReturnClean, ApplyClean
  <1> QED BY <1>1, <1>2, <1>3, <1>4 DEF Next

LEMMA CleanHolds == Spec => [](STypes /\ WorkInv /\ CleanInv)
  <1>1. Init => STypes /\ WorkInv /\ CleanInv
    BY InitTypes, InitWork DEF Init, CleanInv
  <1>2. STypes /\ WorkInv /\ CleanInv /\ [Next]_vars => (STypes /\ WorkInv /\ CleanInv)'
    BY NextTypes, NextWork, NextClean
  <1>3. Spec => Init /\ [][Next]_vars
    BY PTL DEF Spec
  <1> QED BY <1>1, <1>2, <1>3, PTL

\* Tables with the same rows.
LEMMA SameTable ==
  ASSUME NEW t \in Table, NEW u \in Table, \A k \in Key : t[k] = u[k]
  PROVE  t = u
  BY DEF Table

\* FreshCopy: applied to a copy of the table its session started from, a
\* changeset gives the table it ended with, whatever the order of its
\* changes, and the conflict handler is never asked; only an UPDATE that
\* meets a UNIQUE value may fail it.
THEOREM FreshCopiesCatchUp == Spec => []FreshCopy
  <1>1. STypes /\ CleanInv => FreshCopy
    <2> SUFFICES ASSUME STypes, CleanInv, Clean, stage # "work"
                 PROVE  /\ asked = {}
                        /\ stage = "applied" /\ ~Applying => db["local"] = db["remote"]
                        /\ stage = "failed" => unique # {}
      BY DEF FreshCopy
    <2>1. asked = {} /\ (stage = "failed" => unique # {})
      BY DEF CleanInv
    <2>2. stage = "applied" /\ ~Applying => \A k \in Key : db["local"][k] = db["remote"][k]
      BY DEF CleanInv, Course
    <2>3. db["local"] \in Table /\ db["remote"] \in Table
      BY DEF STypes, Node
    <2> QED BY <2>1, <2>2, <2>3, SameTable
  <1> QED BY <1>1, CleanHolds, PTL

\* UndoRestores: the inverse of a changeset is the difference the other way
\* round, and applied after the changeset it gives the table back.
THEOREM UndoGivesBack == Spec => []UndoRestores
  <1>1. STypes /\ WorkInv /\ CleanInv => UndoRestores
    <2> SUFFICES ASSUME STypes, WorkInv, CleanInv PROVE UndoRestores
      OBVIOUS
    <2>1. ASSUME stage = "work", Found, NEW n \in Node PROVE Invert(Changeset(n)) = Diff(db[n], base)
      <3>1. Changeset(n) = Diff(base, db[n])
        BY <2>1, ChangesetIs DEF WorkInv, Found
      <3>2. base \in Table /\ db[n] \in Table
        BY DEF STypes
      <3> QED BY <3>1, <3>2, InvertDiff
    <2>2. ASSUME Clean, stage = "undone", ~Applying PROVE db["local"] = base
      <3>1. \A k \in Key : db["local"][k] = base[k]
        BY <2>2 DEF CleanInv, Course
      <3>2. db["local"] \in Table /\ base \in Table
        BY DEF STypes, Node
      <3> QED BY <3>1, <3>2, SameTable
    <2> QED BY <2>1, <2>2 DEF UndoRestores
  <1> QED BY <1>1, CleanHolds, PTL
-----------------------------------------------------------------------------
(* Rebase: the two nodes meet.                                             *)

\* The change c leads from the row r to the row x.
Fitting(c, r, x) ==
    \/ c.op = "INSERT" /\ r = Absent /\ x # Absent /\ c.new = x
    \/ c.op = "DELETE" /\ r # Absent /\ x = Absent /\ c.old = r
    \/ c.op = "UPDATE" /\ r # Absent /\ x # Absent /\ Bound(c.old) = r /\ Bound(c.new) = x
Leads(c, r, x) == IF c = Absent THEN r = x ELSE Fitting(c, r, x)

\* The rows are the same, or one is absent, or the columns they share are NULL.
Spaced(a, b) == a # b /\ a # Absent /\ b # Absent => \A c \in Col : a[c] = b[c] => a[c] = Null
\* The part of a record for the columns in which two rows differ.
Side(a, b, r) == [c \in Col |-> IF a[c] = b[c] THEN Undef ELSE r[c]]
\* Both rows are there, the second one changed in a column the first one keeps.
Across(b, l, r) == b # Absent /\ l # Absent /\ r # Absent /\ \E c \in Col : b[c] = l[c] /\ b[c] # r[c]

LEMMA BoundRow ==
  ASSUME NEW a \in [Col -> Val]
  PROVE  Bound(a) = a
  BY SessionAssumption DEF Bound

\* What an UPDATE leaves out is bound as it is.
LEMMA BoundUpdate ==
  ASSUME NEW a \in [Col -> Val], NEW b \in [Col -> Val], a # b, Spaced(a, b), NEW x, x = DiffRow(a, b)
  PROVE  /\ x.op = "UPDATE" /\ x.old = Side(a, b, a) /\ x.new = Side(a, b, b) /\ x # Absent
         /\ Bound(x.old) = a /\ Bound(x.new) = b
  <1>1. a # Absent /\ b # Absent
    BY Kinds
  <1>2. \A c \in Col : a[c] = b[c] => a[c] = Null
    BY <1>1 DEF Spaced
  <1>3. \A c \in Col : a[c] \notin {Undef, Replaced} /\ b[c] \notin {Undef, Replaced}
    BY SessionAssumption
  <1>4. Bound(Side(a, b, a)) = a /\ Bound(Side(a, b, b)) = b
    BY <1>2, <1>3 DEF Bound, Side
  <1>5. x = Change("UPDATE", Side(a, b, a), Side(a, b, b))
    BY <1>1 DEF DiffRow, Side
  <1>6. a \in Slot /\ b \in Slot
    BY DEF Slot
  <1>7. x # Absent
    BY <1>6, DiffRowType
  <1>8. x.op = "UPDATE" /\ x.old = Side(a, b, a) /\ x.new = Side(a, b, b)
    BY <1>5 DEF Change
  <1> QED BY <1>4, <1>7, <1>8

\* The changes of a row, by what it was and becomes.
LEMMA ChangeOf ==
  ASSUME NEW a \in Slot, NEW b \in Slot, a # b, Spaced(a, b), NEW x, x = DiffRow(a, b)
  PROVE  /\ x # Absent
         /\ a # Absent => a \in [Col -> Val]
         /\ b # Absent => b \in [Col -> Val]
         /\ a = Absent => x.op = "INSERT" /\ x.new = b
         /\ a # Absent /\ b = Absent => x.op = "DELETE" /\ x.old = a
         /\ a # Absent /\ b # Absent =>
               /\ x.op = "UPDATE" /\ x.old = Side(a, b, a) /\ x.new = Side(a, b, b)
               /\ Bound(x.old) = a /\ Bound(x.new) = b
  <1>1. x # Absent
    BY DiffRowType
  <1>2. CASE a = Absent \/ b = Absent
    BY <1>1, <1>2 DEF DiffRow, Change, Slot
  <1>3. CASE a # Absent /\ b # Absent
    <2>1. a \in [Col -> Val] /\ b \in [Col -> Val]
      BY <1>3 DEF Slot
    <2>2. /\ x.op = "UPDATE" /\ x.old = Side(a, b, a) /\ x.new = Side(a, b, b)
          /\ Bound(x.old) = a /\ Bound(x.new) = b
      BY <2>1, BoundUpdate
    <2> QED BY <1>1, <1>3, <2>1, <2>2
  <1> QED BY <1>2, <1>3

\* A record completed with the row it was taken from.
LEMMA FilledSide ==
  ASSUME NEW a \in [Col -> Val], NEW b \in [Col -> Val]
  PROVE  FilledFrom(Side(a, b, b), a) = b
  BY SessionAssumption DEF FilledFrom, Side

\* The partial UPDATE leads from the remote row to the local one.
LEMMA PartialLeads ==
  ASSUME NEW b \in [Col -> Val], NEW l \in [Col -> Val], NEW r \in [Col -> Val], b # l,
         Spaced(b, l), ~Across(b, l, r),
         NEW x, x.old = Side(b, l, b), x.new = Side(b, l, l), Bound(x.new) = l
  PROVE  Leads(PartialUpdate(x, Side(b, r, r)), r, l)
  <1> DEFINE q == Side(b, r, r)
             o == [c \in Col |-> IF q[c] = Undef THEN x.old[c]
                                 ELSE IF q[c] # Replaced /\ x.old[c] # Undef THEN q[c] ELSE Undef]
             n == [c \in Col |-> IF q[c] # Replaced THEN x.new[c] ELSE Undef]
             z == PartialUpdate(x, q)
  <1>1. b # Absent /\ l # Absent /\ r # Absent
    BY Kinds
  <1>2. \A c \in Col : /\ b[c] \notin {Undef, Replaced} /\ r[c] \notin {Undef, Replaced}
                       /\ l[c] \notin {Undef, Replaced}
    BY SessionAssumption
  <1>3. \A c \in Col : b[c] = l[c] => b[c] = r[c] /\ b[c] = Null
    BY <1>1 DEF Spaced, Across
  <1>4. \A c \in Col : /\ q[c] = IF b[c] = r[c] THEN Undef ELSE r[c]
                       /\ x.old[c] = IF b[c] = l[c] THEN Undef ELSE b[c]
                       /\ x.new[c] = IF b[c] = l[c] THEN Undef ELSE l[c]
    BY DEF Side
  <1> HIDE DEF q
  <1>5. \A c \in Col : o[c] = IF b[c] = l[c] THEN Undef ELSE r[c]
    BY <1>2, <1>3, <1>4, SessionAssumption
  <1>6. \A c \in Col : n[c] = x.new[c]
    BY <1>2, <1>4, SessionAssumption
  <1>7. n = x.new
    BY <1>6 DEF Side
  <1>8. z = IF o = NoRecord THEN Absent ELSE Change("UPDATE", o, n)
    BY DEF PartialUpdate
  <1>9. o \in Record /\ n \in Record
    <2>1. \A c \in Col : o[c] \in Val \cup {Undef, Replaced}
      BY <1>5
    <2>2. \A c \in Col : n[c] \in Val \cup {Undef, Replaced}
      BY <1>4, <1>6
    <2> QED BY <2>1, <2>2 DEF Record
  <1>10. Bound(o) = r
    <2>1. \A c \in Col : (IF o[c] \in {Undef, Replaced} THEN Null ELSE o[c]) = r[c]
      BY <1>2, <1>3, <1>5
    <2> HIDE DEF o
    <2>2. Bound(o) = [c \in Col |-> r[c]]
      BY <2>1 DEF Bound
    <2> QED BY <2>2
  <1>11. o # NoRecord
    <2>1. PICK c \in Col : b[c] # l[c]
      BY SameRow
    <2>2. o[c] = r[c]
      BY <1>5, <2>1
    <2> HIDE DEF o
    <2> QED BY <1>2, <2>1, <2>2 DEF NoRecord
  <1> HIDE DEF o, n
  <1>12. z = Change("UPDATE", o, x.new)
    BY <1>7, <1>8, <1>11
  <1>13. Change("UPDATE", o, x.new) # Absent
    <2>1. Change("UPDATE", o, x.new) \in Changes
      BY <1>7, <1>9 DEF Change, Changes, Op
    <2> QED BY <2>1, Kinds
  <1> HIDE DEF z
  <1>14. z.op = "UPDATE" /\ z.old = o /\ z.new = x.new
    BY <1>12 DEF Change
  <1>15. Fitting(z, r, l)
    BY <1>1, <1>10, <1>14 DEF Fitting
  <1>16. Leads(z, r, l)
    BY <1>12, <1>13, <1>15 DEF Leads
  <1> QED BY <1>16 DEF z, q

\* The handler kept the local row: the rebased change leads the remote node to it.
LEMMA OmittedRow ==
  ASSUME NEW b \in Slot, NEW l \in Slot, NEW r \in Slot, b # l, b # r, Spaced(b, l), Spaced(b, r),
         ~Across(b, l, r)
  PROVE  Leads(RebaseOne(DiffRow(b, l), RebaseOf(DiffRow(b, r), FALSE)), r, l)
  <1> DEFINE x == DiffRow(b, l)
             y == DiffRow(b, r)
             e == RebaseOf(y, FALSE)
             z == RebaseOne(x, e)
  <1>0. /\ b # Absent => b \in [Col -> Val]
        /\ l # Absent => l \in [Col -> Val]
        /\ r # Absent => r \in [Col -> Val]
    BY DEF Slot
  <1>x. /\ x # Absent
        /\ b = Absent => x.op = "INSERT" /\ x.new = l
        /\ b # Absent /\ l = Absent => x.op = "DELETE" /\ x.old = b
        /\ b # Absent /\ l # Absent => x.op = "UPDATE" /\ x.old = Side(b, l, b) /\ x.new = Side(b, l, l)
                                       /\ Bound(x.new) = l
    BY ChangeOf
  <1>y. /\ y # Absent
        /\ b = Absent => y.op = "INSERT" /\ y.new = r
        /\ b # Absent /\ r = Absent => y.op = "DELETE" /\ y.old = b
        /\ b # Absent /\ r # Absent => y.op = "UPDATE" /\ y.new = Side(b, r, r)
    BY ChangeOf
  <1> HIDE DEF x, y
  <1>e. /\ y.op = "DELETE" => e.op = "DELETE" /\ e.rec = y.old
        /\ y.op # "DELETE" => e.op = "INSERT" /\ e.rec = y.new
        /\ e.replace = FALSE
    BY DEF RebaseOf
  <1>f. ~e.replace
    BY <1>e
  <1> HIDE DEF e
  <1>1. CASE b = Absent
    <2>1. z = Change("UPDATE", r, l)
      BY <1>1, <1>x, <1>y, <1>e, <1>f DEF RebaseOne
    <2>2. Change("UPDATE", r, l) \in Changes
      BY <1>0, <1>1, Kinds DEF Change, Changes, Op
    <2>3. Fitting(z, r, l)
      BY <1>0, <1>1, <2>1, BoundRow, Kinds DEF Fitting, Change
    <2> QED BY <2>1, <2>2, <2>3, Kinds DEF Leads, x, y, e
  <1>2. CASE b # Absent /\ l = Absent /\ r = Absent
    <2>1. z = Absent
      BY <1>2, <1>x, <1>y, <1>e DEF RebaseOne
    <2> QED BY <1>2, <2>1 DEF Leads, x, y, e
  <1>3. CASE b # Absent /\ l # Absent /\ r = Absent
    <2>1. z = Change("INSERT", NoRecord, FilledFrom(x.new, e.rec))
      BY <1>3, <1>x, <1>y, <1>e, <1>f DEF RebaseOne
    <2>2. FilledFrom(x.new, e.rec) = l
      BY <1>0, <1>3, <1>x, <1>y, <1>e, FilledSide
    <2>3. Change("INSERT", NoRecord, l) \in Changes
      BY <1>0, <1>3, Kinds DEF Change, Changes, Op
    <2>4. Fitting(z, r, l)
      BY <1>3, <2>1, <2>2 DEF Fitting, Change
    <2> QED BY <2>1, <2>2, <2>3, <2>4, Kinds DEF Leads, x, y, e
  <1>4. CASE b # Absent /\ l = Absent /\ r # Absent
    <2>1. z = Change("DELETE", FilledFrom(e.rec, x.old), NoRecord)
      BY <1>4, <1>x, <1>y, <1>e DEF RebaseOne
    <2>2. FilledFrom(e.rec, x.old) = r
      BY <1>0, <1>4, <1>x, <1>y, <1>e, FilledSide
    <2>3. Change("DELETE", r, NoRecord) \in Changes
      BY <1>0, <1>4, Kinds DEF Change, Changes, Op
    <2>4. Fitting(z, r, l)
      BY <1>4, <2>1, <2>2 DEF Fitting, Change
    <2> QED BY <2>1, <2>2, <2>3, <2>4, Kinds DEF Leads, x, y, e
  <1>5. CASE b # Absent /\ l # Absent /\ r # Absent
    <2>1. /\ b \in [Col -> Val] /\ l \in [Col -> Val] /\ r \in [Col -> Val]
          /\ x.op = "UPDATE" /\ x.old = Side(b, l, b) /\ x.new = Side(b, l, l) /\ Bound(x.new) = l
          /\ e.op = "INSERT" /\ e.rec = Side(b, r, r)
      BY <1>0, <1>5, <1>x, <1>y, <1>e
    <2>2. z = PartialUpdate(x, Side(b, r, r))
      BY <2>1 DEF RebaseOne
    <2>3. Leads(PartialUpdate(x, Side(b, r, r)), r, l)
      BY <2>1, PartialLeads
    <2>4. Leads(z, r, l)
      BY <2>2, <2>3
    <2> QED BY <2>4 DEF x, y, e
  <1> QED BY <1>1, <1>2, <1>3, <1>4, <1>5

\* The handler took the remote row, not over an UPDATE of both: nothing is left
\* to send.
LEMMA ReplacedRow ==
  ASSUME NEW b \in Slot, NEW l \in Slot, NEW r \in Slot, b # l, b # r, Spaced(b, l), Spaced(b, r),
         l # Absent, b = Absent \/ r = Absent
  PROVE  RebaseOne(DiffRow(b, l), RebaseOf(DiffRow(b, r), TRUE)) = Absent
  <1> DEFINE x == DiffRow(b, l)
             y == DiffRow(b, r)
             e == RebaseOf(y, TRUE)
  <1>1. /\ b = Absent => x.op = "INSERT" /\ y.op = "INSERT"
        /\ b # Absent => x.op = "UPDATE" /\ y.op = "DELETE"
    BY ChangeOf
  <1> HIDE DEF x, y
  <1>2. /\ y.op = "DELETE" => e.op = "DELETE"
        /\ y.op = "INSERT" => e.op = "INSERT"
        /\ e.replace
    BY DEF RebaseOf
  <1> HIDE DEF e
  <1>3. RebaseOne(x, e) = Absent
    BY <1>1, <1>2 DEF RebaseOne
  <1> QED BY <1>3 DEF x, y, e

\* The handler was asked twice about a row the local node deleted.
LEMMA DeletedRow ==
  ASSUME NEW b \in Slot, NEW r \in Slot, b # Absent, b # r, Spaced(b, r)
  PROVE  LET f == RebaseOf(DiffRow(b, r), TRUE)
             g == RebaseOf(DiffRow(b, r), FALSE)
         IN  Leads(RebaseOne(DiffRow(b, Absent), RebaseMerge(f, g)), r, Absent)
  <1> DEFINE x == DiffRow(b, Absent)
             y == DiffRow(b, r)
             f == RebaseOf(y, TRUE)
             g == RebaseOf(y, FALSE)
             e == RebaseMerge(f, g)
             z == RebaseOne(x, e)
  <1>1. x.op = "DELETE" /\ x.old = b /\ b \in [Col -> Val]
    BY DEF DiffRow, Change, Slot
  <1>2. CASE r = Absent
    <2>1. y.op = "DELETE"
      BY <1>2, ChangeOf
    <2> HIDE DEF x, y
    <2>2. f.op = "DELETE" /\ f.replace
      BY <2>1 DEF RebaseOf
    <2>3. e = f
      BY <2>2 DEF RebaseMerge
    <2> HIDE DEF e, f
    <2>4. z = Absent
      BY <1>1, <2>2, <2>3 DEF RebaseOne
    <2> QED BY <1>2, <2>4 DEF Leads, x, y, e, f
  <1>3. CASE r # Absent
    <2> DEFINE q == Side(b, r, r)
    <2>1. y.op = "UPDATE" /\ y.new = q /\ r \in [Col -> Val]
      BY <1>3, ChangeOf
    <2>2. \A c \in Col : q[c] # Replaced
      BY <2>1, SessionAssumption DEF Side
    <2>3. q = [c \in Col |-> q[c]]
      BY DEF Side
    <2>4. FilledFrom(q, b) = r
      BY <1>1, <2>1, FilledSide
    <2> HIDE DEF x, y, q
    <2>5. f.op = "INSERT" /\ f.rec = q /\ g.op = "INSERT" /\ g.rec = q
      BY <2>1 DEF RebaseOf
    <2>6. ~g.replace
      BY DEF RebaseOf
    <2> HIDE DEF f, g
    <2> DEFINE w == [c \in Col |-> IF f.rec[c] = Replaced \/ g.replace THEN Replaced
                                   ELSE IF g.rec[c] = Undef THEN f.rec[c] ELSE g.rec[c]]
    <2>7. e = [op |-> g.op, replace |-> f.replace \/ g.replace, rec |-> w]
      BY <2>5 DEF RebaseMerge
    <2>8. w = q
      BY <2>2, <2>3, <2>5, <2>6
    <2> HIDE DEF w, e
    <2>9. e.op = "INSERT" /\ e.rec = q
      BY <2>5, <2>7, <2>8
    <2>10. z = Change("DELETE", FilledFrom(q, b), NoRecord)
      BY <1>1, <2>9 DEF RebaseOne
    <2>11. Change("DELETE", r, NoRecord) \in Changes
      BY <2>1, Kinds DEF Change, Changes, Op
    <2>12. Fitting(z, r, Absent)
      BY <1>3, <2>4, <2>10 DEF Fitting, Change
    <2> QED BY <2>4, <2>10, <2>11, <2>12, Kinds DEF Leads, x, y, e, f, g
  <1> QED BY <1>2, <1>3
\* The row a change can be made at, and the row it makes.
Starts(ch, row) ==
    /\ ch.op = "INSERT" => row = Absent
    /\ ch.op # "INSERT" => row # Absent
    /\ ch.op = "DELETE" => row = ch.old
    /\ ch.op = "UPDATE" => row = Bound(ch.old)
Result(ch) == IF ch.op = "DELETE" THEN Absent ELSE IF ch.op = "UPDATE" THEN Bound(ch.new) ELSE ch.new

\* A fitting change can be made where it was recorded, and makes what it recorded.
LEMMA FitStarts ==
  ASSUME NEW b \in Slot, NEW r \in Slot, b # r, Spaced(b, r), NEW ch, ch = DiffRow(b, r)
  PROVE  /\ Result(ch) = r
         /\ \A l \in Slot : Starts(ch, l) <=> l = b
         /\ Leads(ch, b, r)
  <1>1. /\ b = Absent => ch.op = "INSERT" /\ ch.new = r
        /\ b # Absent /\ r = Absent => ch.op = "DELETE" /\ ch.old = b
        /\ b # Absent /\ r # Absent => ch.op = "UPDATE" /\ Bound(ch.old) = b /\ Bound(ch.new) = r
        /\ ch # Absent
    BY ChangeOf
  <1>2. CASE b = Absent
    <2>1. ch.op = "INSERT" /\ ch.new = r /\ r # Absent
      BY <1>1, <1>2
    <2> QED BY <1>1, <1>2, <2>1 DEF Result, Starts, Leads, Fitting
  <1>3. CASE b # Absent /\ r = Absent
    <2>1. ch.op = "DELETE" /\ ch.old = b
      BY <1>1, <1>3
    <2> QED BY <1>1, <1>3, <2>1 DEF Result, Starts, Leads, Fitting
  <1>4. CASE b # Absent /\ r # Absent
    <2>1. ch.op = "UPDATE" /\ Bound(ch.old) = b /\ Bound(ch.new) = r
      BY <1>1, <1>4
    <2> QED BY <1>1, <1>4, <2>1 DEF Result, Starts, Leads, Fitting
  <1> QED BY <1>2, <1>3, <1>4

LEMMA FittingStarts ==
  ASSUME NEW ch, NEW r, NEW x, Fitting(ch, r, x)
  PROVE  Starts(ch, r) /\ Result(ch) = x
  BY DEF Fitting, Starts, Result

\* Without UNIQUE columns an attempt can only miss the row it looks for.
FreeTry(o, t, k, ch, v) ==
    /\ o.kind \in {"done", "conflict"}
    /\ v => (o.kind = "done" <=> Starts(ch, t[k]))
    /\ ~v => (o.kind = "done" <=> (ch.op = "INSERT" <=> t[k] = Absent))
    /\ o.kind = "done" => o.table[k] = Result(ch)
    /\ o.kind = "conflict" => o.table = t

LEMMA FreeAttempt ==
  ASSUME unique = {}, NEW t \in Table, NEW k \in Key, NEW ch \in Doable, NEW v \in BOOLEAN
  PROVE  FreeTry(ApplyOneOp(t, k, ch, v), t, k, ch, v)
  <1> DEFINE o == ApplyOneOp(t, k, ch, v)
  <1>1. ch.op \in {"INSERT", "UPDATE", "DELETE"}
    BY DEF Doable, Changes, Op
  <1>2. \A u : UniqueHolds(u)
    BY DEF UniqueHolds
  <1>3. \A w : [t EXCEPT ![k] = w][k] = w
    BY DEF Table
  <1>4. CASE ch.op = "DELETE"
    <2> DEFINE u == [t EXCEPT ![k] = Absent]
    <2>1. u[k] = Absent
      BY <1>3
    <2>2. o = IF t[k] # Absent /\ (v => t[k] = ch.old) THEN Done(u) ELSE ConflictAt(t)
      BY <1>4 DEF ApplyOneOp
    <2> HIDE DEF u, o
    <2>3. /\ o.kind \in {"done", "conflict"} /\ (o.kind = "done" <=> t[k] # Absent /\ (v => t[k] = ch.old))
          /\ o.kind = "done" => o.table = u
          /\ o.kind = "conflict" => o.table = t
      BY <2>2 DEF Done, ConflictAt
    <2> QED BY <1>4, <2>1, <2>3 DEF FreeTry, Starts, Result, o
  <1>5. CASE ch.op = "UPDATE"
    <2> DEFINE u == [t EXCEPT ![k] = Bound(ch.new)]
    <2>1. u[k] = Bound(ch.new)
      BY <1>3
    <2>2. o = IF t[k] = Absent \/ (v /\ t[k] # Bound(ch.old)) THEN ConflictAt(t) ELSE Done(u)
      BY <1>2, <1>5 DEF ApplyOneOp
    <2> HIDE DEF u, o
    <2>3. /\ o.kind \in {"done", "conflict"}
          /\ (o.kind = "done" <=> t[k] # Absent /\ (v => t[k] = Bound(ch.old)))
          /\ o.kind = "done" => o.table = u
          /\ o.kind = "conflict" => o.table = t
      BY <2>2 DEF Done, ConflictAt
    <2> QED BY <1>5, <2>1, <2>3 DEF FreeTry, Starts, Result, o
  <1>6. CASE ch.op = "INSERT"
    <2> DEFINE u == [t EXCEPT ![k] = ch.new]
    <2>1. u[k] = ch.new
      BY <1>3
    <2>2. o = IF t[k] = Absent THEN Done(u) ELSE ConflictAt(t)
      BY <1>2, <1>6 DEF ApplyOneOp
    <2> HIDE DEF u, o
    <2>3. /\ o.kind \in {"done", "conflict"} /\ (o.kind = "done" <=> t[k] = Absent)
          /\ o.kind = "done" => o.table = u
          /\ o.kind = "conflict" => o.table = t
      BY <2>2 DEF Done, ConflictAt
    <2> QED BY <1>6, <2>1, <2>3 DEF FreeTry, Starts, Result, o
  <1> QED BY <1>1, <1>4, <1>5, <1>6

\* What a step without UNIQUE columns does at its key: the change is made,
\* omitted, made after REPLACE, or omitted after it.
Outcome(k, ch) ==
    LET row == db[ap.to][k]
        new == db'[ap.to][k]
    IN \/ Starts(ch, row) /\ new = Result(ch) /\ reb' = reb
       \/ ~Starts(ch, row) /\ new = row /\ reb' = Noted(reb, k, ch, FALSE)
       \/ /\ ~Starts(ch, row) /\ new = Result(ch) /\ reb' = Noted(reb, k, ch, TRUE)
          /\ <<k, "replace">> \in asked' /\ (ch.op = "INSERT" \/ row # Absent)
       \/ /\ ch.op # "INSERT" /\ row = Absent /\ new = Absent
          /\ reb' = Noted(Noted(reb, k, ch, TRUE), k, ch, FALSE)

LEMMA FreeStep ==
  ASSUME STypes, Applying, unique = {}, NEW k, NEW ch, HandOf(k, ch),
         \/ ApplyChange(k, ch) \/ EngineError(k, ch) \/ Buffer(k, ch)
         \/ AbortVerdict(k, ch) \/ OmitVerdict(k, ch) \/ ReplaceVerdict(k, ch),
         stage' # "failed"
  PROVE  /\ ap' = Consumed(k) /\ Outcome(k, ch)
         /\ \E t \in Table : Handled(k, ch, t)
  <1>0. ~Fail
    BY DEF Fail
  <1>1. ApplyChange(k, ch) \/ Buffer(k, ch) \/ OmitVerdict(k, ch) \/ ReplaceVerdict(k, ch)
    BY <1>0 DEF EngineError, AbortVerdict
  <1>2. \E t \in Table : Handled(k, ch, t)
    BY <1>1, StepHandled
  <1> DEFINE t == db[ap.to]
             s == IF ch.op = "INSERT" THEN [t EXCEPT ![k] = Absent] ELSE t
             f == First(k, ch)
             g == Second(k, ch)
  <1>3. ap.to \in Node /\ t \in Table /\ k \in Key /\ ch \in Doable /\ DOMAIN db = Node
    BY AttemptTypes DEF HandOf, STypes
  <1>4. s \in Table /\ s[k] = IF ch.op = "INSERT" THEN Absent ELSE t[k]
    BY <1>3 DEF Table
  <1>5. f = ApplyOneOp(t, k, ch, TRUE) /\ g = ApplyOneOp(s, k, ch, FALSE)
    BY DEF First, Second
  <1> HIDE DEF s
  <1>6. FreeTry(f, t, k, ch, TRUE) /\ FreeTry(g, s, k, ch, FALSE)
    <2>1. FreeTry(ApplyOneOp(t, k, ch, TRUE), t, k, ch, TRUE)
      BY <1>3, FreeAttempt
    <2>2. FreeTry(ApplyOneOp(s, k, ch, FALSE), s, k, ch, FALSE)
      BY <1>3, <1>4, FreeAttempt
    <2> HIDE DEF FreeTry, f, g, t
    <2> QED BY <1>5, <2>1, <2>2
  <1>7. /\ f.kind = "done" => Starts(ch, t[k]) /\ f.table[k] = Result(ch)
        /\ f.kind = "conflict" => ~Starts(ch, t[k]) /\ f.table = t
    BY <1>6 DEF FreeTry
  <1>8. /\ g.kind \in {"done", "conflict"}
        /\ g.kind = "done" <=> (ch.op = "INSERT" <=> s[k] = Absent)
        /\ g.kind = "done" => g.table[k] = Result(ch)
        /\ g.kind = "conflict" => g.table = s
    BY <1>6 DEF FreeTry
  <1>9. \A u : Store(u) => db'[ap.to] = u
    BY <1>3 DEF Store
  <1>10. f.kind = "conflict" => ~Deferred(t, k, ch)
    <2>1. ch.op = "INSERT" => (Starts(ch, t[k]) <=> t[k] = Absent)
      BY DEF Starts
    <2> QED BY <1>7, <2>1 DEF Deferred
  <1>11. ~Buffer(k, ch)
    BY <1>10 DEF Buffer
  <1>12. CASE ApplyChange(k, ch)
    BY <1>7, <1>9, <1>12, <1>2 DEF ApplyChange, Outcome
  <1>13. CASE OmitVerdict(k, ch)
    BY <1>7, <1>13, <1>2 DEF OmitVerdict, ToHandler, Outcome
  <1>14. CASE ReplaceVerdict(k, ch)
    <2>1. f.kind = "conflict"
      BY <1>14 DEF ReplaceVerdict, ToHandler
    <2>2. CASE g.kind = "done"
      <3>1. /\ reb' = Noted(reb, k, ch, TRUE) /\ ap' = Consumed(k) /\ Store(g.table)
            /\ <<k, "replace">> \in asked'
        BY <1>0, <1>14, <2>2 DEF ReplaceVerdict
      <3>2. db'[ap.to][k] = Result(ch)
        BY <1>8, <1>9, <2>2, <3>1
      <3>3. ch.op = "INSERT" \/ t[k] # Absent
        BY <1>4, <1>8, <2>2
      <3> QED BY <1>2, <1>7, <2>1, <3>1, <3>2, <3>3 DEF Outcome
    <2>3. CASE g.kind = "conflict"
      <3>1. ch.op # "INSERT" /\ t[k] = Absent /\ g.table = s /\ s[k] = Absent
        BY <1>4, <1>8, <2>3
      <3>2. ~Deferred(g.table, k, ch)
        BY <3>1 DEF Deferred
      <3>3. /\ reb' = Noted(Noted(reb, k, ch, TRUE), k, ch, FALSE) /\ ap' = Consumed(k) /\ Store(g.table)
        BY <1>0, <1>14, <2>3, <3>2 DEF ReplaceVerdict
      <3>4. db'[ap.to][k] = Absent
        BY <1>9, <3>1, <3>3
      <3> QED BY <1>2, <3>1, <3>3, <3>4 DEF Outcome
    <2> QED BY <1>8, <2>2, <2>3
  <1> QED BY <1>1, <1>11, <1>12, <1>13, <1>14
\* The records a verdict adds for a key that had none.
LEMMA NotedFirst ==
  ASSUME stage = "applied", NEW k, k \notin DOMAIN reb, NEW ch
  PROVE  /\ \A b : k \in DOMAIN Noted(reb, k, ch, b) /\ Noted(reb, k, ch, b)[k] = RebaseOf(ch, b)
         /\ LET q == Noted(Noted(reb, k, ch, TRUE), k, ch, FALSE)
            IN  k \in DOMAIN q /\ q[k] = RebaseMerge(RebaseOf(ch, TRUE), RebaseOf(ch, FALSE))
  <1>1. \A r, b : LET q == Noted(r, k, ch, b)
                  IN  /\ k \in DOMAIN q
                      /\ q[k] = IF k \in DOMAIN r THEN RebaseMerge(r[k], RebaseOf(ch, b)) ELSE RebaseOf(ch, b)
    <2> SUFFICES ASSUME NEW r, NEW b
                 PROVE  /\ k \in DOMAIN Noted(r, k, ch, b)
                        /\ Noted(r, k, ch, b)[k] = IF k \in DOMAIN r THEN RebaseMerge(r[k], RebaseOf(ch, b))
                                                   ELSE RebaseOf(ch, b)
      OBVIOUS
    <2> DEFINE f == RebaseOf(ch, b)
               e == IF k \in DOMAIN r THEN RebaseMerge(r[k], f) ELSE f
    <2>1. RebaseAdd(r, k, ch, b) = [x \in DOMAIN r \cup {k} |-> IF x = k THEN e ELSE r[x]]
      BY DEF RebaseAdd, RebaseOf, With
    <2>2. Noted(r, k, ch, b) = RebaseAdd(r, k, ch, b)
      BY DEF Noted
    <2> HIDE DEF e
    <2>3. k \in DOMAIN Noted(r, k, ch, b) /\ Noted(r, k, ch, b)[k] = e
      BY <2>1, <2>2
    <2> QED BY <2>3 DEF e
  <1>2. \A b : k \in DOMAIN Noted(reb, k, ch, b) /\ Noted(reb, k, ch, b)[k] = RebaseOf(ch, b)
    BY <1>1
  <1> DEFINE p == Noted(reb, k, ch, TRUE)
  <1>3. k \in DOMAIN p /\ p[k] = RebaseOf(ch, TRUE)
    BY <1>2
  <1> HIDE DEF p
  <1>4. k \in DOMAIN Noted(p, k, ch, FALSE) /\ Noted(p, k, ch, FALSE)[k] = RebaseMerge(p[k], RebaseOf(ch, FALSE))
    BY <1>1, <1>3
  <1> QED BY <1>2, <1>3, <1>4 DEF p

\* The local change of a key, rebased.
Back(k) == IF k \notin DOMAIN sent["local"] THEN Absent
           ELSE IF k \in DOMAIN reb THEN RebaseOne(sent["local"][k], reb[k]) ELSE sent["local"][k]

\* The nodes differ by the changes they sent, at k, and the changes fit.
Sent(k) ==
    /\ base[k] # db["remote"][k]
    /\ At(sent["local"], k) = DiffRow(base[k], db["local"][k])
    /\ At(sent["remote"], k) = DiffRow(base[k], db["remote"][k])
    /\ Spaced(base[k], db["local"][k]) /\ Spaced(base[k], db["remote"][k])

\* The keys Converges leaves out.
Exempt == Overruled \cup Crossed

\* The apply has still to come to k.
Waits(k) == Applying /\ k \in DOMAIN ap.todo

\* Where the remote change has been dealt with, the rebased local one leads
\* the remote node to the local row.
AppliedAt(k) ==
    IF Waits(k) THEN Sent(k) /\ ap.todo[k] = DiffRow(base[k], db["remote"][k])
    ELSE k \in Exempt \/ Leads(Back(k), db["remote"][k], db["local"][k])

\* Where the rebased change has been applied the nodes have the same row.
ReturnedAt(k) ==
    \/ k \in Exempt
    \/ Waits(k) /\ Fitting(ap.todo[k], db["remote"][k], db["local"][k])
    \/ ~Waits(k) /\ db["local"][k] = db["remote"][k]

Both == Found /\ unique = {} /\ \A n \in Node : Fits(sent[n])

\* Nothing is put off, and the apply is to the node the stage says.
Straight ==
    Applying => /\ ap.queue = <<>> /\ ap.constraints = <<>>
                /\ ap.to = IF stage = "applied" THEN "local" ELSE "remote"

ConvInv ==
    Both => /\ stage \in {"applied", "returned"} => Straight
            /\ stage = "applied" => \A k \in Key : AppliedAt(k)
            /\ stage = "returned" => \A k \in Key : ReturnedAt(k)

\* The fitting changes of a table, row by row.
LEMMA FitRows ==
  ASSUME base \in Table, NEW u \in Table, NEW cs, cs = Diff(base, u), Fits(cs), NEW k \in Key
  PROVE  At(cs, k) = DiffRow(base[k], u[k]) /\ Spaced(base[k], u[k])
  <1>1. At(cs, k) = DiffRow(base[k], u[k])
    BY DiffIs
  <1>2. Same(cs, base, u)
    BY SameDiff
  <1>3. ASSUME base[k] # u[k], base[k] # Absent, u[k] # Absent, NEW c \in Col, base[k][c] = u[k][c]
        PROVE  base[k][c] = Null
    <2>1. k \in DOMAIN cs /\ cs[k] = DiffRow(base[k], u[k])
      BY <1>2, <1>3 DEF Same
    <2>2. cs[k].op = "UPDATE" /\ cs[k].new = [d \in Col |-> IF base[k][d] = u[k][d] THEN Undef ELSE u[k][d]]
      BY <1>3, <2>1 DEF DiffRow, Change
    <2>3. cs[k].new[c] = Undef
      BY <1>3, <2>2
    <2> QED BY <2>1, <2>2, <2>3 DEF Fits
  <1> QED BY <1>1, <1>3 DEF Spaced

LEMMA DeliverConv ==
  ASSUME STypes, WorkInv, Deliver
  PROVE  ConvInv'
  <1> SUFFICES ASSUME Both' PROVE ConvInv'
    BY DEF ConvInv
  <1>1. /\ stage = "work" /\ stage' = "applied" /\ UNCHANGED <<unique, base, db, mislaid, reb, asked>>
        /\ StartApply("local", Changeset("remote"))
        /\ sent'["local"] = Changeset("local") /\ sent'["remote"] = Changeset("remote")
    BY DEF Deliver, Node
  <1>2. Found
    BY <1>1 DEF Both, Found
  <1>3. "local" \in Node /\ "remote" \in Node /\ base \in Table /\ db["local"] \in Table /\ db["remote"] \in Table
        /\ DOMAIN reb = {}
    BY <1>1 DEF Node, STypes
  <1>4. sent'["local"] = Diff(base, db["local"]) /\ sent'["remote"] = Diff(base, db["remote"])
    BY <1>1, <1>2, <1>3, ChangesetIs DEF WorkInv, Found
  <1>5. ap'.to = "local" /\ ap'.todo = sent'["remote"] /\ ap'.queue = <<>> /\ ap'.constraints = <<>>
    BY <1>1 DEF StartApply
  <1>6. Applying' /\ Straight'
    BY <1>1, <1>5 DEF Applying, Straight
  <1>7. ASSUME NEW k \in Key PROVE AppliedAt(k)'
    <2>1. /\ At(sent'["local"], k) = DiffRow(base[k], db["local"][k]) /\ Spaced(base[k], db["local"][k])
          /\ At(sent'["remote"], k) = DiffRow(base[k], db["remote"][k]) /\ Spaced(base[k], db["remote"][k])
      <3>1. Fits(sent'["local"]) /\ Fits(sent'["remote"])
        BY <1>1, <1>3 DEF Both, Fits
      <3> QED BY <1>3, <1>4, <3>1, FitRows
    <2>2. Same(sent'["remote"], base, db["remote"])
      BY <1>3, <1>4, SameDiff
    <2>3. base[k] \in Slot /\ db["local"][k] \in Slot
      BY <1>3 DEF Table, Slot
    <2>4. CASE k \in DOMAIN sent'["remote"]
      <3>1. Waits(k)' /\ base[k] # db["remote"][k] /\ ap'.todo[k] = DiffRow(base[k], db["remote"][k])
        BY <1>5, <1>6, <2>2, <2>4 DEF Same, Waits
      <3>2. Sent(k)'
        BY <1>1, <2>1, <3>1 DEF Sent
      <3> QED BY <1>1, <3>1, <3>2 DEF AppliedAt
    <2>5. CASE k \notin DOMAIN sent'["remote"]
      <3>1. ~Waits(k)' /\ base[k] = db["remote"][k]
        BY <1>5, <2>2, <2>5 DEF Same, Waits
      <3>2. Back(k)' = DiffRow(base[k], db["local"][k])
        BY <1>1, <1>3, <2>1 DEF Back, At
      <3>3. Leads(DiffRow(base[k], db["local"][k]), base[k], db["local"][k])
        <4>1. CASE base[k] = db["local"][k]
          BY <4>1, <2>3, DiffRowType DEF Leads
        <4>2. CASE base[k] # db["local"][k]
          BY <4>2, <2>1, <2>3, FitStarts
        <4> QED BY <4>1, <4>2
      <3>4. Leads(Back(k)', db'["remote"][k], db'["local"][k])
        BY <1>1, <3>1, <3>2, <3>3
      <3> QED BY <3>1, <3>4 DEF AppliedAt
    <2> QED BY <2>4, <2>5
  <1> QED BY <1>1, <1>6, <1>7 DEF ConvInv

LEMMA ReturnConv ==
  ASSUME STypes, ConvInv, Both, Return
  PROVE  ConvInv'
  <1>1. /\ stage = "applied" /\ ~Applying /\ stage' = "returned" /\ UNCHANGED <<sent, db, asked>>
        /\ StartApply("remote", Rebase(sent["local"], reb))
    BY DEF Return, Elsewhere
  <1>2. ap'.to = "remote" /\ ap'.todo = Rebase(sent["local"], reb) /\ ap'.queue = <<>> /\ ap'.constraints = <<>>
    BY <1>1 DEF StartApply
  <1>3. Applying' /\ Straight'
    BY <1>1, <1>2 DEF Applying, Straight
  <1> DEFINE f == [k \in DOMAIN sent["local"] |->
                     IF k \in DOMAIN reb THEN RebaseOne(sent["local"][k], reb[k]) ELSE sent["local"][k]]
  <1>4. Rebase(sent["local"], reb) = Present(f)
    BY DEF Rebase
  <1>5. \A k : (IF k \in DOMAIN f THEN f[k] ELSE Absent) = Back(k)
    BY DEF Back
  <1> HIDE DEF f
  <1>6. /\ DOMAIN Present(f) = {k \in DOMAIN f : f[k] # Absent}
        /\ \A k : At(Present(f), k) = IF k \in DOMAIN f THEN f[k] ELSE Absent
    BY PresentIs
  <1>7. \A k : /\ k \in DOMAIN ap'.todo => ap'.todo[k] = Back(k) /\ Back(k) # Absent
               /\ k \notin DOMAIN ap'.todo => Back(k) = Absent
    BY <1>2, <1>4, <1>5, <1>6 DEF At
  <1>8. ASSUME NEW k \in Key PROVE ReturnedAt(k)'
    <2>1. k \in Exempt \/ Leads(Back(k), db["remote"][k], db["local"][k])
      BY <1>1 DEF ConvInv, AppliedAt, Waits
    <2>2. Exempt' = Exempt
      BY <1>1 DEF Exempt, Overruled, Crossed, Contested
    <2>3. CASE k \in DOMAIN ap'.todo
      <3>1. Waits(k)' /\ (k \in Exempt \/ Fitting(ap'.todo[k], db["remote"][k], db["local"][k]))
        BY <1>3, <1>7, <2>1, <2>3 DEF Waits, Leads
      <3> QED BY <1>1, <2>2, <3>1 DEF ReturnedAt
    <2>4. CASE k \notin DOMAIN ap'.todo
      <3>1. ~Waits(k)' /\ (k \in Exempt \/ db["remote"][k] = db["local"][k])
        BY <1>7, <2>1, <2>4 DEF Waits, Leads
      <3> QED BY <1>1, <2>2, <3>1 DEF ReturnedAt
    <2> QED BY <2>3, <2>4
  <1> QED BY <1>1, <1>3, <1>8 DEF ConvInv
\* The remote change of k is dealt with.
LEMMA AppliedHere ==
  ASSUME STypes, stage = "applied", ap.to = "local", NEW k \in Key, k \in DOMAIN ap.todo, Applying,
         Sent(k), NEW ch, ch = DiffRow(base[k], db["remote"][k]), Outcome(k, ch),
         sent' = sent, asked \subseteq asked', db'["remote"] = db["remote"]
  PROVE  k \in Exempt' \/ Leads(Back(k)', db'["remote"][k], db'["local"][k])
  <1> DEFINE b == base[k]
             l == db["local"][k]
             r == db["remote"][k]
             x == DiffRow(b, l)
  <1>1. b \in Slot /\ l \in Slot /\ r \in Slot /\ k \notin DOMAIN reb
    BY DEF STypes, Node, Table, Slot
  <1>2. b # r /\ Spaced(b, l) /\ Spaced(b, r) /\ At(sent["local"], k) = x /\ At(sent["remote"], k) = ch
    BY DEF Sent
  <1>3. ch = DiffRow(b, r) /\ db'["remote"][k] = r
    OBVIOUS
  <1>o. \/ Starts(ch, l) /\ db'["local"][k] = Result(ch) /\ reb' = reb
        \/ ~Starts(ch, l) /\ db'["local"][k] = l /\ reb' = Noted(reb, k, ch, FALSE)
        \/ /\ ~Starts(ch, l) /\ db'["local"][k] = Result(ch) /\ reb' = Noted(reb, k, ch, TRUE)
           /\ <<k, "replace">> \in asked' /\ (ch.op = "INSERT" \/ l # Absent)
        \/ /\ ch.op # "INSERT" /\ l = Absent /\ db'["local"][k] = Absent
           /\ reb' = Noted(Noted(reb, k, ch, TRUE), k, ch, FALSE)
    BY DEF Outcome
  <1> HIDE DEF b, l, r
  <1>4. Result(ch) = r /\ (Starts(ch, l) <=> l = b) /\ (b = Absent => ch.op = "INSERT")
    <2>1. Result(ch) = r
      BY <1>1, <1>2, <1>3, FitStarts
    <2>2. \A y \in Slot : Starts(ch, y) <=> y = b
      BY <1>1, <1>2, <1>3, FitStarts
    <2>3. b = Absent => ch.op = "INSERT"
      BY <1>2, <1>3 DEF DiffRow, Change
    <2> QED BY <1>1, <2>1, <2>2, <2>3
  <1>5. b # Absent => ch.op # "INSERT"
    BY <1>2, <1>3 DEF DiffRow, Change
  <1>6. l = b => k \notin DOMAIN sent["local"]
    <2>1. l = b => x = Absent
      BY DEF DiffRow
    <2>2. k \in DOMAIN sent["local"] => sent["local"][k] # Absent
      BY Kinds, PlainFacts DEF STypes, CsOK, Node
    <2> QED BY <1>2, <2>1, <2>2 DEF At
  <1>7. l # b => k \in DOMAIN sent["local"] /\ sent["local"][k] = x
    <2>1. l # b => x # Absent
      BY <1>1, DiffRowType
    <2> QED BY <1>2, <2>1 DEF At
  <1> HIDE DEF x
  <1>8. CASE Starts(ch, l) /\ db'["local"][k] = Result(ch) /\ reb' = reb
    <2>1. Back(k)' = Absent
      BY <1>4, <1>6, <1>8 DEF Back
    <2> QED BY <1>3, <1>4, <1>8, <2>1 DEF Leads
  <1>9. CASE ~Starts(ch, l) /\ db'["local"][k] = l /\ reb' = Noted(reb, k, ch, FALSE)
    <2>1. l # b
      BY <1>4, <1>9
    <2>0. CASE Across(b, l, r)
      <3>1. b # Absent /\ l # Absent /\ r # Absent
        BY <2>0 DEF Across
      <3>2. PICK c \in Col : b[c] = l[c] /\ b[c] # r[c]
        BY <2>0 DEF Across
      <3>3. b \in [Col -> Val] /\ l \in [Col -> Val] /\ r \in [Col -> Val]
        BY <1>1, <3>1 DEF Slot
      <3>4. x.op = "UPDATE" /\ x.new = Side(b, l, l) /\ ch.op = "UPDATE" /\ ch.new = Side(b, r, r) /\ ch # Absent
        BY <1>1, <1>2, <1>3, <2>1, <3>1, ChangeOf DEF x
      <3>5. x.new[c] = Undef /\ ch.new[c] # Undef
        BY <3>2, <3>3, <3>4, SessionAssumption DEF Side
      <3>6. k \in DOMAIN sent["remote"] /\ sent["remote"][k] = ch
        BY <1>2, <3>4 DEF At
      <3>7. k \in DOMAIN sent["local"] /\ sent["local"][k] = x
        BY <1>7, <2>1
      <3>8. k \in Crossed'
        BY <3>4, <3>5, <3>6, <3>7 DEF Crossed, Contested
      <3> QED BY <3>8 DEF Exempt
    <2> SUFFICES ASSUME ~Across(b, l, r)
                 PROVE  k \in Exempt' \/ Leads(Back(k)', db'["remote"][k], db'["local"][k])
      BY <2>0
    <2>2. k \in DOMAIN reb' /\ reb'[k] = RebaseOf(ch, FALSE)
      BY <1>1, <1>9, NotedFirst
    <2>3. Back(k)' = RebaseOne(x, RebaseOf(ch, FALSE))
      BY <1>7, <2>1, <2>2 DEF Back
    <2>4. Leads(RebaseOne(DiffRow(b, l), RebaseOf(DiffRow(b, r), FALSE)), r, l)
      BY <1>1, <1>2, <2>1, OmittedRow
    <2> QED BY <1>3, <1>9, <2>3, <2>4 DEF x
  <1>10. CASE /\ ~Starts(ch, l) /\ db'["local"][k] = Result(ch) /\ reb' = Noted(reb, k, ch, TRUE)
              /\ <<k, "replace">> \in asked' /\ (ch.op = "INSERT" \/ l # Absent)
    <2>1. l # b /\ l # Absent
      BY <1>4, <1>5, <1>10
    <2>2. CASE b = Absent \/ r = Absent
      <3>1. k \in DOMAIN reb' /\ reb'[k] = RebaseOf(ch, TRUE)
        BY <1>1, <1>10, NotedFirst
      <3>2. Back(k)' = RebaseOne(x, RebaseOf(ch, TRUE))
        BY <1>7, <2>1, <3>1 DEF Back
      <3>3. RebaseOne(DiffRow(b, l), RebaseOf(DiffRow(b, r), TRUE)) = Absent
        BY <1>1, <1>2, <2>1, <2>2, ReplacedRow
      <3>4. Back(k)' = Absent
        BY <1>3, <3>2, <3>3 DEF x
      <3> QED BY <1>3, <1>4, <1>10, <3>4 DEF Leads
    <2>3. CASE b # Absent /\ r # Absent
      <3>1. x.op = "UPDATE" /\ ch.op = "UPDATE"
        BY <1>2, <1>3, <2>1, <2>3 DEF x, DiffRow, Change
      <3>2. ch # Absent
        BY <1>1, <1>2, <1>3, DiffRowType
      <3>3. k \in DOMAIN sent["remote"] /\ sent["remote"][k] = ch
        BY <1>2, <3>2 DEF At
      <3>4. k \in DOMAIN sent["local"] /\ sent["local"][k] = x
        BY <1>7, <2>1
      <3> QED BY <1>10, <3>1, <3>3, <3>4 DEF Exempt, Overruled, Contested
    <2> QED BY <2>2, <2>3
  <1>11. CASE /\ ch.op # "INSERT" /\ l = Absent /\ db'["local"][k] = Absent
              /\ reb' = Noted(Noted(reb, k, ch, TRUE), k, ch, FALSE)
    <2>1. b # Absent /\ l # b
      BY <1>4, <1>11
    <2> DEFINE e == RebaseMerge(RebaseOf(ch, TRUE), RebaseOf(ch, FALSE))
    <2>2. k \in DOMAIN reb' /\ reb'[k] = e
      BY <1>1, <1>11, NotedFirst
    <2>3. Back(k)' = RebaseOne(x, e)
      BY <1>7, <2>1, <2>2 DEF Back
    <2>4. Leads(RebaseOne(DiffRow(b, Absent), RebaseMerge(RebaseOf(DiffRow(b, r), TRUE), RebaseOf(DiffRow(b, r), FALSE))),
                r, Absent)
      BY <1>1, <1>2, <2>1, DeletedRow
    <2> QED BY <1>3, <1>11, <2>3, <2>4 DEF x
  <1> QED BY <1>o, <1>8, <1>9, <1>10, <1>11

\* The keys a step does not come to.
LEMMA StepElsewhere ==
  ASSUME STypes, Applying, NEW k, NEW ch, HandOf(k, ch), NEW t \in Table, Handled(k, ch, t), ap' = Consumed(k)
  PROVE  /\ ap'.to = ap.to /\ Applying' /\ ap'.constraints = ap.constraints
         /\ ap'.queue = IF ap.queue = <<>> THEN <<>> ELSE Tail(ap.queue)
         /\ DOMAIN ap'.todo = DOMAIN ap.todo \ {k} /\ \A x \in DOMAIN ap'.todo : ap'.todo[x] = ap.todo[x]
         /\ \A n \in Node, x \in Key : n # ap.to \/ x # k => db'[n][x] = db[n][x]
         /\ \A n \in Node : n # ap.to => db'[n] = db[n]
         /\ Exempt \subseteq Exempt' /\ asked \subseteq asked'
         /\ \A x \in Key : x # k => Back(x)' = Back(x)
         /\ UNCHANGED <<base, sent, stage, unique, mislaid>>
  <1>1. ApOK(ap) /\ ap.to \in Node /\ db \in [Node -> Table]
    BY DEF STypes, ApOK, ApShape, Applying
  <1>2. /\ ap' = [to |-> ap.to, save |-> ap.save, todo |-> ap'.todo, queue |-> ap'.queue,
                  constraints |-> ap.constraints, before |-> ap.before, defer |-> ap.defer]
        /\ DOMAIN ap'.todo = DOMAIN ap.todo \ {k} /\ \A x \in DOMAIN ap'.todo : ap'.todo[x] = ap.todo[x]
        /\ ap'.queue = IF ap.queue = <<>> THEN <<>> ELSE Tail(ap.queue)
    BY <1>1, ConsumedIs
  <1>3. ap'.to = ap.to /\ ap'.constraints = ap.constraints
    BY <1>2
  <1>4. Applying'
    BY <1>3 DEF Applying
  <1>5. /\ db' = [db EXCEPT ![ap.to] = t] /\ \A x \in Key : x # k => t[x] = db[ap.to][x]
        /\ Others(reb', reb, k) /\ asked \subseteq asked' /\ UNCHANGED <<base, sent, stage, unique, mislaid>>
    BY DEF Handled, Elsewhere
  <1>6. \A n \in Node : n # ap.to => db'[n] = db[n]
    BY <1>1, <1>5
  <1>7. \A n \in Node, x \in Key : n # ap.to \/ x # k => db'[n][x] = db[n][x]
    BY <1>1, <1>5
  <1>8. Exempt \subseteq Exempt'
    BY <1>5 DEF Exempt, Overruled, Crossed, Contested
  <1>9. \A x \in Key : x # k => Back(x)' = Back(x)
    <2> SUFFICES ASSUME NEW x \in Key, x # k PROVE Back(x)' = Back(x)
      OBVIOUS
    <2>1. (x \in DOMAIN reb' <=> x \in DOMAIN reb) /\ (x \in DOMAIN reb => reb'[x] = reb[x])
      BY <1>5 DEF Others
    <2> QED BY <1>5, <2>1 DEF Back
  <1> QED BY <1>2, <1>3, <1>4, <1>5, <1>6, <1>7, <1>8, <1>9

LEMMA HandConv ==
  ASSUME STypes, ConvInv, Both, Applying, stage \in {"applied", "returned"}, NEW k, NEW ch, HandOf(k, ch),
         \/ ApplyChange(k, ch) \/ EngineError(k, ch) \/ Buffer(k, ch)
         \/ AbortVerdict(k, ch) \/ OmitVerdict(k, ch) \/ ReplaceVerdict(k, ch),
         stage' # "failed"
  PROVE  ConvInv'
  <1>1. Straight /\ unique = {} /\ ap.queue = <<>> /\ ap.constraints = <<>>
    BY DEF ConvInv, Both, Straight
  <1>2. ap' = Consumed(k) /\ Outcome(k, ch) /\ \E t \in Table : Handled(k, ch, t)
    BY <1>1, FreeStep
  <1>3. PICK t \in Table : Handled(k, ch, t)
    BY <1>2
  <1>4. /\ ap'.to = ap.to /\ Applying' /\ ap'.constraints = ap.constraints
        /\ ap'.queue = IF ap.queue = <<>> THEN <<>> ELSE Tail(ap.queue)
        /\ DOMAIN ap'.todo = DOMAIN ap.todo \ {k} /\ \A x \in DOMAIN ap'.todo : ap'.todo[x] = ap.todo[x]
        /\ \A n \in Node, x \in Key : n # ap.to \/ x # k => db'[n][x] = db[n][x]
        /\ \A n \in Node : n # ap.to => db'[n] = db[n]
        /\ Exempt \subseteq Exempt' /\ asked \subseteq asked'
        /\ \A x \in Key : x # k => Back(x)' = Back(x)
        /\ UNCHANGED <<base, sent, stage, unique, mislaid>>
    BY <1>2, <1>3, StepElsewhere
  <1>5. Straight'
    BY <1>1, <1>4 DEF Straight
  <1>6. k \in Key /\ k \in DOMAIN ap.todo /\ ch = ap.todo[k] /\ "local" \in Node /\ "remote" \in Node
    BY <1>1 DEF HandOf, Node
  <1>7. Waits(k) /\ ~Waits(k)' /\ \A x \in Key : x # k => (Waits(x)' <=> Waits(x))
    BY <1>4, <1>6 DEF Waits
  <1>8. ASSUME NEW x \in Key, x # k
        PROVE  db'["local"][x] = db["local"][x] /\ db'["remote"][x] = db["remote"][x]
    BY <1>4, <1>6, <1>8
  <1>9. CASE stage = "applied"
    <2>1. ap.to = "local" /\ \A x \in Key : AppliedAt(x)
      BY <1>1, <1>9 DEF ConvInv, Straight
    <2>2. AppliedAt(k)'
      <3>1. Sent(k) /\ ch = DiffRow(base[k], db["remote"][k])
        BY <1>6, <1>7, <2>1 DEF AppliedAt
      <3>2. sent' = sent /\ asked \subseteq asked' /\ db'["remote"] = db["remote"]
        BY <1>4, <1>6, <2>1
      <3>3. k \in Exempt' \/ Leads(Back(k)', db'["remote"][k], db'["local"][k])
        BY <1>2, <1>6, <1>9, <2>1, <3>1, <3>2, AppliedHere
      <3> QED BY <1>7, <3>3 DEF AppliedAt
    <2>3. ASSUME NEW x \in Key, x # k PROVE AppliedAt(x)'
      <3>1. AppliedAt(x)
        BY <2>1
      <3>2. CASE Waits(x)
        <4>1. Sent(x)' /\ ap'.todo[x] = ap.todo[x]
          BY <1>4, <1>7, <1>8, <2>3, <3>1, <3>2 DEF AppliedAt, Sent, Waits
        <4> QED BY <1>4, <1>7, <1>8, <2>3, <3>1, <3>2, <4>1 DEF AppliedAt
      <3>3. CASE ~Waits(x)
        <4>1. Back(x)' = Back(x) /\ ~Waits(x)'
          BY <1>4, <1>7, <2>3, <3>3
        <4>2. x \in Exempt \/ Leads(Back(x), db["remote"][x], db["local"][x])
          BY <3>1, <3>3 DEF AppliedAt
        <4>3. x \in Exempt' \/ Leads(Back(x)', db'["remote"][x], db'["local"][x])
          BY <1>4, <1>8, <2>3, <4>1, <4>2
        <4> QED BY <4>1, <4>3 DEF AppliedAt
      <3> QED BY <3>2, <3>3
    <2>4. \A x \in Key : AppliedAt(x)'
      BY <2>2, <2>3
    <2> QED BY <1>4, <1>5, <1>9, <2>4 DEF ConvInv
  <1>10. CASE stage = "returned"
    <2>1. ap.to = "remote" /\ \A x \in Key : ReturnedAt(x)
      BY <1>1, <1>10 DEF ConvInv, Straight
    <2>2. ReturnedAt(k)'
      <3>1. CASE k \in Exempt
        BY <1>4, <3>1 DEF ReturnedAt
      <3>2. CASE Fitting(ch, db["remote"][k], db["local"][k])
        <4>1. Starts(ch, db["remote"][k]) /\ Result(ch) = db["local"][k]
          BY <3>2, FittingStarts
        <4>2. db'["remote"][k] = Result(ch)
          <5>1. Starts(ch, db[ap.to][k])
            BY <2>1, <4>1
          <5>2. ~(ch.op # "INSERT" /\ db[ap.to][k] = Absent)
            BY <5>1 DEF Starts
          <5>3. db'[ap.to][k] = Result(ch)
            BY <1>2, <5>1, <5>2 DEF Outcome
          <5> QED BY <2>1, <5>3
        <4>3. db'["local"][k] = db["local"][k]
          BY <1>4, <1>6, <2>1
        <4> QED BY <1>7, <4>1, <4>2, <4>3 DEF ReturnedAt
      <3> QED BY <1>6, <1>7, <2>1, <3>1, <3>2 DEF ReturnedAt
    <2>3. ASSUME NEW x \in Key, x # k PROVE ReturnedAt(x)'
      <3>1. ReturnedAt(x) /\ (x \in Exempt => x \in Exempt') /\ (Waits(x)' <=> Waits(x))
        BY <1>4, <1>7, <2>1, <2>3
      <3>2. Waits(x) => ap'.todo[x] = ap.todo[x]
        BY <1>4, <2>3 DEF Waits
      <3> QED BY <1>8, <2>3, <3>1, <3>2 DEF ReturnedAt
    <2>4. \A x \in Key : ReturnedAt(x)'
      BY <2>2, <2>3
    <2> QED BY <1>4, <1>5, <1>10, <2>4 DEF ConvInv
  <1> QED BY <1>9, <1>10

LEMMA ApplyConv ==
  ASSUME STypes, ConvInv, Both, ApplyStep
  PROVE  ConvInv'
  <1>0. Applying /\ stage \in {"applied", "undone", "returned"} /\ ApOK(ap)
    BY ApplyStepIs DEF STypes
  <1>1. stage' \in {stage, "failed"}
    BY DEF ApplyStep, ApplyChange, EngineError, Buffer, AbortVerdict, OmitVerdict, ReplaceVerdict,
           RetryRound, Release, Fail
  <1>2. CASE stage' = "failed" \/ stage = "undone"
    BY <1>1, <1>2 DEF ConvInv
  <1>3. CASE stage' # "failed" /\ stage \in {"applied", "returned"}
    <2>1. Straight
      BY <1>3 DEF ConvInv
    <2>2. ~RetryRound
      BY <1>0, <2>1 DEF RetryRound, Straight
    <2>3. CASE Release
      <3>1. InHand = {} /\ ap' = Resting /\ UNCHANGED <<Elsewhere, db, stage, reb, asked>>
        BY <2>3 DEF Release
      <3>2. DOMAIN ap.todo = {}
        BY <1>0, <3>1, Between
      <3>3. ~Applying'
        BY <3>1, Empty DEF Applying
      <3>4. \A k \in Key : ~Waits(k) /\ ~Waits(k)'
        BY <3>2, <3>3 DEF Waits
      <3>5. UNCHANGED <<base, db, stage, reb, asked, sent>>
        BY <3>1 DEF Elsewhere
      <3>6. Exempt' = Exempt /\ \A k \in Key : Back(k)' = Back(k)
        BY <3>5 DEF Exempt, Overruled, Crossed, Contested, Back
      <3>7. stage = "applied" => \A k \in Key : AppliedAt(k)'
        BY <3>4, <3>5, <3>6 DEF ConvInv, AppliedAt
      <3>8. stage = "returned" => \A k \in Key : ReturnedAt(k)'
        BY <3>4, <3>5, <3>6 DEF ConvInv, ReturnedAt
      <3> QED BY <3>3, <3>5, <3>7, <3>8 DEF ConvInv, Straight
    <2> QED BY <1>0, <1>3, <2>2, <2>3, ApplyStepIs, HandConv
  <1> QED BY <1>0, <1>2, <1>3

LEMMA NextConv == STypes /\ WorkInv /\ ConvInv /\ [Next]_vars => ConvInv'
  <1> SUFFICES ASSUME STypes, WorkInv, ConvInv, [Next]_vars, Both' PROVE ConvInv'
    BY DEF ConvInv
  <1>1. CASE UNCHANGED vars
    <2>1. UNCHANGED <<unique, base, db, mislaid, stage, sent, ap, reb, asked>>
      BY <1>1 DEF vars
    <2>2. /\ Both' = Both /\ Straight' = Straight /\ Exempt' = Exempt
          /\ \A k \in Key : Waits(k)' = Waits(k) /\ Back(k)' = Back(k) /\ Sent(k)' = Sent(k)
      BY <2>1 DEF Both, Found, Fits, Straight, Applying, Exempt, Overruled, Crossed, Contested, Waits, Back, Sent
    <2>3. \A k \in Key : AppliedAt(k)' = AppliedAt(k) /\ ReturnedAt(k)' = ReturnedAt(k)
      BY <2>1, <2>2 DEF AppliedAt, ReturnedAt
    <2> QED BY <2>1, <2>2, <2>3 DEF ConvInv
  <1>2. ASSUME NEW n \in Node, Work(n), stage = "work" PROVE ConvInv'
    <2>1. stage' = stage
      BY <1>2, WorkIs DEF Written, Begin, Commit, Rollback, Cut
    <2> QED BY <1>2, <2>1 DEF ConvInv
  <1>3. CASE Deliver
    BY <1>3, DeliverConv
  <1>4. CASE Undo \/ Return \/ ApplyStep
    <2>1. UNCHANGED Elsewhere
      BY <1>4 DEF Undo, Return, ApplyStep, ApplyChange, EngineError, Buffer, AbortVerdict, OmitVerdict,
                  ReplaceVerdict, RetryRound, Release, Fail
    <2>2. Both
      BY <2>1 DEF Both, Found, Fits, Elsewhere
    <2>3. CASE Undo
      BY <2>3 DEF Undo, ConvInv
    <2> QED BY <1>4, <2>2, <2>3, ReturnConv, ApplyConv
  <1> QED BY <1>1, <1>2, <1>3, <1>4 DEF Next

\* Converges: of a table without UNIQUE columns and of UPDATEs whose omitted
\* columns are NULL, the local changeset, rebased over the handler's verdicts
\* and applied to the remote node, leaves both nodes with the same table,
\* except at the keys both updated where the handler took the remote's values
\* or the remote changed a column the local UPDATE leaves out.
THEOREM RebasedChangesConverge == Spec => []Converges
  <1>1. Init => STypes /\ WorkInv /\ ConvInv
    BY InitTypes, InitWork DEF Init, ConvInv
  <1>2. STypes /\ WorkInv /\ ConvInv /\ [Next]_vars => (STypes /\ WorkInv /\ ConvInv)'
    BY NextTypes, NextWork, NextConv
  <1>3. ConvInv => Converges
    BY DEF ConvInv, Both, ReturnedAt, Waits, Exempt, Converges
  <1>4. Spec => Init /\ [][Next]_vars
    BY PTL DEF Spec
  <1> QED BY <1>1, <1>2, <1>3, <1>4, PTL
=============================================================================
