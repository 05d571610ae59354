---------------------------- MODULE PagerProofs ----------------------------
(***************************************************************************)
(* The pager keeps every page accounted for and every commit stored, for   *)
(* any number of pages and statements, any size of the trunks, in DELETE   *)
(* and in WAL mode, with kills and failed writes at any moment of a flush. *)
(*                                                                         *)
(* First what the operators of PagerCommit compute: the chain of the       *)
(* freelist, allocate_page and free_page, the cut of truncate_tail, and    *)
(* the statements built of them.  They are recursive functions over        *)
(* numbers, so what they compute follows by induction over sets of         *)
(* numbers.  Then the invariant, step by step.                             *)
(***************************************************************************)
EXTENDS PagerCommit, FiniteSetTheorems, WellFoundedInduction, SequenceTheorems, TLAPS

-----------------------------------------------------------------------------
(* Induction over numbers, by sets, and the recursive functions it gives. *)

\* A set that holds 0 and with every number the next one holds them all.
LEMMA NatSet ==
  ASSUME NEW S, 0 \in S, \A n \in Nat : n \in S => n + 1 \in S
  PROVE  Nat \subseteq S
  <1>1. SUFFICES ASSUME Nat \ S # {} PROVE FALSE
    OBVIOUS
  <1> DEFINE T == Nat \ S
  <1>2. PICK x \in T : \A y \in T : ~(<<y, x>> \in OpToRel(<, Nat))
    <2>1. T \subseteq Nat /\ T # {}
      BY <1>1
    <2> HIDE DEF T
    <2> QED BY <2>1, WFMin, NatLessThanWellFounded
  <1>3. x # 0 /\ x - 1 \in Nat /\ x - 1 < x
    OBVIOUS
  <1>4. x - 1 \notin T
    BY <1>2, <1>3 DEF OpToRel
  <1>5. x - 1 \in S /\ x = (x - 1) + 1
    BY <1>3, <1>4
  <1> QED BY <1>3, <1>5

\* The same up to a bound.
LEMMA UpTo ==
  ASSUME NEW N \in Nat, NEW S, 0 \in S, \A i \in 0..N-1 : i \in S => i + 1 \in S
  PROVE  N \in S
  <1> DEFINE U == {i \in Nat : i <= N => i \in S}
  <1>1. 0 \in U
    OBVIOUS
  <1>2. ASSUME NEW i \in Nat, i \in U PROVE i + 1 \in U
    <2>1. CASE i + 1 <= N
      <3>1. i \in 0..N-1 /\ i \in S
        BY <1>2, <2>1
      <3> QED BY <3>1
    <2>2. CASE ~(i + 1 <= N)
      BY <2>2
    <2> QED BY <2>1, <2>2
  <1>3. Nat \subseteq U
    <2> HIDE DEF U
    <2> QED BY <1>1, <1>2, NatSet
  <1> QED BY <1>3

\* A recursion whose step i is the function g[i] from X to X has a solution.
Solves(f, x0, g, N) == f = [i \in 0..N |-> IF i = 0 THEN x0 ELSE g[i][f[i - 1]]]

\* The function that such a recursion denotes: induction over sets of numbers,
\* not over predicates, builds it step by step.
LEMMA Recursion ==
  ASSUME NEW X, NEW x0 \in X, NEW N \in Nat, NEW g \in [1..N -> [X -> X]]
  PROVE  \E f \in [0..N -> X] : Solves(f, x0, g, N)
  <1> DEFINE S == {n \in 0..N : \E f \in [0..n -> X] : Solves(f, x0, g, n)}
  <1>1. 0 \in S
    <2> DEFINE f == [i \in 0..0 |-> x0]
    <2>1. f \in [0..0 -> X] /\ Solves(f, x0, g, 0)
      BY DEF Solves
    <2> QED BY <2>1
  <1>2. ASSUME NEW n \in 0..N-1, n \in S PROVE n + 1 \in S
    <2>1. PICK f \in [0..n -> X] : Solves(f, x0, g, n)
      BY <1>2
    <2> DEFINE h == [i \in 0..n+1 |-> IF i <= n THEN f[i] ELSE g[i][f[n]]]
    <2>2. h \in [0..n+1 -> X]
      OBVIOUS
    <2>3. ASSUME NEW i \in 0..n+1 PROVE h[i] = IF i = 0 THEN x0 ELSE g[i][h[i - 1]]
      <3>1. CASE i = 0
        BY <2>1, <3>1 DEF Solves
      <3>2. CASE i \in 1..n
        BY <2>1, <3>2 DEF Solves
      <3>3. CASE i = n + 1
        BY <2>1, <3>3
      <3> QED BY <3>1, <3>2, <3>3
    <2>4. Solves(h, x0, g, n + 1)
      BY <2>2, <2>3 DEF Solves
    <2> HIDE DEF h
    <2>5. \E e \in [0..n+1 -> X] : Solves(e, x0, g, n + 1)
      BY <2>2, <2>4
    <2> QED BY <2>5
  <1>3. N \in S
    <2> HIDE DEF S
    <2> QED BY <1>1, <1>2, UpTo
  <1> QED BY <1>3

-----------------------------------------------------------------------------
(* Sequences. *)

\* No element occurs twice.
Once(s) == \A i, j \in 1..Len(s) : s[i] = s[j] => i = j

\* An element is appended.
LEMMA AppendIs ==
  ASSUME NEW X, NEW q \in Seq(X), NEW x \in X
  PROVE  /\ Append(q, x) \in Seq(X) /\ Len(Append(q, x)) = Len(q) + 1 /\ Len(q) \in Nat
         /\ Append(q, x)[Len(q) + 1] = x
         /\ \A i \in 1..Len(q) : Append(q, x)[i] = q[i]
         /\ ToSet(Append(q, x)) = ToSet(q) \cup {x}
  <1> DEFINE r == Append(q, x)
  <1>1. /\ r \in Seq(X) /\ Len(r) = Len(q) + 1 /\ Len(q) \in Nat
        /\ r[Len(q) + 1] = x /\ \A i \in 1..Len(q) : r[i] = q[i]
    OBVIOUS
  <1>2. DOMAIN r = 1..Len(r) /\ DOMAIN q = 1..Len(q)
    BY <1>1
  <1> HIDE DEF r
  <1>3. ASSUME NEW e \in ToSet(r) PROVE e \in ToSet(q) \cup {x}
    <2>1. PICK i \in 1..Len(r) : r[i] = e
      BY <1>2, <1>3 DEF ToSet
    <2>2. i \in 1..Len(q) \/ i = Len(q) + 1
      BY <1>1
    <2> QED BY <1>1, <1>2, <2>1, <2>2 DEF ToSet
  <1>4. ASSUME NEW e \in ToSet(q) \cup {x} PROVE e \in ToSet(r)
    <2>1. CASE e = x
      <3>1. Len(q) + 1 \in DOMAIN r
        BY <1>1, <1>2
      <3> QED BY <1>1, <2>1, <3>1 DEF ToSet
    <2>2. CASE e \in ToSet(q)
      <3>1. PICK i \in 1..Len(q) : q[i] = e
        BY <1>2, <2>2 DEF ToSet
      <3>2. i \in DOMAIN r
        BY <1>1, <1>2
      <3> QED BY <1>1, <3>1, <3>2 DEF ToSet
    <2> QED BY <2>1, <2>2
  <1>5. ToSet(r) = ToSet(q) \cup {x}
    BY <1>3, <1>4
  <1> QED BY <1>1, <1>5 DEF r

\* The elements of a sequence.
LEMMA ToSetIs ==
  ASSUME NEW X, NEW s \in Seq(X)
  PROVE  /\ ToSet(s) = {s[i] : i \in 1..Len(s)} /\ ToSet(s) \subseteq X
         /\ Len(s) \in Nat /\ (ToSet(s) = {} => s = <<>>) /\ DOMAIN s = 1..Len(s)
  <1>1. DOMAIN s = 1..Len(s) /\ Len(s) \in Nat /\ \A i \in 1..Len(s) : s[i] \in X
    OBVIOUS
  <1>2. ASSUME ToSet(s) = {} PROVE s = <<>>
    <2>1. Len(s) = 0
      <3>1. SUFFICES ASSUME Len(s) # 0 PROVE FALSE
        OBVIOUS
      <3>2. 1 \in DOMAIN s
        BY <1>1, <3>1
      <3> QED BY <1>2, <3>2 DEF ToSet
    <2> QED BY <2>1
  <1> QED BY <1>1, <1>2 DEF ToSet

\* What Below keeps.
Kept(b, s, k, N) ==
    /\ b \in Seq(Page)
    /\ \A e : e \in ToSet(b) <=> \E l \in 1..N : s[l] = e /\ e < k
    /\ Once(s) => Once(b)
    /\ b = <<>> => \A l \in 1..N : ~(s[l] < k)
    /\ b # <<>> => \E j \in 1..N : /\ b[Len(b)] = s[j] /\ s[j] < k
                                   /\ \A l \in j+1..N : ~(s[l] < k)

\* One more element is kept or left out.
LEMMA KeptStep ==
  ASSUME NEW s \in Seq(Page), NEW k \in Int, NEW N \in 0..Len(s)-1, NEW b, Kept(b, s, k, N)
  PROVE  Kept(IF s[N + 1] < k THEN Append(b, s[N + 1]) ELSE b, s, k, N + 1)
  <1> DEFINE x == s[N + 1]
             r == Append(b, x)
  <1>0. N + 1 \in 1..Len(s) /\ Len(s) \in Nat /\ N \in Nat
    OBVIOUS
  <1>1. x \in Page /\ b \in Seq(Page) /\ N + 1 \in 1..N+1 /\ \A l \in 1..N+1 : l \in 1..N \/ l = N + 1
    BY <1>0 DEF Kept
  <1>2. CASE x < k
    <2>1. /\ r \in Seq(Page) /\ Len(r) = Len(b) + 1 /\ Len(b) \in Nat /\ r[Len(b) + 1] = x
          /\ \A i \in 1..Len(b) : r[i] = b[i]
          /\ ToSet(r) = ToSet(b) \cup {x}
      BY <1>1, AppendIs
    <2> HIDE DEF r
    <2>2. ASSUME NEW e PROVE e \in ToSet(r) <=> \E l \in 1..N+1 : s[l] = e /\ e < k
      <3>1. e \in ToSet(b) <=> \E l \in 1..N : s[l] = e /\ e < k
        BY DEF Kept
      <3>2. (\E l \in 1..N+1 : s[l] = e /\ e < k) <=> (e = x \/ \E l \in 1..N : s[l] = e /\ e < k)
        BY <1>0, <1>1, <1>2
      <3> QED BY <2>1, <3>1, <3>2
    <2>3. ASSUME Once(s) PROVE Once(r)
      <3>1. ASSUME NEW i \in 1..Len(b) PROVE b[i] # x
        <4>1. b[i] \in ToSet(b)
          BY <1>1, ToSetIs
        <4>2. PICK l \in 1..N : s[l] = b[i]
          BY <4>1 DEF Kept
        <4> QED BY <1>0, <2>3, <4>2 DEF Once
      <3>2. Once(b)
        BY <2>3 DEF Kept
      <3>3. ASSUME NEW i \in 1..Len(r), NEW j \in 1..Len(r), r[i] = r[j] PROVE i = j
        <4>1. (i \in 1..Len(b) \/ i = Len(b) + 1) /\ (j \in 1..Len(b) \/ j = Len(b) + 1)
          BY <2>1
        <4> QED BY <2>1, <3>1, <3>2, <3>3, <4>1 DEF Once
      <3> QED BY <3>3 DEF Once
    <2>4. r # <<>> /\ r[Len(r)] = s[N + 1] /\ s[N + 1] < k
      BY <1>2, <2>1
    <2>5. \A l \in (N + 1)+1..N+1 : ~(s[l] < k)
      BY <1>0
    <2>6. Kept(r, s, k, N + 1)
      <3>1. \E j \in 1..N+1 : /\ r[Len(r)] = s[j] /\ s[j] < k
                              /\ \A l \in j+1..N+1 : ~(s[l] < k)
        BY <1>1, <2>4, <2>5
      <3> HIDE DEF x
      <3> QED BY <2>1, <2>2, <2>3, <2>4, <3>1 DEF Kept
    <2> QED BY <1>2, <2>6 DEF r
  <1>3. CASE ~(x < k)
    <2>1. ASSUME NEW e PROVE (\E l \in 1..N+1 : s[l] = e /\ e < k) <=> (\E l \in 1..N : s[l] = e /\ e < k)
      BY <1>0, <1>1, <1>3
    <2>2. b = <<>> => \A l \in 1..N+1 : ~(s[l] < k)
      BY <1>1, <1>3 DEF Kept
    <2>3. ASSUME b # <<>>
          PROVE  \E j \in 1..N+1 : /\ b[Len(b)] = s[j] /\ s[j] < k
                                   /\ \A l \in j+1..N+1 : ~(s[l] < k)
      <3>1. PICK j \in 1..N : /\ b[Len(b)] = s[j] /\ s[j] < k
                              /\ \A l \in j+1..N : ~(s[l] < k)
        BY <2>3 DEF Kept
      <3>2. j \in 1..N+1 /\ \A l \in j+1..N+1 : l \in j+1..N \/ l = N + 1
        BY <1>0
      <3> QED BY <1>3, <3>1, <3>2
    <2>4. Kept(b, s, k, N + 1)
      BY <2>1, <2>2, <2>3 DEF Kept
    <2> QED BY <1>3, <2>4
  <1> QED BY <1>2, <1>3

\* Below keeps the elements below k, in their order.
LEMMA BelowIs ==
  ASSUME NEW s \in Seq(Page), NEW k \in Int
  PROVE  Kept(Below(s, k), s, k, Len(s))
  <1> DEFINE N == Len(s)
             Eq(f) == f = [i \in 0..N |-> IF i = 0 THEN <<>>
                            ELSE IF s[i] < k THEN Append(f[i - 1], s[i]) ELSE f[i - 1]]
             f == CHOOSE g : Eq(g)
  <1>0. N \in Nat /\ \A i \in 1..N : s[i] \in Page
    OBVIOUS
  <1>1. \E h : Eq(h)
    <2> DEFINE g == [i \in 1..N |-> [x \in Seq(Page) |-> IF s[i] < k THEN Append(x, s[i]) ELSE x]]
    <2>1. g \in [1..N -> [Seq(Page) -> Seq(Page)]] /\ <<>> \in Seq(Page)
      BY <1>0
    <2>2. PICK h \in [0..N -> Seq(Page)] : Solves(h, <<>>, g, N)
      <3> HIDE DEF g
      <3> QED BY <1>0, <2>1, Recursion
    <2>3. Eq(h)
      <3>1. ASSUME NEW i \in 1..N
            PROVE  g[i][h[i - 1]] = IF s[i] < k THEN Append(h[i - 1], s[i]) ELSE h[i - 1]
        <4>1. h[i - 1] \in Seq(Page)
          BY <1>0
        <4> QED BY <4>1
      <3> HIDE DEF g
      <3>2. h = [i \in 0..N |-> IF i = 0 THEN <<>> ELSE g[i][h[i - 1]]]
        BY <2>2 DEF Solves
      <3>3. \A i \in 0..N : i # 0 => i \in 1..N
        BY <1>0
      <3>4. \A i \in 0..N : h[i] = IF i = 0 THEN <<>>
                                   ELSE IF s[i] < k THEN Append(h[i - 1], s[i]) ELSE h[i - 1]
        BY <3>1, <3>2, <3>3
      <3> QED BY <2>2, <3>4
    <2> QED BY <2>3
  <1>2. Eq(f)
    BY <1>1
  <1>3. Below(s, k) = f[N]
    BY DEF Below
  <1> HIDE DEF f, N
  <1> DEFINE S == {i \in 0..N : Kept(f[i], s, k, i)}
  <1>4. 0 \in S
    <2>1. f[0] = <<>>
      BY <1>0, <1>2
    <2>2. Kept(<<>>, s, k, 0)
      BY DEF Kept, Once, ToSet
    <2> QED BY <1>0, <2>1, <2>2
  <1>5. ASSUME NEW i \in 0..N-1, i \in S PROVE i + 1 \in S
    <2>1. i + 1 \in 0..N /\ i + 1 # 0 /\ (i + 1) - 1 = i
      BY <1>0
    <2>2. f[i + 1] = IF s[i + 1] < k THEN Append(f[i], s[i + 1]) ELSE f[i]
      BY <1>2, <2>1
    <2>3. Kept(f[i], s, k, i)
      BY <1>5
    <2>4. Kept(f[i + 1], s, k, i + 1)
      BY <2>2, <2>3, KeptStep DEF N
    <2> QED BY <2>1, <2>4
  <1>6. N \in S
    <2> HIDE DEF S
    <2> QED BY <1>0, <1>4, <1>5, UpTo
  <1> QED BY <1>3, <1>6 DEF N

\* A concatenation: its elements, and when no element occurs twice.
LEMMA ConcatIs ==
  ASSUME NEW X, NEW p \in Seq(X), NEW q \in Seq(X)
  PROVE  /\ p \o q \in Seq(X) /\ Len(p \o q) = Len(p) + Len(q)
         /\ ToSet(p \o q) = ToSet(p) \cup ToSet(q)
         /\ Once(p) /\ Once(q) /\ ToSet(p) \cap ToSet(q) = {} => Once(p \o q)
  <1> DEFINE r == p \o q
             P == Len(p)
             Q == Len(q)
  <1>1. /\ r \in Seq(X) /\ Len(r) = P + Q /\ P \in Nat /\ Q \in Nat
        /\ \A i \in 1..P+Q : r[i] = IF i <= P THEN p[i] ELSE q[i - P]
    BY ConcatProperties
  <1>2. /\ ToSet(r) = {r[i] : i \in 1..P+Q} /\ ToSet(p) = {p[i] : i \in 1..P}
        /\ ToSet(q) = {q[i] : i \in 1..Q}
    BY <1>1, ToSetIs
  <1> HIDE DEF r, P, Q
  <1>3. ASSUME NEW i \in 1..P+Q
        PROVE  \/ i \in 1..P /\ r[i] = p[i] /\ r[i] \in ToSet(p)
               \/ i - P \in 1..Q /\ r[i] = q[i - P] /\ r[i] \in ToSet(q)
    <2>1. CASE i <= P
      BY <1>1, <1>2, <2>1
    <2>2. CASE ~(i <= P)
      <3>1. i - P \in 1..Q /\ r[i] = q[i - P]
        BY <1>1, <2>2
      <3> QED BY <1>2, <3>1
    <2> QED BY <2>1, <2>2
  <1>4. ASSUME NEW e \in ToSet(p) \cup ToSet(q) PROVE e \in ToSet(r)
    <2>1. CASE e \in ToSet(p)
      <3>1. PICK i \in 1..P : e = p[i]
        BY <1>2, <2>1
      <3>2. i \in 1..P+Q /\ r[i] = e
        BY <1>1, <3>1
      <3> QED BY <1>2, <3>2
    <2>2. CASE e \in ToSet(q)
      <3>1. PICK i \in 1..Q : e = q[i]
        BY <1>2, <2>2
      <3>2. i + P \in 1..P+Q /\ ~(i + P <= P) /\ (i + P) - P = i
        BY <1>1
      <3>3. r[i + P] = e
        BY <1>1, <3>1, <3>2
      <3> QED BY <1>2, <3>2, <3>3
    <2> QED BY <2>1, <2>2
  <1>5. ToSet(r) = ToSet(p) \cup ToSet(q)
    <2>1. ASSUME NEW e \in ToSet(r) PROVE e \in ToSet(p) \cup ToSet(q)
      BY <1>2, <1>3, <2>1
    <2> QED BY <1>4, <2>1
  <1>6. ASSUME Once(p), Once(q), ToSet(p) \cap ToSet(q) = {} PROVE Once(r)
    <2>1. ASSUME NEW i \in 1..P+Q, NEW j \in 1..P+Q, r[i] = r[j] PROVE i = j
      <3>1. CASE i \in 1..P /\ r[i] = p[i] /\ r[i] \in ToSet(p)
        <4>1. j \in 1..P /\ r[j] = p[j]
          BY <1>3, <1>6, <2>1, <3>1
        <4> QED BY <1>6, <2>1, <3>1, <4>1 DEF Once, P
      <3>2. CASE i - P \in 1..Q /\ r[i] = q[i - P] /\ r[i] \in ToSet(q)
        <4>1. j - P \in 1..Q /\ r[j] = q[j - P]
          BY <1>3, <1>6, <2>1, <3>2
        <4>2. i - P = j - P
          BY <1>6, <2>1, <3>2, <4>1 DEF Once, Q
        <4> QED BY <1>1, <4>2
      <3> QED BY <1>3, <3>1, <3>2
    <2> QED BY <1>1, <2>1 DEF Once
  <1> QED BY <1>1, <1>5, <1>6 DEF r, P, Q

\* What FlattenSeq makes of the first N of the sequences q.
Joined(r, q, N) ==
    /\ r \in Seq(Page)
    /\ ToSet(r) = UNION {ToSet(q[i]) : i \in 1..N}
    /\ (\A i \in 1..N : Once(q[i])) /\ (\A i, j \in 1..N : i # j => ToSet(q[i]) \cap ToSet(q[j]) = {})
       => Once(r)

\* One more sequence is joined.
LEMMA JoinedStep ==
  ASSUME NEW q \in Seq(Seq(Page)), NEW N \in 0..Len(q)-1, NEW r, Joined(r, q, N)
  PROVE  Joined(r \o q[N + 1], q, N + 1)
  <1> DEFINE x == q[N + 1]
             t == r \o x
  <1>0. N \in Nat /\ N + 1 \in 1..Len(q) /\ Len(q) \in Nat
    OBVIOUS
  <1>1. x \in Seq(Page) /\ r \in Seq(Page) /\ (\A l \in 1..N+1 : l \in 1..N \/ l = N + 1)
        /\ (\A l \in 1..N : l \in 1..N+1 /\ l # N + 1) /\ N + 1 \in 1..N+1
    <2>1. x \in Seq(Page)
      BY <1>0
    <2>2. r \in Seq(Page)
      BY DEF Joined
    <2>3. /\ \A l \in 1..N+1 : l \in 1..N \/ l = N + 1
          /\ \A l \in 1..N : l \in 1..N+1 /\ l # N + 1
          /\ N + 1 \in 1..N+1
      BY <1>0
    <2> QED BY <2>1, <2>2, <2>3
  <1>2. /\ t \in Seq(Page) /\ ToSet(t) = ToSet(r) \cup ToSet(x)
        /\ Once(r) /\ Once(x) /\ ToSet(r) \cap ToSet(x) = {} => Once(t)
    BY <1>1, ConcatIs
  <1> HIDE DEF t
  <1>3. ToSet(r) = UNION {ToSet(q[i]) : i \in 1..N}
    BY DEF Joined
  <1>4. ToSet(t) = UNION {ToSet(q[i]) : i \in 1..N+1}
    <2>1. ASSUME NEW e PROVE e \in ToSet(t) <=> \E i \in 1..N+1 : e \in ToSet(q[i])
      <3>1. e \in ToSet(r) <=> \E i \in 1..N : e \in ToSet(q[i])
        BY <1>3
      <3> QED BY <1>1, <1>2, <3>1
    <2> QED BY <2>1
  <1>5. ASSUME \A i \in 1..N+1 : Once(q[i]),
               \A i, j \in 1..N+1 : i # j => ToSet(q[i]) \cap ToSet(q[j]) = {}
        PROVE  Once(t)
    <2>1. Once(r)
      <3>1. \A i \in 1..N : Once(q[i])
        BY <1>1, <1>5
      <3>2. \A i, j \in 1..N : i # j => ToSet(q[i]) \cap ToSet(q[j]) = {}
        BY <1>1, <1>5
      <3> QED BY <3>1, <3>2 DEF Joined
    <2>2. ASSUME NEW e \in ToSet(r), e \in ToSet(x) PROVE FALSE
      <3>1. PICK i \in 1..N : e \in ToSet(q[i])
        BY <1>3
      <3>2. ToSet(q[i]) \cap ToSet(q[N + 1]) = {}
        BY <1>1, <1>5
      <3> QED BY <2>2, <3>1, <3>2
    <2>3. Once(x)
      BY <1>1, <1>5
    <2> QED BY <1>2, <2>1, <2>2, <2>3
  <1> QED BY <1>2, <1>4, <1>5 DEF Joined, t

\* FlattenSeq joins all of them.
LEMMA FlattenIs ==
  ASSUME NEW q \in Seq(Seq(Page))
  PROVE  Joined(FlattenSeq(q), q, Len(q))
  <1> DEFINE N == Len(q)
  <1>0. N \in Nat /\ \A i \in 1..N : q[i] \in Seq(Page)
    OBVIOUS
  <1>1. Joined(<<>>, q, 0)
    BY DEF Joined, Once, ToSet
  <1>2. CASE Len(q) = 0
    <2>1. FlattenSeq(q) = <<>>
      BY <1>2 DEF FlattenSeq
    <2> QED BY <1>1, <1>2, <2>1
  <1>3. CASE Len(q) # 0
    <2> DEFINE Eq(f) == f = [i \in 1..N |-> IF i = 1 THEN q[i] ELSE f[i - 1] \o q[i]]
               f == CHOOSE g : Eq(g)
    <2>0. FlattenSeq(q) = f[N] /\ N # 0
      BY <1>3 DEF FlattenSeq
    <2> HIDE DEF N
    <2>1. \E h : Eq(h)
      <3> DEFINE g == [i \in 1..N |-> [x \in Seq(Page) |-> x \o q[i]]]
      <3>1. g \in [1..N -> [Seq(Page) -> Seq(Page)]] /\ <<>> \in Seq(Page)
        BY <1>0
      <3>2. PICK h \in [0..N -> Seq(Page)] : Solves(h, <<>>, g, N)
        <4> HIDE DEF g
        <4> QED BY <1>0, <3>1, Recursion
      <3>3. h[0] = <<>>
        BY <1>0, <3>2 DEF Solves
      <3>4. ASSUME NEW i \in 1..N PROVE h[i] = h[i - 1] \o q[i]
        <4>1. h[i - 1] \in Seq(Page)
          BY <1>0
        <4>2. g[i][h[i - 1]] = h[i - 1] \o q[i]
          BY <4>1
        <4> HIDE DEF g
        <4>3. h[i] = g[i][h[i - 1]]
          BY <1>0, <3>2 DEF Solves
        <4> QED BY <4>2, <4>3
      <3> DEFINE k == [i \in 1..N |-> h[i]]
      <3>5. ASSUME NEW i \in 1..N PROVE k[i] = IF i = 1 THEN q[i] ELSE k[i - 1] \o q[i]
        <4>1. CASE i = 1
          <5>0. 1 \in 1..N /\ 1 - 1 = 0
            BY <4>1
          <5>1. q[1] \in Seq(Page)
            BY <1>0, <5>0
          <5>2. h[1] = h[1 - 1] \o q[1]
            BY <3>4, <5>0
          <5>3. h[1] = <<>> \o q[1]
            BY <3>3, <5>0, <5>2
          <5> QED BY <4>1, <5>0, <5>1, <5>3, ConcatEmptySeq
        <4>2. CASE i # 1
          <5>1. i - 1 \in 1..N
            BY <1>0, <4>2
          <5> QED BY <3>4, <4>2, <5>1
        <4> QED BY <4>1, <4>2
      <3>6. Eq(k)
        BY <3>5
      <3> QED BY <3>6
    <2>2. Eq(f)
      BY <2>1
    <2> HIDE DEF f
    <2> DEFINE S == {i \in 0..N : i # 0 => Joined(f[i], q, i)}
    <2>4. 0 \in S
      BY <1>0
    <2>5. ASSUME NEW i \in 0..N-1, i \in S PROVE i + 1 \in S
      <3>1. i + 1 \in 1..N /\ (i + 1) - 1 = i /\ i + 1 \in 0..N
        BY <1>0
      <3>2. CASE i = 0
        <4>1. f[1] = q[1] /\ q[1] \in Seq(Page) /\ 0 \in 0..N-1
          BY <1>0, <2>0, <2>2
        <4>2. Joined(<<>> \o q[0 + 1], q, 0 + 1)
          BY <1>1, <4>1, JoinedStep DEF N
        <4>3. <<>> \o q[1] = q[1]
          BY <4>1, ConcatEmptySeq
        <4>4. 0 + 1 = 1
          OBVIOUS
        <4> QED BY <3>1, <3>2, <4>1, <4>2, <4>3, <4>4
      <3>3. CASE i # 0
        <4>0. i + 1 # 1
          BY <3>1, <3>3
        <4>1. f[i + 1] = f[(i + 1) - 1] \o q[i + 1]
          BY <2>2, <3>1, <4>0
        <4>2. Joined(f[i], q, i)
          BY <2>5, <3>3
        <4>3. Joined(f[i + 1], q, i + 1)
          BY <3>1, <4>1, <4>2, JoinedStep DEF N
        <4> QED BY <3>1, <4>3
      <3> QED BY <3>2, <3>3
    <2>6. N \in S
      <3> HIDE DEF S
      <3> QED BY <1>0, <2>4, <2>5, UpTo
    <2> QED BY <2>0, <2>6 DEF N
  <1> QED BY <1>2, <1>3

\* A sequence without repetition is as long as its set is large.
LEMMA OnceLen ==
  ASSUME NEW X, NEW s \in Seq(X), Once(s)
  PROVE  IsFiniteSet(ToSet(s)) /\ Cardinality(ToSet(s)) = Len(s)
  <1>1. Len(s) \in Nat /\ DOMAIN s = 1..Len(s) /\ ToSet(s) = {s[i] : i \in 1..Len(s)}
    BY ToSetIs
  <1>2. IsFiniteSet(1..Len(s)) /\ Cardinality(1..Len(s)) = Len(s)
    BY <1>1, FS_Interval
  <1>3. s \in Surjection(1..Len(s), ToSet(s)) /\ s \in Injection(1..Len(s), ToSet(s))
    BY <1>1 DEF Surjection, Injection, IsInjective, Once
  <1> QED BY <1>2, <1>3, FS_Surjection

\* Pages of the file, without repetition, are fewer than the bound on them.
LEMMA OnceShort ==
  ASSUME NEW s \in Seq(Page), Once(s)
  PROVE  Len(s) < MaxPages
  <1>1. IsFiniteSet(Page) /\ Cardinality(Page) = MaxPages - 1
    BY PagerAssumption, FS_Interval DEF Page
  <1>2. ToSet(s) \in SUBSET Page
    BY ToSetIs
  <1>3. Cardinality(ToSet(s)) <= MaxPages - 1 /\ Cardinality(ToSet(s)) = Len(s) /\ Len(s) \in Nat
    BY <1>1, <1>2, OnceLen, FS_Subset
  <1> QED BY <1>3, PagerAssumption

-----------------------------------------------------------------------------
(* The chain of the trunks. *)

\* A set of pages, and the numbers a link may have: 0 names none.
Pages == [Page -> Content]
PageNo == 0..MaxPages-1

\* What the kind of a page says about its other fields.
LEMMA ContentIs ==
  ASSUME NEW x \in Content
  PROVE  /\ x.kind = "leaf" => x.val \in {0, 1}
         /\ x.kind = "node" => x.kids \in SUBSET Page
         /\ x.kind = "trunk" => /\ x.next \in PageNo /\ x.entries \in Seq(Page)
                                /\ x.entries \in Seq(Page \ {Root})
                                /\ Root \notin ToSet(x.entries) /\ ToSet(x.entries) \subseteq Page
         /\ x # None
  <1>1. /\ x.kind = "leaf" => x.val \in {0, 1}
        /\ x.kind = "node" => x.kids \in SUBSET Page
        /\ x.kind = "trunk" => x.next \in PageNo /\ x.entries \in Seq(Page \ {Root})
        /\ x # None
    BY DEF Content, Blank, None, PageNo
  <1>2. ASSUME x.kind = "trunk"
        PROVE  /\ x.entries \in Seq(Page) /\ Root \notin ToSet(x.entries)
               /\ ToSet(x.entries) \subseteq Page
    <2> DEFINE s == x.entries
    <2>1. s \in Seq(Page \ {Root})
      BY <1>1, <1>2
    <2> HIDE DEF s
    <2>2. s \in Seq(Page) /\ ToSet(s) \subseteq Page \ {Root}
      BY <2>1, ToSetIs
    <2> QED BY <2>2 DEF s
  <1> QED BY <1>1, <1>2

\* The trunk, leaf and node constructors make pages.
LEMMA MakesContent ==
  /\ Blank \in Content /\ Blank.kind = "blank" /\ Blank # None
  /\ \A v \in {0, 1} : Leaf(v) \in Content /\ Leaf(v).kind = "leaf" /\ Leaf(v).val = v
  /\ \A K \in SUBSET Page : Node(K) \in Content /\ Node(K).kind = "node" /\ Node(K).kids = K
  /\ \A nx \in PageNo, es \in Seq(Page \ {Root}) :
        /\ Trunk(nx, es) \in Content /\ Trunk(nx, es).kind = "trunk"
        /\ Trunk(nx, es).next = nx /\ Trunk(nx, es).entries = es
  BY DEF Content, Blank, None, Leaf, Node, Trunk, PageNo

\* Zero is no page, every other page number is one.
LEMMA PageIs ==
  /\ 0 \notin Page /\ Page \subseteq PageNo /\ Page \subseteq Nat /\ PageNo = Page \cup {0}
  /\ Root \in Page /\ MaxPages \in Nat /\ MaxPages >= 2
  BY PagerAssumption DEF Page, PageNo

\* A page that names no next trunk.
Ends(t) == t.kind # "trunk" \/ t.next = 0

\* A path along the next fields from h, and the one that a walk of N steps makes.
Path(s, h, m) ==
    /\ s \in Seq(Page)
    /\ h = 0 => s = <<>>
    /\ h # 0 => s # <<>> /\ s[1] = h
    /\ \A j \in 1..Len(s)-1 : m[s[j]].kind = "trunk" /\ m[s[j]].next = s[j + 1]
Walked(s, h, m, N) ==
    /\ Path(s, h, m) /\ Len(s) <= N + 1
    /\ Len(s) = N + 1 \/ s = <<>> \/ Ends(m[s[Len(s)]])

\* One step of the walk along the next fields.
LEMMA WalkStep ==
  ASSUME NEW m \in Pages, NEW h \in PageNo, NEW N \in Nat, NEW s, Walked(s, h, m, N)
  PROVE  Walked(IF Len(s) < N + 1 \/ Last(s) \notin Page THEN s
                ELSE IF m[Last(s)].kind # "trunk" \/ m[Last(s)].next = 0 THEN s
                ELSE Append(s, m[Last(s)].next), h, m, N + 1)
  <1> DEFINE L == Len(s)
             l == s[L]
  <1>0. s \in Seq(Page) /\ Last(s) = l
    BY DEF Walked, Path, Last
  <1>1. L \in Nat /\ L <= N + 1 /\ \A i \in 1..L : s[i] \in Page
    BY <1>0 DEF Walked
  <1>2. CASE L < N + 1
    <2>1. s = <<>> \/ Ends(m[s[Len(s)]])
      BY <1>1, <1>2 DEF Walked
    <2>2. Walked(s, h, m, N + 1)
      BY <1>1, <2>1 DEF Walked
    <2> QED BY <1>2, <2>2
  <1>3. CASE ~(L < N + 1)
    <2>1. L = N + 1 /\ L # 0 /\ L \in 1..L /\ s # <<>>
      BY <1>1, <1>3
    <2>2. l \in Page
      BY <1>1, <2>1
    <2>3. CASE Ends(m[l])
      <3>1. Walked(s, h, m, N + 1)
        BY <1>1, <2>3, <2>1 DEF Walked
      <3> QED BY <1>0, <2>3, <3>1 DEF Ends
    <2>4. CASE ~Ends(m[l])
      <3> DEFINE x == m[l].next
                 r == Append(s, x)
      <3>1. m[l] \in Content /\ m[l].kind = "trunk" /\ x # 0
        BY <2>2, <2>4 DEF Pages, Ends
      <3>2. x \in Page
        BY <3>1, ContentIs, PageIs
      <3>3. /\ r \in Seq(Page) /\ Len(r) = L + 1 /\ r[L + 1] = x
            /\ \A i \in 1..L : r[i] = s[i]
        BY <1>0, <3>2, AppendIs
      <3> HIDE DEF r
      <3>4. ASSUME NEW j \in 1..Len(r)-1 PROVE m[r[j]].kind = "trunk" /\ m[r[j]].next = r[j + 1]
        <4>1. j \in 1..L
          BY <1>1, <3>3
        <4>2. CASE j = L
          BY <1>1, <3>1, <3>3, <4>1, <4>2
        <4>3. CASE j # L
          <5>1. j \in 1..L-1 /\ j + 1 \in 1..L
            BY <1>1, <4>1, <4>3
          <5>2. m[s[j]].kind = "trunk" /\ m[s[j]].next = s[j + 1]
            BY <5>1 DEF Walked, Path
          <5> QED BY <3>3, <4>1, <5>1, <5>2
        <4> QED BY <4>2, <4>3
      <3>5. h # 0 /\ r # <<>> /\ r[1] = h
        <4>1. h # 0 /\ s[1] = h
          BY <2>1 DEF Walked, Path
        <4>2. 1 \in 1..L
          BY <1>1, <2>1
        <4> QED BY <1>1, <3>3, <4>1, <4>2
      <3>6. Walked(r, h, m, N + 1)
        BY <1>1, <2>1, <3>3, <3>4, <3>5 DEF Walked, Path
      <3> QED BY <1>0, <1>3, <2>2, <2>4, <3>6 DEF Ends, r
    <2> QED BY <2>3, <2>4
  <1> QED BY <1>2, <1>3

\* Chain walks as many steps as there are pages.
LEMMA ChainIs ==
  ASSUME NEW m \in Pages, NEW h \in PageNo
  PROVE  Walked(Chain(h, m), h, m, MaxPages)
  <1> DEFINE N == MaxPages
             x0 == IF h = 0 THEN <<>> ELSE <<h>>
             G(x, i) == IF Len(x) < i \/ Last(x) \notin Page THEN x
                        ELSE IF m[Last(x)].kind # "trunk" \/ m[Last(x)].next = 0 THEN x
                        ELSE Append(x, m[Last(x)].next)
             Eq(f) == f = [i \in 0..N |-> IF i = 0 THEN x0 ELSE G(f[i - 1], i)]
             f == CHOOSE g : Eq(g)
  <1>0. N \in Nat /\ x0 \in Seq(Page)
    BY PageIs
  <1>1. ASSUME NEW x \in Seq(Page), NEW i \in 1..N PROVE G(x, i) \in Seq(Page)
    <2>1. CASE Last(x) \in Page /\ m[Last(x)].kind = "trunk" /\ m[Last(x)].next # 0
      <3>1. m[Last(x)].next \in Page
        BY <2>1, ContentIs, PageIs DEF Pages
      <3> QED BY <3>1
    <2>2. CASE ~(Last(x) \in Page /\ m[Last(x)].kind = "trunk" /\ m[Last(x)].next # 0)
      BY <2>2
    <2> QED BY <2>1, <2>2
  <1>2. Chain(h, m) = f[N]
    BY DEF Chain
  <1> HIDE DEF G, x0, N
  <1>3. \E e : Eq(e)
    <2> DEFINE g == [i \in 1..N |-> [x \in Seq(Page) |-> G(x, i)]]
    <2>1. g \in [1..N -> [Seq(Page) -> Seq(Page)]]
      BY <1>1
    <2>2. PICK e \in [0..N -> Seq(Page)] : Solves(e, x0, g, N)
      <3> HIDE DEF g
      <3> QED BY <1>0, <2>1, Recursion
    <2>3. ASSUME NEW i \in 1..N PROVE g[i][e[i - 1]] = G(e[i - 1], i)
      <3>1. e[i - 1] \in Seq(Page)
        BY <1>0
      <3> QED BY <3>1
    <2> HIDE DEF g
    <2>4. Eq(e)
      <3>1. ASSUME NEW i \in 0..N PROVE e[i] = IF i = 0 THEN x0 ELSE G(e[i - 1], i)
        <4>1. e[i] = IF i = 0 THEN x0 ELSE g[i][e[i - 1]]
          BY <2>2 DEF Solves
        <4>2. i = 0 \/ i \in 1..N
          BY <1>0
        <4> QED BY <2>3, <4>1, <4>2
      <3> QED BY <3>1
    <2> QED BY <2>4
  <1>4. Eq(f)
    BY <1>3
  <1> HIDE DEF f
  <1> DEFINE S == {i \in 0..N : Walked(f[i], h, m, i)}
  <1>5. 0 \in S
    <2>1. f[0] = x0
      BY <1>0, <1>4
    <2>2. Walked(x0, h, m, 0)
      <3>1. CASE h = 0
        BY <3>1 DEF Walked, Path, x0
      <3>2. CASE h # 0
        <4>1. h \in Page /\ x0 = <<h>>
          BY <3>2, PageIs DEF x0
        <4>2. <<h>> \in Seq(Page) /\ Len(<<h>>) = 1 /\ <<h>>[1] = h /\ <<h>> # <<>>
          BY <4>1
        <4> QED BY <3>2, <4>1, <4>2 DEF Walked, Path
      <3> QED BY <3>1, <3>2
    <2> QED BY <1>0, <2>1, <2>2
  <1>6. ASSUME NEW i \in 0..N-1, i \in S PROVE i + 1 \in S
    <2>1. i + 1 \in 0..N /\ i + 1 # 0 /\ (i + 1) - 1 = i /\ i \in Nat
      BY <1>0
    <2>2. f[i + 1] = G(f[i], i + 1)
      BY <1>4, <2>1
    <2>3. Walked(f[i], h, m, i)
      BY <1>6
    <2>4. Walked(G(f[i], i + 1), h, m, i + 1)
      BY <2>1, <2>3, WalkStep DEF G
    <2> QED BY <2>1, <2>2, <2>4
  <1>7. N \in S
    <2> HIDE DEF S
    <2> QED BY <1>0, <1>5, <1>6, UpTo
  <1> QED BY <1>2, <1>7 DEF N

\* The walk follows every path from the same page.
LEMMA PathIn ==
  ASSUME NEW m \in Pages, NEW h \in PageNo, NEW N \in Nat, NEW d, NEW p,
         Walked(d, h, m, N), Path(p, h, m), Len(p) <= N + 1
  PROVE  Len(p) <= Len(d) /\ \A i \in 1..Len(p) : p[i] = d[i]
  <1> DEFINE L == Len(p)
             S == {i \in 0..L : i <= Len(d) /\ \A j \in 1..i : p[j] = d[j]}
  <1>0. /\ L \in Nat /\ Len(d) \in Nat /\ d \in Seq(Page) /\ p \in Seq(Page)
        /\ \A i \in 1..L : p[i] \in Page
    BY DEF Walked, Path
  <1>1. 0 \in S
    BY <1>0
  <1>2. ASSUME NEW i \in 0..L-1, i \in S PROVE i + 1 \in S
    <2>1. i + 1 \in 0..L /\ i + 1 \in 1..L /\ i \in Nat /\ i <= Len(d)
      BY <1>0, <1>2
    <2>2. \A j \in 1..i : p[j] = d[j]
      BY <1>2
    <2>3. i + 1 <= Len(d) /\ p[i + 1] = d[i + 1]
      <3>1. CASE i = 0
        <4>1. h # 0 /\ p[1] = h /\ d # <<>> /\ d[1] = h
          <5>1. p # <<>>
            BY <1>0, <2>1
          <5> QED BY <5>1 DEF Walked, Path
        <4> QED BY <1>0, <3>1, <4>1
      <3>2. CASE i # 0
        <4>1. i \in 1..i /\ i \in 1..L-1
          BY <1>0, <2>1, <3>2
        <4>2. p[i] = d[i] /\ m[p[i]].kind = "trunk" /\ m[p[i]].next = p[i + 1]
          BY <2>2, <4>1 DEF Path
        <4>3. p[i + 1] # 0
          BY <1>0, <2>1, PageIs
        <4>4. i # Len(d)
          <5>1. SUFFICES ASSUME i = Len(d) PROVE FALSE
            OBVIOUS
          <5>2. Len(d) # N + 1 /\ d # <<>>
            BY <1>0, <2>1, <3>2, <5>1
          <5>3. Ends(m[d[Len(d)]])
            BY <5>2 DEF Walked
          <5> QED BY <4>2, <4>3, <5>1, <5>3 DEF Ends
        <4>5. i + 1 <= Len(d) /\ i \in 1..Len(d)-1
          BY <1>0, <2>1, <3>2, <4>4
        <4>6. m[d[i]].next = d[i + 1]
          BY <4>5 DEF Walked, Path
        <4> QED BY <4>2, <4>5, <4>6
      <3> QED BY <3>1, <3>2
    <2>4. \A j \in 1..i+1 : j \in 1..i \/ j = i + 1
      BY <2>1
    <2> QED BY <2>1, <2>2, <2>3, <2>4
  <1>3. L \in S
    <2> HIDE DEF S, L
    <2> QED BY <1>0, <1>1, <1>2, UpTo
  <1> QED BY <1>3

\* A path that ends, or fills the walk, is the chain.
LEMMA ChainUnique ==
  ASSUME NEW m \in Pages, NEW h \in PageNo, NEW c, Walked(c, h, m, MaxPages)
  PROVE  Chain(h, m) = c
  <1> DEFINE d == Chain(h, m)
  <1>1. Walked(d, h, m, MaxPages) /\ MaxPages \in Nat
    BY ChainIs, PageIs
  <1> HIDE DEF d
  <1>2. /\ Path(c, h, m) /\ Len(c) <= MaxPages + 1 /\ Path(d, h, m) /\ Len(d) <= MaxPages + 1
    BY <1>1 DEF Walked
  <1>3. Len(c) <= Len(d) /\ \A i \in 1..Len(c) : c[i] = d[i]
    BY <1>1, <1>2, PathIn
  <1>4. Len(d) <= Len(c)
    BY <1>1, <1>2, PathIn
  <1>5. c \in Seq(Page) /\ d \in Seq(Page)
    BY <1>2 DEF Path
  <1>6. Len(c) = Len(d)
    BY <1>3, <1>4, <1>5
  <1>7. c = d
    BY <1>3, <1>5, <1>6, SeqEqual
  <1> QED BY <1>7 DEF d

\* The chain is made of pages and begins with its head.
LEMMA ChainPages ==
  ASSUME NEW m \in Pages, NEW h \in PageNo
  PROVE  /\ Chain(h, m) \in Seq(Page) /\ ToSet(Chain(h, m)) \subseteq Page
         /\ ToSet(Chain(h, m)) = {Chain(h, m)[i] : i \in 1..Len(Chain(h, m))}
         /\ DOMAIN Chain(h, m) = 1..Len(Chain(h, m)) /\ Len(Chain(h, m)) \in Nat
         /\ h # 0 => h \in ToSet(Chain(h, m))
         /\ h = 0 => Chain(h, m) = <<>>
  <1> DEFINE c == Chain(h, m)
  <1>1. Path(c, h, m)
    BY ChainIs DEF Walked
  <1> HIDE DEF c
  <1>2. c \in Seq(Page) /\ (h = 0 => c = <<>>) /\ (h # 0 => c # <<>> /\ c[1] = h)
    BY <1>1 DEF Path
  <1>3. /\ Len(c) \in Nat /\ DOMAIN c = 1..Len(c) /\ ToSet(c) \subseteq Page
        /\ ToSet(c) = {c[i] : i \in 1..Len(c)}
    BY <1>2, ToSetIs
  <1>4. ASSUME h # 0 PROVE h \in ToSet(c)
    <2>1. 1 \in 1..Len(c)
      BY <1>2, <1>3, <1>4
    <2> QED BY <1>2, <1>3, <1>4, <2>1
  <1> QED BY <1>2, <1>3, <1>4 DEF c

\* The two pages are the same to a walk.
Alike(x, y) == x.kind = y.kind /\ (x.kind = "trunk" => x.next = y.next)

\* Pages that agree along the chain have the same chain.
LEMMA ChainFrame ==
  ASSUME NEW m \in Pages, NEW mm \in Pages, NEW h \in PageNo,
         \A t \in ToSet(Chain(h, m)) : Alike(mm[t], m[t])
  PROVE  Chain(h, mm) = Chain(h, m)
  <1> DEFINE c == Chain(h, m)
  <1>1. Walked(c, h, m, MaxPages)
    BY ChainIs
  <1>2. \A i \in 1..Len(c) : Alike(mm[c[i]], m[c[i]])
    BY ChainPages
  <1>0. c \in Seq(Page) /\ Len(c) \in Nat
    BY ChainPages
  <1> HIDE DEF c
  <1>3. ASSUME NEW j \in 1..Len(c)-1 PROVE mm[c[j]].kind = "trunk" /\ mm[c[j]].next = c[j + 1]
    <2>1. m[c[j]].kind = "trunk" /\ m[c[j]].next = c[j + 1]
      BY <1>1 DEF Walked, Path
    <2>2. Alike(mm[c[j]], m[c[j]])
      BY <1>0, <1>2
    <2> QED BY <2>1, <2>2 DEF Alike
  <1>4. Path(c, h, mm)
    BY <1>1, <1>3 DEF Walked, Path
  <1>5. ASSUME c # <<>>, Ends(m[c[Len(c)]]) PROVE Ends(mm[c[Len(c)]])
    <2>1. Len(c) \in 1..Len(c)
      BY <1>0, <1>5
    <2> QED BY <1>2, <1>5, <2>1 DEF Alike, Ends
  <1>6. Walked(c, h, mm, MaxPages)
    BY <1>1, <1>4, <1>5 DEF Walked
  <1> QED BY <1>6, ChainUnique DEF c

-----------------------------------------------------------------------------
(* The freelist as a linked list. *)

\* The trunk after the i-th one: the next of c, then z.
Follow(c, z, i) == IF i < Len(c) THEN c[i + 1] ELSE z

\* The trunks c, linked in order from the head h; the last one names z.
Links(c, z, h, m) ==
    /\ c \in Seq(Page) /\ Once(c)
    /\ h = Follow(c, z, 0)
    /\ \A i \in 1..Len(c) : m[c[i]].kind = "trunk" /\ m[c[i]].next = Follow(c, z, i)

\* Linked trunks are the first of the chain; if the last one names none they
\* are all of it, else the chain goes on with the one it names.
LEMMA LinksChain ==
  ASSUME NEW m \in Pages, NEW h \in PageNo, NEW c, NEW z \in PageNo, Links(c, z, h, m)
  PROVE  /\ z = 0 => Chain(h, m) = c
         /\ z # 0 => z \in ToSet(Chain(h, m))
  <1>0. c \in Seq(Page) /\ Once(c) /\ Len(c) \in Nat
    BY DEF Links
  <1>1. Len(c) < MaxPages /\ MaxPages \in Nat
    BY <1>0, OnceShort, PageIs
  <1>2. CASE z = 0
    <2>1. Path(c, h, m)
      <3>1. h = 0 => c = <<>>
        <4>1. SUFFICES ASSUME h = 0, c # <<>> PROVE FALSE
          OBVIOUS
        <4>2. 0 < Len(c) /\ 1 \in 1..Len(c) /\ 0 + 1 = 1
          BY <1>0, <4>1
        <4>3. c[1] = 0 /\ c[1] \in Page
          BY <1>0, <4>1, <4>2 DEF Links, Follow
        <4> QED BY <4>3, PageIs
      <3>2. h # 0 => c # <<>> /\ c[1] = h
        <4>1. SUFFICES ASSUME h # 0 PROVE c # <<>> /\ c[1] = h
          OBVIOUS
        <4>2. 0 < Len(c)
          BY <1>2, <4>1 DEF Links, Follow
        <4> QED BY <1>0, <4>2 DEF Links, Follow
      <3>3. ASSUME NEW j \in 1..Len(c)-1 PROVE m[c[j]].kind = "trunk" /\ m[c[j]].next = c[j + 1]
        <4>1. j \in 1..Len(c) /\ j < Len(c)
          BY <1>0
        <4> QED BY <4>1 DEF Links, Follow
      <3> QED BY <1>0, <3>1, <3>2, <3>3 DEF Path
    <2>2. ASSUME c # <<>> PROVE Ends(m[c[Len(c)]])
      <3>1. Len(c) \in 1..Len(c) /\ ~(Len(c) < Len(c))
        BY <1>0, <2>2
      <3> QED BY <1>2, <3>1 DEF Links, Follow, Ends
    <2>3. Walked(c, h, m, MaxPages)
      BY <1>0, <1>1, <2>1, <2>2 DEF Walked
    <2>4. Chain(h, m) = c
      BY <2>3, ChainUnique
    <2> QED BY <1>2, <2>4
  <1>3. CASE z # 0
    <2> DEFINE p == Append(c, z)
               d == Chain(h, m)
    <2>0. z \in Page
      BY <1>3, PageIs
    <2>1. /\ p \in Seq(Page) /\ Len(p) = Len(c) + 1 /\ p[Len(c) + 1] = z
          /\ \A i \in 1..Len(c) : p[i] = c[i]
      BY <1>0, <2>0, AppendIs
    <2>2. Walked(d, h, m, MaxPages)
      BY ChainIs
    <2>d. ToSet(d) = {d[i] : i \in 1..Len(d)} /\ Len(d) \in Nat
      BY ChainPages
    <2> HIDE DEF p, d
    <2>3. \A i \in 0..Len(c) : Follow(c, z, i) = p[i + 1]
      <3>1. ASSUME NEW i \in 0..Len(c) PROVE Follow(c, z, i) = p[i + 1]
        <4>1. CASE i < Len(c)
          <5>1. i + 1 \in 1..Len(c)
            BY <1>0, <4>1
          <5> QED BY <2>1, <4>1, <5>1 DEF Follow
        <4>2. CASE ~(i < Len(c))
          <5>1. i = Len(c)
            BY <1>0, <4>2
          <5> QED BY <2>1, <4>2, <5>1 DEF Follow
        <4> QED BY <4>1, <4>2
      <3> QED BY <3>1
    <2>4. h = p[1] /\ p[1] \in Page /\ p # <<>>
      <3>1. 0 \in 0..Len(c) /\ 1 \in 1..Len(p) /\ 0 + 1 = 1
        BY <1>0, <2>1
      <3> QED BY <2>1, <2>3, <3>1 DEF Links
    <2>5. ASSUME NEW j \in 1..Len(p)-1 PROVE m[p[j]].kind = "trunk" /\ m[p[j]].next = p[j + 1]
      <3>1. j \in 1..Len(c) /\ j \in 0..Len(c)
        BY <1>0, <2>1
      <3> QED BY <2>1, <2>3, <3>1 DEF Links
    <2>6. Path(p, h, m)
      BY <2>1, <2>4, <2>5, PageIs DEF Path
    <2>7. Len(p) <= Len(d) /\ p[Len(p)] = d[Len(p)]
      <3>1. Len(p) <= MaxPages + 1 /\ Len(p) \in 1..Len(p)
        BY <1>0, <1>1, <2>1
      <3> QED BY <1>1, <2>2, <2>6, <3>1, PathIn
    <2>8. Len(p) \in 1..Len(d) /\ z = d[Len(p)]
      BY <1>0, <2>1, <2>7, <2>d
    <2>9. z \in ToSet(d)
      BY <2>8, <2>d
    <2> QED BY <1>3, <2>9 DEF d
  <1> QED BY <1>2, <1>3

\* The trunks are closed under the next field, and hold the head.
Closed(T, h, m) ==
    /\ T \subseteq Page /\ h \in T \cup {0}
    /\ \A t \in T : m[t].kind = "trunk" /\ m[t].next \in T \cup {0}

\* A closed set of trunks holds the whole chain from its head.
LEMMA ChainIn ==
  ASSUME NEW m \in Pages, NEW h \in PageNo, NEW T, Closed(T, h, m)
  PROVE  ToSet(Chain(h, m)) \subseteq T
  <1> DEFINE c == Chain(h, m)
             N == Len(c)
             S == {i \in 0..N : \A j \in 1..i : c[j] \in T}
  <1>0. /\ Path(c, h, m) /\ N \in Nat /\ (\A i \in 1..N : c[i] \in Page)
        /\ ToSet(c) = {c[i] : i \in 1..N}
    <2>1. Path(c, h, m)
      BY ChainIs DEF Walked
    <2>2. c \in Seq(Page) /\ N \in Nat /\ ToSet(c) = {c[i] : i \in 1..N}
      BY ChainPages
    <2> HIDE DEF c
    <2> QED BY <2>1, <2>2
  <1> HIDE DEF c, N
  <1>1. 0 \in S
    BY <1>0
  <1>2. ASSUME NEW i \in 0..N-1, i \in S PROVE i + 1 \in S
    <2>1. i + 1 \in 0..N /\ i + 1 \in 1..N /\ \A j \in 1..i+1 : j \in 1..i \/ j = i + 1
      BY <1>0
    <2>2. c[i + 1] \in Page /\ c[i + 1] # 0
      BY <1>0, <2>1, PageIs
    <2>3. c[i + 1] \in T
      <3>1. CASE i = 0
        <4>1. c[1] = h /\ h # 0
          <5>1. c # <<>>
            BY <1>0, <2>1 DEF N
          <5> QED BY <1>0, <5>1 DEF Path
        <4> QED BY <3>1, <4>1 DEF Closed
      <3>2. CASE i # 0
        <4>1. i \in 1..N-1 /\ i \in 1..i
          BY <1>0, <3>2
        <4>2. c[i] \in T
          BY <1>2, <4>1
        <4>3. m[c[i]].next = c[i + 1]
          BY <1>0, <4>1 DEF Path, N
        <4> QED BY <2>2, <4>2, <4>3 DEF Closed
      <3> QED BY <3>1, <3>2
    <2> QED BY <1>2, <2>1, <2>3
  <1>3. N \in S
    <2> HIDE DEF S
    <2> QED BY <1>0, <1>1, <1>2, UpTo
  <1> QED BY <1>0, <1>3 DEF c

\* A chain of trunks is closed, a circular one too.
LEMMA ChainClosed ==
  ASSUME NEW m \in Pages, NEW h \in PageNo, \A t \in ToSet(Chain(h, m)) : m[t].kind = "trunk"
  PROVE  Closed(ToSet(Chain(h, m)), h, m)
  <1> DEFINE c == Chain(h, m)
             T == ToSet(c)
             N == Len(c)
  <1>1. Walked(c, h, m, MaxPages)
    BY ChainIs
  <1>2. c \in Seq(Page) /\ N \in Nat /\ T = {c[i] : i \in 1..N} /\ h \in T \cup {0} /\ T \subseteq Page
    BY ChainPages
  <1>3. \A t \in T : m[t].kind = "trunk"
    OBVIOUS
  <1> HIDE DEF T, N, c
  <1>4. \A j \in 1..N-1 : m[c[j]].next = c[j + 1]
    BY <1>1 DEF Walked, Path, N
  <1>5. ASSUME NEW t \in T PROVE m[t].next \in T \cup {0}
    <2>1. PICK j \in 1..N : t = c[j]
      BY <1>2
    <2>2. CASE j # N
      <3>1. j \in 1..N-1 /\ j + 1 \in 1..N
        BY <1>2, <2>2
      <3> QED BY <1>2, <1>4, <2>1, <3>1
    <2>3. CASE j = N
      <3>1. CASE Ends(m[c[N]])
        BY <1>3, <2>1, <2>3, <3>1 DEF Ends
      <3>2. CASE ~Ends(m[c[N]])
        <4>0. c # <<>>
          BY <1>2, <2>1 DEF N
        <4>1. N = MaxPages + 1 /\ MaxPages \in Nat
          BY <1>1, <3>2, <4>0, PageIs DEF Walked, N
        <4>2. ~Once(c)
          <5>1. SUFFICES ASSUME Once(c) PROVE FALSE
            OBVIOUS
          <5>2. Len(c) < MaxPages
            BY <1>2, <5>1, OnceShort
          <5> QED BY <4>1, <5>2 DEF N
        <4>3. PICK a \in 1..N, b \in 1..N : c[a] = c[b] /\ a < b
          <5>1. PICK a \in 1..N, b \in 1..N : c[a] = c[b] /\ a # b
            BY <4>2 DEF Once, N
          <5>2. a < b \/ b < a
            BY <5>1
          <5> QED BY <5>1, <5>2
        <4> DEFINE D == {e \in 0..N-b : c[a + e] = c[b + e]}
        <4>4. 0 \in D
          BY <1>2, <4>3
        <4>5. ASSUME NEW e \in 0..(N-b)-1, e \in D PROVE e + 1 \in D
          <5>1. a + e \in 1..N-1 /\ b + e \in 1..N-1 /\ e + 1 \in 0..N-b
            BY <1>2, <4>3
          <5>2. c[a + e] = c[b + e]
            BY <4>5
          <5>3. c[(a + e) + 1] = c[(b + e) + 1]
            BY <1>4, <5>1, <5>2
          <5>4. (a + e) + 1 = a + (e + 1) /\ (b + e) + 1 = b + (e + 1)
            BY <5>1
          <5> QED BY <5>1, <5>3, <5>4
        <4>6. N - b \in D
          <5>1. N - b \in Nat
            BY <1>2
          <5> HIDE DEF D
          <5> QED BY <4>4, <4>5, <5>1, UpTo
        <4>7. c[a + (N - b)] = c[N] /\ a + (N - b) \in 1..N-1 /\ (a + (N - b)) + 1 \in 1..N
          <5>1. b + (N - b) = N
            BY <1>2
          <5>2. c[a + (N - b)] = c[b + (N - b)]
            BY <4>6
          <5> QED BY <1>2, <4>3, <5>1, <5>2
        <4>8. m[t].next = c[(a + (N - b)) + 1]
          BY <1>4, <2>1, <2>3, <4>7
        <4> QED BY <1>2, <4>7, <4>8
      <3> QED BY <3>1, <3>2
    <2> QED BY <2>2, <2>3
  <1>6. Closed(T, h, m)
    BY <1>2, <1>3, <1>5 DEF Closed
  <1> QED BY <1>6 DEF T, c

\* The pages of the freelist whose trunks are T, and that it lists none twice.
Free(T, m) == T \cup UNION {ToSet(m[t].entries) : t \in T}
Books(T, m) ==
    /\ \A t \in T : Once(m[t].entries) /\ ToSet(m[t].entries) \cap T = {}
    /\ \A t, u \in T : t # u => ToSet(m[t].entries) \cap ToSet(m[u].entries) = {}
Trunks(T, m) == T \subseteq Page /\ \A t \in T : m[t].kind = "trunk"

\* A sequence over a set is one over any set that holds its elements.
LEMMA SeqIn ==
  ASSUME NEW X, NEW Y, NEW s \in Seq(X), ToSet(s) \subseteq Y
  PROVE  s \in Seq(Y)
  <1>1. ToSet(s) = {s[i] : i \in 1..Len(s)} /\ Len(s) \in Nat /\ DOMAIN s = 1..Len(s)
    BY ToSetIs
  <1>2. \A i \in 1..Len(s) : s[i] \in Y
    BY <1>1
  <1> QED BY <1>1, <1>2

\* The trunks of a freelist and what they list are pages, never the root.
LEMMA FreeIs ==
  ASSUME NEW m \in Pages, NEW T, Trunks(T, m)
  PROVE  /\ Free(T, m) \subseteq Page
         /\ \A t \in T : /\ m[t].entries \in Seq(Page) /\ m[t].next \in PageNo /\ m[t] \in Content
                         /\ ToSet(m[t].entries) \subseteq Page \ {Root}
         /\ m[Root].kind # "trunk" => Root \notin Free(T, m)
         /\ IsFiniteSet(Free(T, m))
  <1>1. ASSUME NEW t \in T
        PROVE  /\ m[t].entries \in Seq(Page) /\ m[t].next \in PageNo /\ m[t] \in Content
               /\ ToSet(m[t].entries) \subseteq Page \ {Root}
    <2>1. m[t] \in Content /\ m[t].kind = "trunk"
      BY DEF Trunks, Pages
    <2> QED BY <2>1, ContentIs
  <1>2. Free(T, m) \subseteq Page
    BY <1>1 DEF Free, Trunks
  <1>3. ASSUME m[Root].kind # "trunk" PROVE Root \notin Free(T, m)
    BY <1>1, <1>3 DEF Free, Trunks
  <1>4. IsFiniteSet(Page)
    BY PagerAssumption, FS_Interval DEF Page
  <1>5. IsFiniteSet(Free(T, m))
    BY <1>2, <1>4, FS_Subset
  <1> QED BY <1>1, <1>2, <1>3, <1>5

\* FreeList lists the pages of the freelist, each once.
LEMMA FreeListIs ==
  ASSUME NEW m \in Pages, NEW c \in Seq(Page), Trunks(ToSet(c), m)
  PROVE  /\ FreeList(c, m) \in Seq(Page) /\ Len(FreeList(c, m)) \in Nat
         /\ ToSet(FreeList(c, m)) = Free(ToSet(c), m)
         /\ Once(c) /\ Books(ToSet(c), m) =>
              Once(FreeList(c, m)) /\ Len(FreeList(c, m)) = Cardinality(Free(ToSet(c), m))
  <1> DEFINE N == Len(c)
             q == [i \in DOMAIN c |-> m[c[i]].entries]
             r == FlattenSeq(q)
             T == ToSet(c)
  <1>0. FreeList(c, m) = c \o r
    BY DEF FreeList
  <1>1. N \in Nat /\ DOMAIN c = 1..N /\ T = {c[i] : i \in 1..N}
    BY ToSetIs
  <1>2. \A t \in T : m[t].entries \in Seq(Page)
    BY FreeIs
  <1>3. q \in Seq(Seq(Page)) /\ Len(q) = N /\ \A i \in 1..N : q[i] = m[c[i]].entries
    <2>1. q = [i \in 1..N |-> m[c[i]].entries] /\ \A i \in 1..N : m[c[i]].entries \in Seq(Page)
      BY <1>1, <1>2
    <2> HIDE DEF N
    <2> QED BY <1>1, <2>1
  <1> HIDE DEF q, N
  <1>4. Joined(r, q, N)
    BY <1>3, FlattenIs
  <1> HIDE DEF r, T
  <1>5. r \in Seq(Page) /\ ToSet(r) = UNION {ToSet(q[i]) : i \in 1..N}
    BY <1>4 DEF Joined
  <1>6. ToSet(r) = UNION {ToSet(m[t].entries) : t \in T}
    <2>1. ASSUME NEW e PROVE (\E i \in 1..N : e \in ToSet(q[i])) <=> (\E t \in T : e \in ToSet(m[t].entries))
      BY <1>1, <1>3
    <2> QED BY <1>5, <2>1
  <1>7. /\ c \o r \in Seq(Page) /\ ToSet(c \o r) = T \cup ToSet(r)
        /\ Once(c) /\ Once(r) /\ T \cap ToSet(r) = {} => Once(c \o r)
    BY <1>5, ConcatIs DEF T
  <1>8. ToSet(c \o r) = Free(T, m)
    BY <1>6, <1>7 DEF Free
  <1>9. ASSUME Once(c), Books(T, m) PROVE Once(c \o r) /\ Len(c \o r) = Cardinality(Free(T, m))
    <2>1. \A i \in 1..N : Once(q[i])
      BY <1>1, <1>3, <1>9 DEF Books
    <2>2. ASSUME NEW i \in 1..N, NEW j \in 1..N, i # j PROVE ToSet(q[i]) \cap ToSet(q[j]) = {}
      <3>1. c[i] # c[j] /\ c[i] \in T /\ c[j] \in T
        BY <1>1, <1>9, <2>2 DEF Once, N
      <3> QED BY <1>3, <1>9, <3>1 DEF Books
    <2>3. Once(r)
      BY <1>4, <2>1, <2>2 DEF Joined
    <2>4. T \cap ToSet(r) = {}
      BY <1>6, <1>9 DEF Books
    <2>5. Once(c \o r)
      BY <1>7, <1>9, <2>3, <2>4
    <2> QED BY <1>7, <1>8, <2>5, OnceLen
  <1>10. Len(c \o r) \in Nat
    BY <1>7
  <1> QED BY <1>0, <1>7, <1>8, <1>9, <1>10 DEF T

-----------------------------------------------------------------------------
(* Operations on the handle. *)

\* What the pre-images and the frames of the log range over.
Undo == [Page -> Content \cup {None}]

\* The fields of a handle.
LEMMA HandleIs ==
  ASSUME NEW w \in Handle
  PROVE  /\ w.n \in 1..MaxPages /\ w.head \in PageNo /\ w.count \in Nat /\ w.zero \in Headers
         /\ w.mem \in Pages /\ w.dirty \in SUBSET Page /\ w.map \in Undo /\ w.undo \in Undo
         /\ w.cut \in 0..MaxPages /\ w.txn \in Headers \cup {NoTxn} /\ w.txn.n \in 0..MaxPages
         /\ (~InTxn(w) <=> w.txn.n = 0)
  <1>1. /\ w.n \in 1..MaxPages /\ w.head \in PageNo /\ w.count \in Nat /\ w.zero \in Headers
        /\ w.mem \in Pages /\ w.dirty \in SUBSET Page /\ w.map \in Undo /\ w.undo \in Undo
        /\ w.cut \in 0..MaxPages /\ w.txn \in Headers \cup {NoTxn}
    BY DEF Handle, PageNo, Pages, Undo
  <1>2. w.txn.n \in 0..MaxPages /\ (~InTxn(w) <=> w.txn.n = 0)
    <2>1. CASE w.txn = NoTxn
      BY <2>1, PageIs DEF NoTxn, InTxn
    <2>2. CASE w.txn \in Headers
      BY <2>2, PageIs DEF NoTxn, InTxn, Headers
    <2> QED BY <1>1, <2>1, <2>2
  <1> QED BY <1>1, <1>2

\* The database that a rollback brings back.
Restored(w) == [p \in Page |-> IF p >= w.txn.n THEN Blank
                               ELSE IF w.undo[p] # None THEN w.undo[p] ELSE w.mem[p]]

\* The part of the handle that a write of pages leaves alone.
Rest(w) == <<w.txn, w.zero, w.map, w.cut, w.n>>

\* v is w after writes of pages: a rollback restores the same, and a page that
\* is not dirty was not written, or was blanked with its body in the file.
Touch(w, v) ==
    /\ Rest(v) = Rest(w) /\ Restored(v) = Restored(w)
    /\ \A p \in Page \ v.dirty :
          /\ v.mem[p] = Blank \/ (p \notin w.dirty /\ v.mem[p] = w.mem[p])
          /\ p \in w.dirty => p < len \/ w.map[p] # None

\* No write at all is a Touch.
LEMMA TouchSelf ==
  ASSUME NEW w
  PROVE  Touch(w, w)
  BY DEF Touch

\* Writes follow writes.
LEMMA TouchTouch ==
  ASSUME NEW u, NEW v, NEW w, Touch(u, v), Touch(v, w)
  PROVE  Touch(u, w)
  <1>1. Rest(w) = Rest(u) /\ Restored(w) = Restored(u) /\ u.map = v.map
    BY DEF Touch, Rest
  <1>2. ASSUME NEW p \in Page \ w.dirty
        PROVE  /\ w.mem[p] = Blank \/ (p \notin u.dirty /\ w.mem[p] = u.mem[p])
               /\ p \in u.dirty => p < len \/ u.map[p] # None
    <2>1. CASE p \in v.dirty
      BY <1>1, <2>1 DEF Touch
    <2>2. CASE p \notin v.dirty
      BY <1>1, <2>2 DEF Touch
    <2> QED BY <2>1, <2>2
  <1> QED BY <1>1, <1>2 DEF Touch

\* Writes of the pages of f, captured first.
Wrote(w, v, f) ==
    /\ v \in Handle /\ Touch(w, v) /\ v.head = w.head /\ v.count = w.count
    /\ v.dirty = w.dirty \cup DOMAIN f
    /\ v.mem = [p \in Page |-> IF p \in DOMAIN f THEN f[p] ELSE w.mem[p]]
    /\ \A p \in Page : w.undo[p] # None => v.undo[p] # None

\* PutAll writes the pages of f and captures them.
LEMMA PutAllIs ==
  ASSUME NEW w \in Handle, NEW f, DOMAIN f \subseteq Page, \A p \in DOMAIN f : f[p] \in Content
  PROVE  Wrote(w, PutAll(w, f), f)
  <1> DEFINE v == PutAll(w, f)
             mm == [p \in Page |-> IF p \in DOMAIN f THEN f[p] ELSE w.mem[p]]
             uu == [p \in Page |-> IF p \in DOMAIN f /\ p < w.txn.n /\ w.undo[p] = None
                                   THEN w.mem[p] ELSE w.undo[p]]
             dd == w.dirty \cup DOMAIN f
  <1>0. w.mem \in Pages /\ w.undo \in Undo /\ w.dirty \in SUBSET Page /\ w.txn.n \in Int
    BY HandleIs
  <1>1. mm \in Pages /\ uu \in Undo /\ dd \in SUBSET Page
    BY <1>0 DEF Pages, Undo
  <1>2. v = [w EXCEPT !.mem = mm, !.dirty = dd, !.undo = uu]
    BY DEF PutAll
  <1> HIDE DEF v, mm, uu, dd
  <1>3. /\ v \in Handle /\ v.mem = mm /\ v.dirty = dd /\ v.undo = uu /\ v.head = w.head
        /\ v.count = w.count /\ Rest(v) = Rest(w) /\ v.txn = w.txn /\ v.map = w.map
    BY <1>1, <1>2 DEF Handle, Pages, Undo, Rest
  <1>4. ASSUME NEW p \in Page PROVE Restored(v)[p] = Restored(w)[p]
    <2>1. w.mem[p] # None
      BY <1>0, ContentIs DEF Pages
    <2>2. Restored(v)[p] = IF p >= w.txn.n THEN Blank ELSE IF uu[p] # None THEN uu[p] ELSE mm[p]
      BY <1>3 DEF Restored
    <2>3. Restored(w)[p] = IF p >= w.txn.n THEN Blank ELSE IF w.undo[p] # None THEN w.undo[p] ELSE w.mem[p]
      BY DEF Restored
    <2>4. uu[p] = IF p \in DOMAIN f /\ p < w.txn.n /\ w.undo[p] = None THEN w.mem[p] ELSE w.undo[p]
      BY DEF uu
    <2>5. mm[p] = IF p \in DOMAIN f THEN f[p] ELSE w.mem[p]
      BY DEF mm
    <2>6. p >= w.txn.n \/ p < w.txn.n
      BY <1>0, PageIs
    <2> QED BY <2>1, <2>2, <2>3, <2>4, <2>5, <2>6
  <1>5. Restored(v) = Restored(w)
    BY <1>4 DEF Restored
  <1>6. Touch(w, v)
    BY <1>3, <1>5 DEF Touch, mm, dd
  <1>7. \A p \in Page : w.undo[p] # None => v.undo[p] # None
    BY <1>3 DEF uu
  <1> QED BY <1>3, <1>6, <1>7 DEF Wrote, mm, dd, v

\* Put writes one page and captures it.
LEMMA PutIs ==
  ASSUME NEW w \in Handle, NEW p \in Page, NEW c \in Content
  PROVE  Wrote(w, Put(w, p, c), [q \in {p} |-> c])
  <1> DEFINE f == [q \in {p} |-> c]
  <1>0. w.mem \in Pages /\ w.undo \in Undo /\ w.dirty \in SUBSET Page /\ w.txn.n \in Int
    BY HandleIs
  <1>1. Put(w, p, c) = PutAll(w, f)
    <2> DEFINE mm == [q \in Page |-> IF q \in DOMAIN f THEN f[q] ELSE w.mem[q]]
               uu == [q \in Page |-> IF q \in DOMAIN f /\ q < w.txn.n /\ w.undo[q] = None
                                     THEN w.mem[q] ELSE w.undo[q]]
               dd == w.dirty \cup DOMAIN f
    <2>1. PutAll(w, f) = [w EXCEPT !.mem = mm, !.dirty = dd, !.undo = uu]
      BY DEF PutAll
    <2>2. mm = [w.mem EXCEPT ![p] = c] /\ dd = w.dirty \cup {p}
      BY <1>0 DEF Pages
    <2>3. CASE p < w.txn.n /\ w.undo[p] = None
      <3>1. uu = [w.undo EXCEPT ![p] = w.mem[p]]
        BY <1>0, <2>3 DEF Undo
      <3> HIDE DEF mm, uu, dd, f
      <3>2. Capture(w, p) = [w EXCEPT !.undo = uu]
        BY <2>3, <3>1 DEF Capture
      <3>3. Put(w, p, c) = [w EXCEPT !.mem = mm, !.dirty = dd, !.undo = uu]
        BY <2>2, <3>2 DEF Put, Handle
      <3> QED BY <2>1, <3>3
    <2>4. CASE ~(p < w.txn.n /\ w.undo[p] = None)
      <3>1. uu = w.undo
        BY <1>0, <2>4 DEF Undo
      <3> HIDE DEF mm, uu, dd, f
      <3>2. Capture(w, p) = w
        BY <2>4 DEF Capture
      <3>3. Put(w, p, c) = [w EXCEPT !.mem = mm, !.dirty = dd, !.undo = uu]
        BY <2>2, <3>1, <3>2 DEF Put, Handle
      <3> QED BY <2>1, <3>3
    <2> QED BY <2>3, <2>4
  <1>2. DOMAIN f \subseteq Page /\ \A q \in DOMAIN f : f[q] \in Content
    OBVIOUS
  <1> HIDE DEF f
  <1>3. Wrote(w, PutAll(w, f), f)
    BY <1>2, PutAllIs
  <1> QED BY <1>1, <1>3 DEF f

\* A captured page has a pre-image; a rollback restores the same as before.
LEMMA CaptureIs ==
  ASSUME NEW w \in Handle, NEW p \in Page
  PROVE  /\ Capture(w, p) \in Handle /\ Touch(w, Capture(w, p))
         /\ Capture(w, p).head = w.head /\ Capture(w, p).count = w.count
         /\ Capture(w, p).dirty = w.dirty /\ Capture(w, p).mem = w.mem
         /\ p < w.txn.n => Capture(w, p).undo[p] # None
  <1>0. w.mem \in Pages /\ w.undo \in Undo /\ w.txn.n \in Int /\ w.mem[p] # None /\ w.mem[p] \in Content
    BY HandleIs, ContentIs DEF Pages
  <1>1. CASE p < w.txn.n /\ w.undo[p] = None
    <2> DEFINE uu == [w.undo EXCEPT ![p] = w.mem[p]]
               v == [w EXCEPT !.undo = uu]
    <2>1. uu \in Undo /\ uu[p] # None /\ (\A q \in Page : q # p => uu[q] = w.undo[q])
          /\ uu[p] = w.mem[p]
      BY <1>0 DEF Undo
    <2>2. Capture(w, p) = v
      BY <1>1 DEF Capture
    <2> HIDE DEF uu
    <2>3. /\ v \in Handle /\ Rest(v) = Rest(w) /\ v.head = w.head /\ v.count = w.count
          /\ v.dirty = w.dirty /\ v.mem = w.mem /\ v.undo = uu /\ v.txn = w.txn
      BY <2>1 DEF Handle, Undo, Rest
    <2> HIDE DEF v
    <2>4. ASSUME NEW q \in Page PROVE Restored(v)[q] = Restored(w)[q]
      <3>1. /\ Restored(v)[q] = IF q >= w.txn.n THEN Blank ELSE IF uu[q] # None THEN uu[q] ELSE w.mem[q]
            /\ Restored(w)[q] = IF q >= w.txn.n THEN Blank
                                ELSE IF w.undo[q] # None THEN w.undo[q] ELSE w.mem[q]
        BY <2>3 DEF Restored
      <3> QED BY <1>1, <2>1, <3>1
    <2>5. Restored(v) = Restored(w)
      BY <2>4 DEF Restored
    <2>6. Touch(w, v)
      BY <2>3, <2>5 DEF Touch
    <2> QED BY <2>1, <2>2, <2>3, <2>6
  <1>2. CASE ~(p < w.txn.n /\ w.undo[p] = None)
    <2>1. Capture(w, p) = w
      BY <1>2 DEF Capture
    <2> QED BY <1>2, <2>1, TouchSelf
  <1> QED BY <1>1, <1>2

\* The head of the freelist is a trunk, and the root a node.
Headed(w) ==
    /\ w \in Handle /\ w.mem[Root].kind = "node"
    /\ w.head # 0 => w.mem[w.head].kind = "trunk"

\* The head of a freelist, as free_page and allocate_page read it.
LEMMA HeadIs ==
  ASSUME NEW w, Headed(w), w.head # 0
  PROVE  /\ w.head \in Page \ {Root} /\ HeadTrunk(w) = w.mem[w.head] /\ w.mem[w.head] \in Content
         /\ w.mem[w.head].kind = "trunk" /\ w.mem[w.head].next \in PageNo
         /\ w.mem[w.head].entries \in Seq(Page \ {Root}) /\ w.mem[w.head].entries \in Seq(Page)
  <1>1. w.head \in PageNo /\ w.mem \in Pages
    BY HandleIs DEF Headed
  <1>2. w.head \in Page /\ w.head # Root
    BY <1>1, PageIs DEF Headed
  <1>3. w.mem[w.head] \in Content /\ w.mem[w.head].kind = "trunk"
    BY <1>1, <1>2 DEF Headed, Pages
  <1> QED BY <1>2, <1>3, ContentIs DEF HeadTrunk

\* What free_page does with a page that is not the head.
IntoHead(w, v, p) ==
    /\ w.head # 0 /\ v.head = w.head /\ v.mem[p] = Blank
    /\ v.mem[w.head] = Trunk(w.mem[w.head].next, Append(w.mem[w.head].entries, p))
NewHead(w, v, p) ==
    v.head = p /\ v.mem[p] = Trunk(w.head, <<>>) /\ (w.head # 0 => v.mem[w.head] = w.mem[w.head])
Freed(w, v, p) ==
    /\ Headed(v) /\ Touch(w, v)
    /\ \A q \in Page : q # p /\ q # w.head => v.mem[q] = w.mem[q]
    /\ \A q \in w.dirty : q # p => q \in v.dirty
    /\ p = w.head => v = w
    /\ p # w.head => v.count = w.count + 1 /\ (IntoHead(w, v, p) \/ NewHead(w, v, p))

\* A page becomes an entry of the head trunk.
LEMMA FreeEntryIs ==
  ASSUME NEW w, Headed(w), NEW p \in Page \ {Root}, p # w.head, w.head # 0, len \in Nat
  PROVE  Freed(w, FreeEntry(w, p), p)
  <1> DEFINE h == w.head
             t == w.mem[h]
             x == Trunk(t.next, Append(t.entries, p))
             u == Capture(w, p)
             y == Put(u, h, x)
             f == [q \in {h} |-> x]
             mm == [y.mem EXCEPT ![p] = Blank]
             dd == IF p >= len /\ w.map[p] = None THEN y.dirty \cup {p} ELSE y.dirty \ {p}
             cc == y.count + 1
             v == FreeEntry(w, p)
  <1>0. /\ h \in Page \ {Root} /\ HeadTrunk(w) = t /\ t.next \in PageNo
        /\ t.entries \in Seq(Page \ {Root}) /\ w \in Handle
    BY HeadIs DEF Headed
  <1>1. x \in Content /\ x.kind = "trunk"
    <2>1. Append(t.entries, p) \in Seq(Page \ {Root})
      BY <1>0
    <2>2. \A nx \in PageNo, es \in Seq(Page \ {Root}) :
            Trunk(nx, es) \in Content /\ Trunk(nx, es).kind = "trunk"
      BY MakesContent
    <2> HIDE DEF t
    <2> QED BY <1>0, <2>1, <2>2
  <1>2. /\ u \in Handle /\ Touch(w, u) /\ u.head = w.head /\ u.count = w.count
        /\ u.dirty = w.dirty /\ u.mem = w.mem /\ (p < w.txn.n => u.undo[p] # None)
    BY <1>0, CaptureIs
  <1>v. v = [y EXCEPT !.mem = mm, !.count = cc, !.dirty = dd]
    BY <1>0 DEF FreeEntry
  <1> HIDE DEF x, u, t, h, v
  <1>3. Wrote(u, y, f)
    BY <1>0, <1>1, <1>2, PutIs
  <1> HIDE DEF y
  <1>4. /\ y \in Handle /\ Touch(u, y) /\ y.head = w.head /\ y.count = w.count
        /\ y.dirty = w.dirty \cup {h} /\ y.mem[h] = x
        /\ (\A q \in Page : q # h => y.mem[q] = w.mem[q])
        /\ (p < w.txn.n => y.undo[p] # None)
    BY <1>0, <1>2, <1>3 DEF Wrote
  <1>5. y.mem \in Pages /\ y.dirty \in SUBSET Page /\ w.txn.n \in Int /\ y.count \in Nat
    BY <1>0, <1>4, HandleIs
  <1>6. /\ mm \in Pages /\ mm[p] = Blank /\ (\A q \in Page : q # p => mm[q] = y.mem[q])
        /\ dd \in SUBSET Page
    BY <1>5, MakesContent DEF Pages
  <1> HIDE DEF mm
  <1>7. /\ (\A q \in Page : q # p => (q \in dd <=> q \in y.dirty))
        /\ p \notin dd => p < len \/ w.map[p] # None
    BY PageIs
  <1>c. cc \in Nat
    BY <1>5
  <1> HIDE DEF dd, cc
  <1>8. /\ v \in Handle /\ v.mem = mm /\ v.dirty = dd /\ v.count = cc /\ v.head = y.head
        /\ Rest(v) = Rest(y) /\ v.undo = y.undo /\ v.txn = y.txn
    BY <1>4, <1>6, <1>c, <1>v DEF Handle, Pages, Rest
  <1>9. y.txn = w.txn /\ y.map = w.map
    BY <1>2, <1>4 DEF Touch, Rest
  <1>10. Touch(y, v)
    <2>1. ASSUME NEW q \in Page PROVE Restored(v)[q] = Restored(y)[q]
      <3>1. /\ Restored(v)[q] = IF q >= w.txn.n THEN Blank ELSE IF y.undo[q] # None THEN y.undo[q] ELSE mm[q]
            /\ Restored(y)[q] = IF q >= w.txn.n THEN Blank
                                ELSE IF y.undo[q] # None THEN y.undo[q] ELSE y.mem[q]
        BY <1>8, <1>9 DEF Restored
      <3>2. q >= w.txn.n \/ q < w.txn.n
        BY <1>5, PageIs
      <3> QED BY <1>4, <1>6, <3>1, <3>2
    <2>2. Restored(v) = Restored(y)
      BY <2>1 DEF Restored
    <2>3. ASSUME NEW q \in Page \ v.dirty
          PROVE  /\ v.mem[q] = Blank \/ (q \notin y.dirty /\ v.mem[q] = y.mem[q])
                 /\ q \in y.dirty => q < len \/ y.map[q] # None
      <3>1. CASE q = p
        BY <1>6, <1>7, <1>8, <1>9, <3>1
      <3>2. CASE q # p
        BY <1>6, <1>7, <1>8, <3>2
      <3> QED BY <3>1, <3>2
    <2> QED BY <1>8, <2>2, <2>3 DEF Touch
  <1>11. Touch(w, v)
    <2>1. Touch(w, y)
      BY <1>2, <1>4, TouchTouch
    <2> QED BY <1>10, <2>1, TouchTouch
  <1>12. \A q \in Page : q # p /\ q # h => v.mem[q] = w.mem[q]
    BY <1>4, <1>6, <1>8
  <1>13. v.mem[h] = x /\ v.mem[p] = Blank /\ v.head = h
    BY <1>0, <1>4, <1>6, <1>8 DEF h
  <1>14. v.mem[Root] = w.mem[Root]
    BY <1>0, <1>12, PageIs
  <1>15. Headed(v)
    BY <1>1, <1>8, <1>13, <1>14 DEF Headed
  <1>16. \A q \in w.dirty : q # p => q \in v.dirty
    BY <1>4, <1>5, <1>7, <1>8
  <1>17. IntoHead(w, v, p)
    BY <1>13 DEF IntoHead, h, x, t
  <1>18. v.count = w.count + 1
    BY <1>4, <1>8 DEF cc
  <1> QED BY <1>11, <1>12, <1>15, <1>16, <1>17, <1>18 DEF Freed, v, h

\* free_page makes of a page an entry of the head trunk or a new head.
LEMMA FreePageIs ==
  ASSUME NEW w, Headed(w), NEW p \in Page \ {Root}, len \in Nat
  PROVE  Freed(w, FreePage(w, p), p)
  <1>1. CASE p = w.head
    <2>1. FreePage(w, p) = w
      BY <1>1 DEF FreePage
    <2> QED BY <1>1, <2>1, TouchSelf DEF Freed
  <1>2. CASE p # w.head /\ w.head # 0 /\ Len(HeadTrunk(w).entries) < TrunkCap
    <2>1. FreePage(w, p) = FreeEntry(w, p)
      BY <1>2 DEF FreePage
    <2> QED BY <1>2, <2>1, FreeEntryIs
  <1>3. CASE p # w.head /\ ~(w.head # 0 /\ Len(HeadTrunk(w).entries) < TrunkCap)
    <2> DEFINE x == Trunk(w.head, <<>>)
               f == [q \in {p} |-> x]
               y == Put(w, p, x)
               cc == y.count + 1
               v == [y EXCEPT !.head = p, !.count = cc]
    <2>1. FreePage(w, p) = v
      BY <1>3 DEF FreePage
    <2>2. w \in Handle /\ w.head \in PageNo /\ w.count \in Nat /\ p \in PageNo
      BY HandleIs, PageIs DEF Headed
    <2>3. x \in Content /\ x.kind = "trunk"
      <3>1. <<>> \in Seq(Page \ {Root})
        OBVIOUS
      <3>2. \A es \in Seq(Page \ {Root}) : Trunk(w.head, es) \in Content /\ Trunk(w.head, es).kind = "trunk"
        BY <2>2, MakesContent
      <3> QED BY <3>1, <3>2
    <2> HIDE DEF x
    <2>4. Wrote(w, y, f)
      BY <2>2, <2>3, PutIs
    <2> HIDE DEF y
    <2>5. /\ y \in Handle /\ Touch(w, y) /\ y.count = w.count /\ y.dirty = w.dirty \cup {p}
          /\ y.mem[p] = x /\ (\A q \in Page : q # p => y.mem[q] = w.mem[q])
      BY <2>4 DEF Wrote
    <2>c. cc \in Nat /\ cc = w.count + 1
      BY <2>2, <2>5
    <2> HIDE DEF cc
    <2>6. /\ v \in Handle /\ v.mem = y.mem /\ v.dirty = y.dirty /\ v.count = cc /\ v.head = p
          /\ Rest(v) = Rest(y) /\ v.undo = y.undo /\ v.txn = y.txn /\ v.map = y.map
      BY <2>2, <2>5, <2>c DEF Handle, Rest, PageNo
    <2> HIDE DEF v
    <2>7. Touch(w, v)
      <3>1. Touch(y, v)
        BY <2>6 DEF Touch, Restored
      <3> QED BY <2>5, <3>1, TouchTouch
    <2>8. Headed(v) /\ NewHead(w, v, p)
      <3>1. v.mem[Root] = w.mem[Root]
        BY <2>5, <2>6, PageIs
      <3>2. w.head # 0 => w.head \in Page
        BY <2>2, PageIs
      <3> QED BY <1>3, <2>3, <2>5, <2>6, <3>1, <3>2 DEF Headed, NewHead, x
    <2> QED BY <1>3, <2>1, <2>5, <2>6, <2>7, <2>8, <2>c DEF Freed
  <1> QED BY <1>1, <1>2, <1>3

\* One element in front of a sequence.
LEMMA ConsIs ==
  ASSUME NEW X, NEW c \in Seq(X), NEW x \in X
  PROVE  /\ <<x>> \o c \in Seq(X) /\ Len(<<x>> \o c) = Len(c) + 1 /\ Len(c) \in Nat
         /\ (<<x>> \o c)[1] = x /\ \A i \in 1..Len(c) : (<<x>> \o c)[i + 1] = c[i]
         /\ ToSet(<<x>> \o c) = {x} \cup ToSet(c)
         /\ Once(c) /\ x \notin ToSet(c) => Once(<<x>> \o c)
  <1> DEFINE o == <<x>>
  <1>1. o \in Seq(X) /\ Len(o) = 1 /\ o[1] = x /\ Len(c) \in Nat
    OBVIOUS
  <1> HIDE DEF o
  <1>2. ToSet(o) = {x} /\ Once(o)
    <2>1. ToSet(o) = {o[i] : i \in 1..Len(o)} /\ 1..Len(o) = {1}
      BY <1>1, ToSetIs
    <2> QED BY <1>1, <2>1 DEF Once
  <1>r. /\ o \o c \in Seq(X) /\ Len(o \o c) = Len(o) + Len(c) /\ ToSet(o \o c) = ToSet(o) \cup ToSet(c)
        /\ (Once(o) /\ Once(c) /\ ToSet(o) \cap ToSet(c) = {} => Once(o \o c))
    BY <1>1, ConcatIs
  <1>s. \A i \in 1..Len(o)+Len(c) : (o \o c)[i] = IF i <= Len(o) THEN o[i] ELSE c[i - Len(o)]
    BY <1>1, ConcatProperties
  <1> DEFINE r == o \o c
  <1> HIDE DEF r
  <1>3. /\ r \in Seq(X) /\ Len(r) = Len(c) + 1 /\ ToSet(r) = {x} \cup ToSet(c)
        /\ (Once(c) /\ x \notin ToSet(c) => Once(r))
    BY <1>1, <1>2, <1>r DEF r
  <1>4. \A i \in 1..1+Len(c) : r[i] = IF i <= 1 THEN o[i] ELSE c[i - 1]
    BY <1>1, <1>s DEF r
  <1>5. r[1] = x
    BY <1>1, <1>4
  <1>6. ASSUME NEW i \in 1..Len(c) PROVE r[i + 1] = c[i]
    <2>1. i + 1 \in 1..1+Len(c) /\ ~(i + 1 <= 1) /\ (i + 1) - 1 = i
      BY <1>1
    <2> QED BY <1>4, <2>1
  <1> QED BY <1>1, <1>3, <1>5, <1>6 DEF o, r

\* The handle's freelist is c, linked, booked once and counted; z is what the
\* last trunk still names.
Listed(w, c, z) ==
    /\ Links(c, z, w.head, w.mem) /\ (z # 0 => c # <<>>)
    /\ Books(ToSet(c), w.mem)
    /\ w.count = Cardinality(Free(ToSet(c), w.mem))
FreeOf(w, c) == Free(ToSet(c), w.mem)

\* Trunks that did not change are linked and booked as before.
LEMMA LinksFrame ==
  ASSUME NEW c, NEW z, NEW h, NEW m, NEW mm, Links(c, z, h, m),
         \A t \in ToSet(c) : Alike(mm[t], m[t])
  PROVE  Links(c, z, h, mm)
  <1>1. c \in Seq(Page)
    BY DEF Links
  <1>2. ASSUME NEW i \in 1..Len(c) PROVE mm[c[i]].kind = "trunk" /\ mm[c[i]].next = Follow(c, z, i)
    <2>1. Alike(mm[c[i]], m[c[i]])
      BY <1>1, ToSetIs
    <2>2. m[c[i]].kind = "trunk" /\ m[c[i]].next = Follow(c, z, i)
      BY DEF Links
    <2> QED BY <2>1, <2>2 DEF Alike
  <1> QED BY <1>2 DEF Links

\* Linked trunks are trunks.
LEMMA LinksTrunks ==
  ASSUME NEW c, NEW z, NEW h, NEW m, Links(c, z, h, m)
  PROVE  /\ Trunks(ToSet(c), m) /\ c \in Seq(Page) /\ Once(c) /\ ToSet(c) \subseteq Page
         /\ c # <<>> => h \in ToSet(c) /\ h = c[1]
         /\ c = <<>> => h = z
  <1>1. c \in Seq(Page) /\ Once(c) /\ h = Follow(c, z, 0) /\ Len(c) \in Nat
    BY DEF Links
  <1>2. ToSet(c) = {c[i] : i \in 1..Len(c)} /\ ToSet(c) \subseteq Page
    BY <1>1, ToSetIs
  <1>3. \A t \in ToSet(c) : m[t].kind = "trunk"
    BY <1>2 DEF Links
  <1>4. ASSUME c # <<>> PROVE h \in ToSet(c) /\ h = c[1]
    <2>1. 0 < Len(c) /\ 1 \in 1..Len(c) /\ 0 + 1 = 1
      BY <1>1, <1>4
    <2> QED BY <1>1, <1>2, <2>1 DEF Follow
  <1>5. ASSUME c = <<>> PROVE h = z
    BY <1>1, <1>5 DEF Follow
  <1> QED BY <1>1, <1>2, <1>3, <1>4, <1>5 DEF Trunks

\* A page that is not on the freelist, freed, is then on it, and nothing else.
LEMMA FreeLists ==
  ASSUME NEW w, Headed(w), NEW p \in Page \ {Root}, NEW c, NEW z, Listed(w, c, z),
         p \notin FreeOf(w, c), NEW v, Freed(w, v, p)
  PROVE  p # w.head /\ \E d : Listed(v, d, z) /\ FreeOf(v, d) = FreeOf(w, c) \cup {p}
  <1> DEFINE T == ToSet(c)
             F == Free(T, w.mem)
             m == w.mem
             mm == v.mem
  <1>1. /\ Trunks(T, m) /\ c \in Seq(Page) /\ Once(c) /\ T \subseteq Page
        /\ (c # <<>> => w.head \in T) /\ (c = <<>> => w.head = z) /\ (c = <<>> => w.head = 0)
    BY LinksTrunks DEF Listed
  <1>2. p \notin F /\ p \notin T /\ (\A t \in T : p \notin ToSet(m[t].entries))
    BY DEF FreeOf, Free
  <1>3. p # w.head /\ p # 0
    BY <1>1, <1>2, PageIs
  <1>4. IsFiniteSet(F) /\ m \in Pages /\ mm \in Pages
    <2>1. m \in Pages /\ mm \in Pages
      BY HandleIs DEF Headed, Freed
    <2> QED BY <1>1, <2>1, FreeIs
  <1>5. v.count = Cardinality(F \cup {p})
    <2>1. v.count = w.count + 1 /\ w.count = Cardinality(F)
      BY <1>3 DEF Freed, Listed
    <2> QED BY <1>2, <1>4, <2>1, FS_AddElement
  <1>6. \A t \in T : t # w.head => mm[t] = m[t]
    BY <1>1, <1>2 DEF Freed
  <1>b. Books(T, m) /\ (z # 0 => c # <<>>) /\ Links(c, z, w.head, m)
    BY DEF Listed
  <1>7. CASE IntoHead(w, v, p)
    <2> DEFINE h == w.head
               e == m[h].entries
               g == Append(e, p)
    <2>0. h # 0 /\ v.head = h /\ mm[h] = Trunk(m[h].next, g)
      BY <1>7 DEF IntoHead
    <2>1. h \in T
      BY <1>1, <2>0
    <2>2. e \in Seq(Page) /\ e \in Seq(Page \ {Root}) /\ m[h].next \in PageNo /\ m[h].kind = "trunk"
      BY <2>0, HeadIs
    <2>3. g \in Seq(Page \ {Root}) /\ ToSet(g) = ToSet(e) \cup {p} /\ Len(e) \in Nat
          /\ Len(g) = Len(e) + 1 /\ g[Len(e) + 1] = p /\ (\A i \in 1..Len(e) : g[i] = e[i])
      BY <2>2, AppendIs
    <2> HIDE DEF g
    <2>4. mm[h].kind = "trunk" /\ mm[h].next = m[h].next /\ mm[h].entries = g
      <3>1. \A nx \in PageNo, es \in Seq(Page \ {Root}) :
               /\ Trunk(nx, es).kind = "trunk" /\ Trunk(nx, es).next = nx /\ Trunk(nx, es).entries = es
        BY MakesContent
      <3> QED BY <2>0, <2>2, <2>3, <3>1
    <2>5. Links(c, z, v.head, mm)
      <3>1. \A t \in T : Alike(mm[t], m[t])
        BY <1>6, <2>2, <2>4 DEF Alike
      <3> QED BY <1>b, <2>0, <3>1, LinksFrame
    <2>6. \A t \in T : ToSet(mm[t].entries) = IF t = h THEN ToSet(m[t].entries) \cup {p} ELSE ToSet(m[t].entries)
      BY <1>6, <2>3, <2>4
    <2>7. Free(T, mm) = F \cup {p}
      BY <2>1, <2>6 DEF Free
    <2>8. Books(T, mm)
      <3>1. Once(g)
        <4>1. Once(e) /\ p \notin ToSet(e) /\ ToSet(e) = {e[i] : i \in 1..Len(e)}
          BY <1>2, <1>b, <2>1, <2>2, ToSetIs DEF Books
        <4>2. ASSUME NEW i \in 1..Len(g), NEW j \in 1..Len(g), g[i] = g[j] PROVE i = j
          <5>1. (i \in 1..Len(e) \/ i = Len(e) + 1) /\ (j \in 1..Len(e) \/ j = Len(e) + 1)
            BY <2>3
          <5>2. CASE i \in 1..Len(e) /\ j \in 1..Len(e)
            BY <2>3, <4>1, <4>2, <5>2 DEF Once
          <5>3. CASE i \in 1..Len(e) /\ j = Len(e) + 1
            <6>1. g[i] = e[i] /\ g[j] = p /\ e[i] \in ToSet(e)
              BY <2>3, <4>1, <5>3
            <6> QED BY <4>1, <4>2, <6>1
          <5>4. CASE j \in 1..Len(e) /\ i = Len(e) + 1
            <6>1. g[j] = e[j] /\ g[i] = p /\ e[j] \in ToSet(e)
              BY <2>3, <4>1, <5>4
            <6> QED BY <4>1, <4>2, <6>1
          <5> QED BY <5>1, <5>2, <5>3, <5>4
        <4> QED BY <4>2 DEF Once
      <3>2. ASSUME NEW t \in T PROVE Once(mm[t].entries) /\ ToSet(mm[t].entries) \cap T = {}
        <4>1. Once(m[t].entries) /\ ToSet(m[t].entries) \cap T = {}
          BY <1>b DEF Books
        <4> QED BY <1>2, <1>6, <2>4, <2>6, <3>1, <4>1
      <3>3. ASSUME NEW t \in T, NEW u \in T, t # u PROVE ToSet(mm[t].entries) \cap ToSet(mm[u].entries) = {}
        <4>1. ToSet(m[t].entries) \cap ToSet(m[u].entries) = {}
          BY <1>b, <3>3 DEF Books
        <4> QED BY <1>2, <2>6, <3>3, <4>1
      <3> QED BY <3>2, <3>3 DEF Books
    <2>9. Listed(v, c, z) /\ FreeOf(v, c) = F \cup {p}
      BY <1>5, <1>b, <2>5, <2>7, <2>8 DEF Listed, FreeOf
    <2> QED BY <1>3, <2>9 DEF FreeOf
  <1>8. CASE NewHead(w, v, p)
    <2> DEFINE d == <<p>> \o c
               D == ToSet(d)
    <2>1. /\ d \in Seq(Page) /\ Len(d) = Len(c) + 1 /\ Len(c) \in Nat /\ d[1] = p
          /\ (\A i \in 1..Len(c) : d[i + 1] = c[i]) /\ D = {p} \cup T /\ Once(d)
      BY <1>1, <1>2, ConsIs
    <2> HIDE DEF d
    <2>2. v.head = p /\ mm[p].kind = "trunk" /\ mm[p].next = w.head /\ mm[p].entries = <<>>
      <3>1. \A nx : Trunk(nx, <<>>).kind = "trunk" /\ Trunk(nx, <<>>).next = nx /\ Trunk(nx, <<>>).entries = <<>>
        BY DEF Trunk
      <3>2. w.head \in PageNo
        BY HandleIs DEF Headed
      <3>3. v.head = p /\ mm[p] = Trunk(w.head, <<>>)
        BY <1>8 DEF NewHead
      <3> QED BY <3>1, <3>2, <3>3
    <2>3. \A t \in T : mm[t] = m[t]
      <3>1. w.head # 0 => mm[w.head] = m[w.head]
        BY <1>8 DEF NewHead
      <3> QED BY <1>1, <1>6, <3>1, PageIs
    <2>4. ASSUME NEW i \in 1..Len(d) PROVE mm[d[i]].kind = "trunk" /\ mm[d[i]].next = Follow(d, z, i)
      <3>1. CASE i = 1
        <4>1. Follow(d, z, 1) = Follow(c, z, 0)
          <5>1. CASE 0 < Len(c)
            <6>1. 1 \in 1..Len(c) /\ 1 < Len(d) /\ 0 + 1 = 1
              BY <2>1, <5>1
            <6> QED BY <2>1, <5>1, <6>1 DEF Follow
          <5>2. CASE ~(0 < Len(c))
            BY <2>1, <5>2 DEF Follow
          <5> QED BY <5>1, <5>2
        <4>2. Follow(c, z, 0) = w.head
          BY <1>b DEF Links
        <4> QED BY <2>1, <2>2, <3>1, <4>1, <4>2
      <3>2. CASE i # 1
        <4> DEFINE j == i - 1
        <4>1. j \in 1..Len(c) /\ i = j + 1 /\ d[i] = c[j]
          BY <2>1, <3>2
        <4>2. c[j] \in T /\ m[c[j]].kind = "trunk" /\ m[c[j]].next = Follow(c, z, j)
          BY <1>1, <1>b, <4>1, ToSetIs DEF Links
        <4>3. Follow(d, z, i) = Follow(c, z, j)
          <5>1. CASE j < Len(c)
            <6>1. j + 1 \in 1..Len(c) /\ i < Len(d)
              BY <2>1, <4>1, <5>1
            <6>2. d[i + 1] = c[j + 1]
              BY <2>1, <4>1, <6>1
            <6> QED BY <5>1, <6>1, <6>2 DEF Follow
          <5>2. CASE ~(j < Len(c))
            BY <2>1, <4>1, <5>2 DEF Follow
          <5> QED BY <5>1, <5>2
        <4> QED BY <2>3, <4>1, <4>2, <4>3
      <3> QED BY <3>1, <3>2
    <2>5. Links(d, z, v.head, mm)
      <3>1. Follow(d, z, 0) = p
        BY <2>1 DEF Follow
      <3> QED BY <2>1, <2>2, <2>4, <3>1 DEF Links
    <2>e. ToSet(<<>>) = {} /\ Once(<<>>)
      BY DEF ToSet, Once
    <2>6. Free(D, mm) = F \cup {p}
      <3>1. ToSet(mm[p].entries) = {} /\ \A t \in T : ToSet(mm[t].entries) = ToSet(m[t].entries)
        BY <2>2, <2>3, <2>e
      <3> QED BY <2>1, <3>1 DEF Free
    <2>7. Books(D, mm)
      <3>1. ASSUME NEW t \in D PROVE Once(mm[t].entries) /\ ToSet(mm[t].entries) \cap D = {}
        <4>1. CASE t = p
          BY <2>2, <2>e, <4>1
        <4>2. CASE t # p
          <5>1. t \in T
            BY <2>1, <4>2
          <5>2. Once(m[t].entries) /\ ToSet(m[t].entries) \cap T = {} /\ p \notin ToSet(m[t].entries)
            BY <1>2, <1>b, <5>1 DEF Books
          <5> QED BY <2>1, <2>3, <5>1, <5>2
        <4> QED BY <4>1, <4>2
      <3>2. ASSUME NEW t \in D, NEW u \in D, t # u PROVE ToSet(mm[t].entries) \cap ToSet(mm[u].entries) = {}
        <4>1. CASE t = p \/ u = p
          BY <2>2, <2>e, <4>1
        <4>2. CASE t # p /\ u # p
          <5>1. t \in T /\ u \in T
            BY <2>1, <4>2
          <5> QED BY <1>b, <2>3, <3>2, <5>1 DEF Books
        <4> QED BY <4>1, <4>2
      <3> QED BY <3>1, <3>2 DEF Books
    <2>8. d # <<>>
      BY <2>1
    <2>9. Listed(v, d, z) /\ FreeOf(v, d) = F \cup {p}
      BY <1>5, <2>5, <2>6, <2>7, <2>8 DEF Listed, FreeOf
    <2> QED BY <1>3, <2>9 DEF FreeOf
  <1>9. IntoHead(w, v, p) \/ NewHead(w, v, p)
    BY <1>3 DEF Freed
  <1> QED BY <1>7, <1>8, <1>9

-----------------------------------------------------------------------------
(* Pages freed one after the other. *)

\* Children leave the node of the tree.
LEMMA UnlinkIs ==
  ASSUME NEW w, Headed(w), NEW K
  PROVE  /\ Headed(Unlink(w, K)) /\ Touch(w, Unlink(w, K))
         /\ Unlink(w, K).head = w.head /\ Unlink(w, K).count = w.count
         /\ Unlink(w, K).dirty = w.dirty \cup {Root}
         /\ Unlink(w, K).mem[Root].kids = w.mem[Root].kids \ K
         /\ \A q \in Page : q # Root => Unlink(w, K).mem[q] = w.mem[q]
  <1> DEFINE x == Node(w.mem[Root].kids \ K)
             v == Unlink(w, K)
             f == [q \in {Root} |-> x]
  <1>1. w \in Handle /\ w.mem \in Pages /\ w.head \in PageNo /\ Root \in Page
    BY HandleIs, PageIs DEF Headed
  <1>2. w.mem[Root].kids \in SUBSET Page
    BY <1>1, ContentIs DEF Headed, Pages
  <1>3. x \in Content /\ x.kind = "node" /\ x.kids = w.mem[Root].kids \ K
    <2>1. w.mem[Root].kids \ K \in SUBSET Page
      BY <1>2
    <2> QED BY <2>1, MakesContent
  <1>4. v = Put(w, Root, x)
    BY DEF Unlink
  <1> HIDE DEF x, v
  <1>5. Wrote(w, v, f)
    BY <1>1, <1>3, <1>4, PutIs
  <1>6. /\ v \in Handle /\ Touch(w, v) /\ v.head = w.head /\ v.count = w.count
        /\ v.dirty = w.dirty \cup {Root} /\ v.mem[Root] = x
        /\ \A q \in Page : q # Root => v.mem[q] = w.mem[q]
    BY <1>1, <1>5 DEF Wrote
  <1>7. Headed(v)
    <2>1. ASSUME w.head # 0 PROVE v.mem[w.head].kind = "trunk"
      BY <1>6, <2>1, HeadIs
    <2> QED BY <1>3, <1>6, <2>1 DEF Headed
  <1> QED BY <1>3, <1>6, <1>7 DEF v

\* The freelist does not change with the root, which is not on it.
LEMMA ListedFrame ==
  ASSUME NEW w, NEW v, Headed(w), NEW c, NEW z, Listed(w, c, z), v.head = w.head, v.count = w.count,
         \A t \in ToSet(c) : v.mem[t] = w.mem[t]
  PROVE  Listed(v, c, z) /\ FreeOf(v, c) = FreeOf(w, c)
  <1>1. Links(c, z, v.head, v.mem)
    BY LinksFrame DEF Listed, Alike
  <1>2. Free(ToSet(c), v.mem) = Free(ToSet(c), w.mem)
    BY DEF Free
  <1>3. Books(ToSet(c), v.mem)
    BY DEF Books, Listed
  <1> QED BY <1>1, <1>2, <1>3 DEF Listed, FreeOf

\* Freed, the pages s are all on the freelist.
AllFreed(w, v, s, N) ==
    /\ Headed(v) /\ Touch(w, v) /\ v.mem[Root] = w.mem[Root]
    /\ Root \in w.dirty => Root \in v.dirty
AllListed(w, v, s, N, c, z) ==
    \E d : /\ Listed(v, d, z) /\ FreeOf(v, d) = FreeOf(w, c) \cup {s[l] : l \in 1..N}
           /\ \A q \in Page : q \notin FreeOf(v, d) => v.mem[q] = w.mem[q]

\* One more page is freed.
LEMMA AllFreedStep ==
  ASSUME NEW w, Headed(w), NEW s \in Seq(Page \ {Root}), NEW N \in 0..Len(s)-1, len \in Nat,
         NEW x, AllFreed(w, x, s, N)
  PROVE  AllFreed(w, FreePage(x, s[N + 1]), s, N + 1)
  <1> DEFINE p == s[N + 1]
             v == FreePage(x, p)
  <1>1. p \in Page \ {Root}
    OBVIOUS
  <1> HIDE DEF p
  <1>2. Freed(x, v, p)
    BY <1>1, FreePageIs DEF AllFreed
  <1> HIDE DEF v
  <1>3. Touch(w, v) /\ Headed(v)
    BY <1>2, TouchTouch DEF AllFreed, Freed
  <1>4. x.head # Root
    BY HeadIs, PageIs DEF AllFreed
  <1>5. v.mem[Root] = w.mem[Root] /\ (Root \in w.dirty => Root \in v.dirty)
    BY <1>1, <1>2, <1>4, PageIs DEF AllFreed, Freed
  <1> QED BY <1>3, <1>5 DEF AllFreed, v, p

\* One more page is freed onto an orderly freelist.
LEMMA AllListedStep ==
  ASSUME NEW w, Headed(w), NEW s \in Seq(Page \ {Root}), NEW N \in 0..Len(s)-1, len \in Nat, Once(s),
         NEW x, AllFreed(w, x, s, N), NEW c, NEW z, AllListed(w, x, s, N, c, z),
         ToSet(s) \cap FreeOf(w, c) = {}
  PROVE  AllListed(w, FreePage(x, s[N + 1]), s, N + 1, c, z)
  <1> DEFINE p == s[N + 1]
             v == FreePage(x, p)
  <1>0. N \in Nat /\ N + 1 \in 1..Len(s) /\ Len(s) \in Nat /\ ToSet(s) = {s[i] : i \in 1..Len(s)}
    BY ToSetIs
  <1>1. p \in Page \ {Root} /\ p \in ToSet(s) /\ \A l \in 1..N : s[l] # p
    <2>1. \A l \in 1..N : l \in 1..Len(s) /\ l # N + 1
      BY <1>0
    <2> QED BY <1>0, <2>1 DEF Once
  <1>2. PICK d : /\ Listed(x, d, z) /\ FreeOf(x, d) = FreeOf(w, c) \cup {s[l] : l \in 1..N}
                 /\ \A q \in Page : q \notin FreeOf(x, d) => x.mem[q] = w.mem[q]
    BY DEF AllListed
  <1>3. p \notin FreeOf(x, d)
    BY <1>1, <1>2
  <1>4. {s[l] : l \in 1..N+1} = {s[l] : l \in 1..N} \cup {p}
    BY <1>0
  <1> HIDE DEF p
  <1>h. Headed(x)
    BY DEF AllFreed
  <1>5. Freed(x, v, p)
    BY <1>1, <1>h, FreePageIs
  <1> HIDE DEF v
  <1>6. PICK e : Listed(v, e, z) /\ FreeOf(v, e) = FreeOf(x, d) \cup {p}
    <2>1. Headed(x) /\ p \in Page \ {Root} /\ Listed(x, d, z) /\ p \notin FreeOf(x, d) /\ Freed(x, v, p)
      BY <1>1, <1>2, <1>3, <1>5, <1>h
    <2>2. \E e : Listed(v, e, z) /\ FreeOf(v, e) = FreeOf(x, d) \cup {p}
      BY <2>1, FreeLists
    <2> QED BY <2>2
  <1>7. ASSUME NEW q \in Page, q \notin FreeOf(v, e) PROVE v.mem[q] = w.mem[q]
    <2>1. q # p /\ q \notin FreeOf(x, d)
      BY <1>6, <1>7
    <2>2. q # x.head
      <3>1. x.head = 0 \/ x.head \in ToSet(d)
        BY <1>2, LinksTrunks DEF Listed
      <3> QED BY <2>1, <3>1, PageIs DEF FreeOf, Free
    <2> QED BY <1>2, <1>5, <2>1, <2>2 DEF Freed
  <1>8. FreeOf(v, e) = FreeOf(w, c) \cup {s[l] : l \in 1..N+1}
    BY <1>2, <1>4, <1>6
  <1> QED BY <1>6, <1>7, <1>8 DEF AllListed, v, p

\* FreeAll frees the pages of s, one after the other.
LEMMA FreeAllIs ==
  ASSUME NEW w, Headed(w), NEW s \in Seq(Page \ {Root}), len \in Nat
  PROVE  /\ AllFreed(w, FreeAll(w, s), s, Len(s))
         /\ \A c, z : Listed(w, c, z) /\ Once(s) /\ ToSet(s) \cap FreeOf(w, c) = {}
                         => AllListed(w, FreeAll(w, s), s, Len(s), c, z)
  <1> DEFINE N == Len(s)
             Eq(f) == f = [i \in 0..N |-> IF i = 0 THEN w ELSE FreePage(f[i - 1], s[i])]
             f == CHOOSE g : Eq(g)
             X == {x \in Handle : Headed(x)}
  <1>0. N \in Nat /\ w \in X /\ \A i \in 1..N : s[i] \in Page \ {Root}
    BY DEF Headed
  <1>1. FreeAll(w, s) = f[N]
    BY DEF FreeAll
  <1> HIDE DEF N
  <1>2. \E e : Eq(e)
    <2> DEFINE g == [i \in 1..N |-> [x \in X |-> FreePage(x, s[i])]]
    <2>1. ASSUME NEW i \in 1..N, NEW x \in X PROVE FreePage(x, s[i]) \in X
      <3>1. Freed(x, FreePage(x, s[i]), s[i])
        BY <1>0, FreePageIs
      <3> QED BY <3>1 DEF Freed, Headed
    <2> HIDE DEF X
    <2>2. g \in [1..N -> [X -> X]]
      BY <2>1
    <2>3. PICK e \in [0..N -> X] : Solves(e, w, g, N)
      <3> HIDE DEF g
      <3> QED BY <1>0, <2>2, Recursion
    <2>4. ASSUME NEW i \in 1..N PROVE g[i][e[i - 1]] = FreePage(e[i - 1], s[i])
      <3>1. e[i - 1] \in X
        BY <1>0
      <3> QED BY <3>1
    <2> HIDE DEF g
    <2>5. Eq(e)
      <3>1. ASSUME NEW i \in 0..N PROVE e[i] = IF i = 0 THEN w ELSE FreePage(e[i - 1], s[i])
        <4>1. e[i] = IF i = 0 THEN w ELSE g[i][e[i - 1]]
          BY <2>3 DEF Solves
        <4>2. i = 0 \/ i \in 1..N
          BY <1>0
        <4> QED BY <2>4, <4>1, <4>2
      <3> QED BY <3>1
    <2> QED BY <2>5
  <1>3. Eq(f)
    BY <1>2
  <1>4. f[0] = w /\ \A i \in 0..N-1 : f[i + 1] = FreePage(f[i], s[i + 1])
    <2> HIDE DEF f
    <2>1. f[0] = w
      BY <1>0, <1>3
    <2>2. ASSUME NEW i \in 0..N-1 PROVE f[i + 1] = FreePage(f[i], s[i + 1])
      <3>1. i + 1 \in 0..N /\ i + 1 # 0 /\ (i + 1) - 1 = i
        BY <1>0
      <3> QED BY <1>3, <3>1
    <2> QED BY <2>1, <2>2
  <1> HIDE DEF f
  <1>5. \A i \in 0..N : AllFreed(w, f[i], s, i)
    <2> DEFINE S(n) == {i \in 0..n : AllFreed(w, f[i], s, i)}
    <2>1. ASSUME NEW n \in 0..N PROVE AllFreed(w, f[n], s, n)
      <3>1. 0 \in S(n)
        BY <1>0, <1>4, TouchSelf DEF AllFreed
      <3>2. ASSUME NEW i \in 0..n-1, i \in S(n) PROVE i + 1 \in S(n)
        <4>1. i \in 0..N-1 /\ i + 1 \in 0..n /\ AllFreed(w, f[i], s, i)
          BY <1>0, <3>2
        <4>2. AllFreed(w, f[i + 1], s, i + 1)
          BY <1>4, <4>1, AllFreedStep DEF N
        <4> QED BY <4>1, <4>2
      <3>3. n \in S(n)
        <4>1. n \in Nat
          BY <1>0
        <4> HIDE DEF S
        <4> QED BY <3>1, <3>2, <4>1, UpTo
      <3> QED BY <3>3
    <2> QED BY <2>1
  <1>6. ASSUME NEW c, NEW z, Listed(w, c, z), Once(s), ToSet(s) \cap FreeOf(w, c) = {}
        PROVE  AllListed(w, f[N], s, N, c, z)
    <2> DEFINE S == {i \in 0..N : AllListed(w, f[i], s, i, c, z)}
    <2>1. 0 \in S
      <3>1. {s[l] : l \in 1..0} = {}
        OBVIOUS
      <3>2. AllListed(w, w, s, 0, c, z)
        BY <1>6, <3>1 DEF AllListed
      <3> QED BY <1>0, <1>4, <3>2
    <2>2. ASSUME NEW i \in 0..N-1, i \in S PROVE i + 1 \in S
      <3>1. i \in 0..N /\ i + 1 \in 0..N /\ AllListed(w, f[i], s, i, c, z)
        BY <1>0, <2>2
      <3>2. AllFreed(w, f[i], s, i)
        BY <1>5, <3>1
      <3>3. AllListed(w, f[i + 1], s, i + 1, c, z)
        BY <1>4, <1>6, <3>1, <3>2, AllListedStep DEF N
      <3> QED BY <3>1, <3>3
    <2>3. N \in S
      <3> HIDE DEF S
      <3> QED BY <1>0, <2>1, <2>2, UpTo
    <2> QED BY <2>3
  <1>7. AllFreed(w, f[N], s, N)
    BY <1>0, <1>5
  <1> QED BY <1>1, <1>6, <1>7 DEF N

\* The leaves s, unlinked and freed one after the other.
First(s, N) == {s[l] : l \in 1..N}
Dropped(w, v, s, N) ==
    /\ Headed(v) /\ Touch(w, v) /\ v.count = w.count + N
    /\ v.mem[Root].kids = w.mem[Root].kids \ First(s, N)
    /\ N # 0 => Root \in v.dirty
    /\ \A q \in Page : w.mem[q].kind = "leaf" /\ q \notin First(s, N) => v.mem[q] = w.mem[q]
    /\ \E T : Closed(T, v.head, v.mem)
DropListed(w, v, s, N, c) ==
    \E d : /\ Listed(v, d, 0) /\ FreeOf(v, d) = FreeOf(w, c) \cup First(s, N)
           /\ \A q \in Page : q # Root /\ q \notin FreeOf(v, d) => v.mem[q] = w.mem[q]
DropStep(x, p) == FreePage(Unlink(x, {p}), p)

\* One more leaf is unlinked and freed.
LEMMA DroppedStep ==
  ASSUME NEW w, Headed(w), NEW s \in Seq(Page), NEW N \in 0..Len(s)-1, len \in Nat, Once(s),
         \A i \in 1..Len(s) : w.mem[s[i]].kind = "leaf",
         NEW x, Dropped(w, x, s, N)
  PROVE  Dropped(w, DropStep(x, s[N + 1]), s, N + 1)
  <1> DEFINE p == s[N + 1]
             y == Unlink(x, {p})
             v == FreePage(y, p)
  <1>0. N \in Nat /\ N + 1 \in 1..Len(s) /\ Len(s) \in Nat /\ w.count \in Nat
    BY HandleIs DEF Headed
  <1>1. p \in Page /\ w.mem[p].kind = "leaf" /\ p \notin First(s, N)
    <2>1. \A l \in 1..N : l \in 1..Len(s) /\ l # N + 1
      BY <1>0
    <2> QED BY <1>0, <2>1 DEF Once, First
  <1>2. First(s, N + 1) = First(s, N) \cup {p}
    BY <1>0 DEF First
  <1>d. DropStep(x, p) = v
    BY DEF DropStep
  <1> HIDE DEF p
  <1>3. Headed(x) /\ p # Root /\ x.mem[p] = w.mem[p]
    BY <1>1 DEF Dropped, Headed
  <1>4. /\ Headed(y) /\ Touch(x, y) /\ y.head = x.head /\ y.count = x.count
        /\ y.dirty = x.dirty \cup {Root} /\ y.mem[Root].kids = x.mem[Root].kids \ {p}
        /\ \A q \in Page : q # Root => y.mem[q] = x.mem[q]
    BY <1>3, UnlinkIs
  <1> HIDE DEF y
  <1>5. Freed(y, v, p)
    BY <1>1, <1>3, <1>4, FreePageIs
  <1> HIDE DEF v
  <1>6. y.mem[p].kind = "leaf" /\ p # y.head /\ y.head # Root
    <2>1. y.mem[p].kind = "leaf"
      BY <1>1, <1>3, <1>4
    <2>2. y.head = 0 \/ (y.head \in Page \ {Root} /\ y.mem[y.head].kind = "trunk")
      BY <1>4, HeadIs
    <2>3. p # 0 /\ Root # 0
      BY <1>1, PageIs
    <2> QED BY <2>1, <2>2, <2>3
  <1>7. Headed(v) /\ Touch(w, v)
    <2>1. Touch(w, x) /\ Touch(y, v) /\ Headed(v)
      BY <1>5 DEF Dropped, Freed
    <2>2. Touch(w, y)
      BY <1>4, <2>1, TouchTouch
    <2> QED BY <2>1, <2>2, TouchTouch
  <1>8. v.count = w.count + (N + 1)
    <2>1. x.count = w.count + N
      BY DEF Dropped
    <2>2. v.count = y.count + 1
      BY <1>5, <1>6 DEF Freed
    <2>3. y.count = x.count
      BY <1>4
    <2>4. w.count \in Nat /\ N \in Nat
      BY <1>0
    <2>5. v.count = (w.count + N) + 1
      BY <2>1, <2>2, <2>3
    <2> HIDE DEF v
    <2> QED BY <2>4, <2>5
  <1>9. v.mem[Root] = y.mem[Root] /\ Root \in v.dirty
    BY <1>3, <1>4, <1>5, <1>6, PageIs DEF Freed
  <1>10. v.mem[Root].kids = w.mem[Root].kids \ First(s, N + 1)
    BY <1>2, <1>4, <1>9 DEF Dropped
  <1>11. ASSUME NEW q \in Page, w.mem[q].kind = "leaf", q \notin First(s, N + 1)
         PROVE  v.mem[q] = w.mem[q]
    <2>1. x.mem[q] = w.mem[q] /\ q # p
      BY <1>2, <1>11 DEF Dropped
    <2>2. q # Root
      BY <1>11 DEF Headed
    <2>3. y.mem[q] = w.mem[q]
      BY <1>4, <2>1, <2>2
    <2>4. q # y.head
      BY <1>4, <1>11, <2>3, HeadIs, PageIs
    <2> QED BY <1>5, <2>1, <2>3, <2>4 DEF Freed
  <1>12. \E T : Closed(T, v.head, v.mem)
    <2>1. PICK T : Closed(T, x.head, x.mem)
      BY DEF Dropped
    <2>2. Root \notin T
      BY <1>3, <2>1 DEF Closed, Headed
    <2>3. Closed(T, y.head, y.mem)
      BY <1>4, <2>1, <2>2 DEF Closed
    <2>4. p \notin T
      BY <1>6, <2>3 DEF Closed
    <2>5. \A t \in T : t # y.head => v.mem[t] = y.mem[t]
      BY <1>5, <2>3, <2>4 DEF Closed, Freed
    <2>6. CASE IntoHead(y, v, p)
      <3>1. v.mem[y.head].kind = "trunk" /\ v.mem[y.head].next = y.mem[y.head].next /\ v.head = y.head
        BY <2>6 DEF IntoHead, Trunk
      <3>2. Closed(T, v.head, v.mem)
        BY <2>3, <2>5, <3>1 DEF Closed
      <3> QED BY <3>2
    <2>7. CASE NewHead(y, v, p)
      <3>1. v.mem[p].kind = "trunk" /\ v.mem[p].next = y.head /\ v.head = p
        BY <2>7 DEF NewHead, Trunk
      <3>2. \A t \in T : v.mem[t] = y.mem[t]
        BY <2>3, <2>5, <2>7, PageIs DEF NewHead, Closed
      <3>3. Closed(T \cup {p}, v.head, v.mem)
        BY <1>1, <2>3, <3>1, <3>2 DEF Closed
      <3> QED BY <3>3
    <2> QED BY <1>5, <1>6, <2>6, <2>7 DEF Freed
  <1> QED BY <1>7, <1>8, <1>9, <1>10, <1>11, <1>12, <1>d DEF Dropped, p

\* One more leaf is freed onto an orderly freelist.
LEMMA DropListedStep ==
  ASSUME NEW w, Headed(w), NEW s \in Seq(Page), NEW N \in 0..Len(s)-1, len \in Nat, Once(s),
         \A i \in 1..Len(s) : w.mem[s[i]].kind = "leaf",
         NEW x, Dropped(w, x, s, N), NEW c, DropListed(w, x, s, N, c), ToSet(s) \cap FreeOf(w, c) = {}
  PROVE  DropListed(w, DropStep(x, s[N + 1]), s, N + 1, c)
  <1> DEFINE p == s[N + 1]
             y == Unlink(x, {p})
             v == FreePage(y, p)
  <1>0. N \in Nat /\ N + 1 \in 1..Len(s) /\ Len(s) \in Nat /\ ToSet(s) = {s[i] : i \in 1..Len(s)}
    BY ToSetIs
  <1>1. p \in Page /\ w.mem[p].kind = "leaf" /\ p \notin First(s, N) /\ p \in ToSet(s)
    <2>1. \A l \in 1..N : l \in 1..Len(s) /\ l # N + 1
      BY <1>0
    <2> QED BY <1>0, <2>1 DEF Once, First
  <1>2. First(s, N + 1) = First(s, N) \cup {p}
    BY <1>0 DEF First
  <1>d. DropStep(x, p) = v
    BY DEF DropStep
  <1> HIDE DEF p
  <1>3. Headed(x) /\ p # Root
    BY <1>1 DEF Dropped, Headed
  <1>4. /\ Headed(y) /\ y.head = x.head /\ y.count = x.count
        /\ \A q \in Page : q # Root => y.mem[q] = x.mem[q]
    BY <1>3, UnlinkIs
  <1> HIDE DEF y
  <1>5. Freed(y, v, p)
    BY <1>1, <1>3, <1>4, FreePageIs
  <1> HIDE DEF v
  <1>6. PICK d : /\ Listed(x, d, 0) /\ FreeOf(x, d) = FreeOf(w, c) \cup First(s, N)
                 /\ \A q \in Page : q # Root /\ q \notin FreeOf(x, d) => x.mem[q] = w.mem[q]
    BY DEF DropListed
  <1>7. Trunks(ToSet(d), x.mem) /\ (x.head = 0 \/ x.head \in ToSet(d))
    BY <1>6, LinksTrunks DEF Listed
  <1>8. Listed(y, d, 0) /\ FreeOf(y, d) = FreeOf(x, d)
    <2>1. \A t \in ToSet(d) : y.mem[t] = x.mem[t]
      BY <1>3, <1>4, <1>7 DEF Trunks, Headed
    <2> QED BY <1>3, <1>4, <1>6, <2>1, ListedFrame
  <1>9. p \notin FreeOf(y, d)
    BY <1>1, <1>6, <1>8
  <1>10. PICK e : Listed(v, e, 0) /\ FreeOf(v, e) = FreeOf(y, d) \cup {p}
    BY <1>1, <1>3, <1>4, <1>5, <1>8, <1>9, FreeLists
  <1>11. ASSUME NEW q \in Page, q # Root, q \notin FreeOf(v, e) PROVE v.mem[q] = w.mem[q]
    <2>1. q # p /\ q \notin FreeOf(x, d)
      BY <1>8, <1>10, <1>11
    <2>2. q # y.head
      BY <1>4, <1>7, <2>1, PageIs DEF FreeOf, Free
    <2> QED BY <1>4, <1>5, <1>6, <1>11, <2>1, <2>2 DEF Freed
  <1>12. FreeOf(v, e) = FreeOf(w, c) \cup First(s, N + 1)
    BY <1>2, <1>6, <1>8, <1>10
  <1>13. DropListed(w, v, s, N + 1, c)
    BY <1>10, <1>11, <1>12 DEF DropListed
  <1> QED BY <1>13, <1>d DEF p

\* DropLeaves unlinks and frees the leaves of s, one after the other.
LEMMA DropLeavesIs ==
  ASSUME NEW w, Headed(w), NEW s \in Seq(Page), len \in Nat, Once(s), \E T : Closed(T, w.head, w.mem),
         \A i \in 1..Len(s) : w.mem[s[i]].kind = "leaf"
  PROVE  /\ Dropped(w, DropLeaves(w, s), s, Len(s))
         /\ \A c : Listed(w, c, 0) /\ ToSet(s) \cap FreeOf(w, c) = {}
                     => DropListed(w, DropLeaves(w, s), s, Len(s), c)
  <1> DEFINE N == Len(s)
             Eq(f) == f = [i \in 0..N |-> IF i = 0 THEN w ELSE DropStep(f[i - 1], s[i])]
             f == CHOOSE g : Eq(g)
             X == {x \in Handle : Headed(x)}
  <1>0. N \in Nat /\ w \in X /\ w.count \in Nat /\ \A i \in 1..N : s[i] \in Page /\ s[i] # Root
    <2>1. N \in Nat /\ w \in X /\ w.count \in Nat
      BY HandleIs DEF Headed
    <2>2. \A i \in 1..N : s[i] \in Page /\ s[i] # Root
      BY DEF Headed
    <2> QED BY <2>1, <2>2
  <1>1. DropLeaves(w, s) = f[N]
    BY DEF DropLeaves, DropStep
  <1> HIDE DEF N
  <1>2. \E e : Eq(e)
    <2> DEFINE g == [i \in 1..N |-> [x \in X |-> DropStep(x, s[i])]]
    <2>1. ASSUME NEW i \in 1..N, NEW x \in X PROVE DropStep(x, s[i]) \in X
      <3>1. Headed(Unlink(x, {s[i]}))
        BY UnlinkIs
      <3>2. Freed(Unlink(x, {s[i]}), FreePage(Unlink(x, {s[i]}), s[i]), s[i])
        BY <1>0, <3>1, FreePageIs
      <3> QED BY <3>2 DEF Freed, Headed, DropStep
    <2> HIDE DEF X
    <2>2. g \in [1..N -> [X -> X]]
      BY <2>1
    <2>3. PICK e \in [0..N -> X] : Solves(e, w, g, N)
      <3> HIDE DEF g
      <3> QED BY <1>0, <2>2, Recursion
    <2>4. ASSUME NEW i \in 1..N PROVE g[i][e[i - 1]] = DropStep(e[i - 1], s[i])
      <3>1. e[i - 1] \in X
        BY <1>0
      <3> QED BY <3>1
    <2> HIDE DEF g
    <2>5. Eq(e)
      <3>1. ASSUME NEW i \in 0..N PROVE e[i] = IF i = 0 THEN w ELSE DropStep(e[i - 1], s[i])
        <4>1. e[i] = IF i = 0 THEN w ELSE g[i][e[i - 1]]
          BY <2>3 DEF Solves
        <4>2. i = 0 \/ i \in 1..N
          BY <1>0
        <4> QED BY <2>4, <4>1, <4>2
      <3> QED BY <3>1
    <2> QED BY <2>5
  <1>3. Eq(f)
    BY <1>2
  <1>4. f[0] = w /\ \A i \in 0..N-1 : f[i + 1] = DropStep(f[i], s[i + 1])
    <2> HIDE DEF f
    <2>1. f[0] = w
      BY <1>0, <1>3
    <2>2. ASSUME NEW i \in 0..N-1 PROVE f[i + 1] = DropStep(f[i], s[i + 1])
      <3>1. i + 1 \in 0..N /\ i + 1 # 0 /\ (i + 1) - 1 = i
        BY <1>0
      <3> QED BY <1>3, <3>1
    <2> QED BY <2>1, <2>2
  <1> HIDE DEF f
  <1>z. First(s, 0) = {}
    BY DEF First
  <1>5. \A i \in 0..N : Dropped(w, f[i], s, i)
    <2> DEFINE S(n) == {i \in 0..n : Dropped(w, f[i], s, i)}
    <2>1. ASSUME NEW n \in 0..N PROVE Dropped(w, f[n], s, n)
      <3>1. 0 \in S(n)
        <4>1. Dropped(w, w, s, 0)
          BY <1>0, <1>z, TouchSelf DEF Dropped
        <4> QED BY <1>0, <1>4, <4>1
      <3>2. ASSUME NEW i \in 0..n-1, i \in S(n) PROVE i + 1 \in S(n)
        <4>1. i \in 0..N-1 /\ i + 1 \in 0..n /\ Dropped(w, f[i], s, i)
          BY <1>0, <3>2
        <4>2. Dropped(w, f[i + 1], s, i + 1)
          BY <1>4, <4>1, DroppedStep DEF N
        <4> QED BY <4>1, <4>2
      <3>3. n \in S(n)
        <4>1. n \in Nat
          BY <1>0
        <4> HIDE DEF S
        <4> QED BY <3>1, <3>2, <4>1, UpTo
      <3> QED BY <3>3
    <2> QED BY <2>1
  <1>6. ASSUME NEW c, Listed(w, c, 0), ToSet(s) \cap FreeOf(w, c) = {}
        PROVE  DropListed(w, f[N], s, N, c)
    <2> DEFINE S == {i \in 0..N : DropListed(w, f[i], s, i, c)}
    <2>1. 0 \in S
      <3>1. DropListed(w, w, s, 0, c)
        BY <1>6, <1>z DEF DropListed
      <3> QED BY <1>0, <1>4, <3>1
    <2>2. ASSUME NEW i \in 0..N-1, i \in S PROVE i + 1 \in S
      <3>1. i \in 0..N /\ i + 1 \in 0..N /\ DropListed(w, f[i], s, i, c)
        BY <1>0, <2>2
      <3>2. Dropped(w, f[i], s, i)
        BY <1>5, <3>1
      <3>3. DropListed(w, f[i + 1], s, i + 1, c)
        BY <1>4, <1>6, <3>1, <3>2, DropListedStep DEF N
      <3> QED BY <3>1, <3>3
    <2>3. N \in S
      <3> HIDE DEF S
      <3> QED BY <1>0, <2>1, <2>2, UpTo
    <2> QED BY <2>3
  <1>7. Dropped(w, f[N], s, N)
    BY <1>0, <1>5
  <1> QED BY <1>1, <1>6, <1>7 DEF N

-----------------------------------------------------------------------------
(* The cut of the tail. *)

\* Least and greatest elements.
LEMMA MinIs ==
  ASSUME NEW S, S \subseteq Nat, S # {}
  PROVE  Min(S) \in S /\ \A y \in S : Min(S) <= y
  <1>1. PICK x \in S : \A y \in S : ~(<<y, x>> \in OpToRel(<, Nat))
    BY WFMin, NatLessThanWellFounded
  <1>2. ASSUME NEW y \in S PROVE x <= y
    <2>1. ~(y < x)
      BY <1>1 DEF OpToRel
    <2> QED BY <2>1
  <1>3. \E e \in S : \A y \in S : e <= y
    BY <1>2
  <1> QED BY <1>3 DEF Min

\* The largest number of a finite set.
LEMMA MaxIs ==
  ASSUME NEW N \in Nat, NEW S, S \subseteq 0..N, S # {}
  PROVE  Max(S) \in S /\ \A y \in S : Max(S) >= y
  <1> DEFINE R == {e \in 0..N : N - e \in S}
  <1>1. R \subseteq Nat /\ R # {}
    <2>1. PICK y \in S : TRUE
      OBVIOUS
    <2>2. y \in 0..N /\ N - y \in 0..N /\ N - (N - y) = y
      BY <2>1
    <2>3. N - y \in R
      BY <2>1, <2>2
    <2> QED BY <2>3
  <1> DEFINE r == Min(R)
  <1>2. r \in R /\ \A e \in R : r <= e
    <2> HIDE DEF R
    <2> QED BY <1>1, MinIs
  <1> HIDE DEF r
  <1>3. N - r \in S /\ r \in 0..N
    BY <1>2
  <1>4. ASSUME NEW y \in S PROVE N - r >= y
    <2>1. y \in 0..N /\ N - y \in 0..N /\ N - (N - y) = y
      OBVIOUS
    <2>2. N - y \in R
      BY <2>1
    <2>3. r <= N - y
      BY <1>2, <2>2
    <2> QED BY <1>3, <2>1, <2>3
  <1>5. \E e \in S : \A y \in S : e >= y
    BY <1>3, <1>4
  <1> QED BY <1>5 DEF Max

\* The larger of two numbers.
LEMMA MaxTwo ==
  ASSUME NEW a \in Nat, NEW b \in Nat
  PROVE  Max({a, b}) = IF a >= b THEN a ELSE b
  <1>1. \E e \in {a, b} : \A y \in {a, b} : e >= y
    OBVIOUS
  <1>2. Max({a, b}) \in {a, b} /\ \A y \in {a, b} : Max({a, b}) >= y
    BY <1>1 DEF Max
  <1> QED BY <1>2

\* The smaller of two numbers.
LEMMA MinTwo ==
  ASSUME NEW a \in Nat, NEW b \in Nat
  PROVE  Min({a, b}) = IF a <= b THEN a ELSE b
  <1>1. \E e \in {a, b} : \A y \in {a, b} : e <= y
    OBVIOUS
  <1>2. Min({a, b}) \in {a, b} /\ \A y \in {a, b} : Min({a, b}) <= y
    BY <1>1 DEF Min
  <1> QED BY <1>2

\* The cut takes freed pages only, and none that was there at BEGIN.
LEMMA CutIs ==
  ASSUME NEW w \in Handle, w.txn.n <= w.n, NEW freed
  PROVE  /\ CutAt(w, freed) \in 1..w.n /\ CutAt(w, freed)..w.n-1 \subseteq freed
         /\ w.txn.n <= CutAt(w, freed)
  <1> DEFINE S == {j \in 1..w.n : j..w.n-1 \subseteq freed}
             k == Min(S)
  <1>0. w.n \in 1..MaxPages /\ w.txn.n \in 0..MaxPages /\ MaxPages \in Nat /\ (~InTxn(w) => w.txn.n = 0)
    BY HandleIs, PageIs
  <1>1. S \subseteq Nat /\ S # {}
    <2>1. w.n \in S
      BY <1>0
    <2> QED BY <1>0, <2>1
  <1>2. k \in S
    <2> HIDE DEF S
    <2> QED BY <1>1, MinIs
  <1>3. CutAt(w, freed) = IF InTxn(w) THEN Max({k, w.txn.n}) ELSE k
    BY DEF CutAt
  <1> HIDE DEF k
  <1>4. k \in 1..w.n /\ k..w.n-1 \subseteq freed
    BY <1>2
  <1>5. CASE InTxn(w) /\ ~(k >= w.txn.n)
    <2>1. CutAt(w, freed) = w.txn.n
      BY <1>0, <1>3, <1>4, <1>5, MaxTwo
    <2> QED BY <1>0, <1>4, <1>5, <2>1
  <1>6. CASE ~(InTxn(w) /\ ~(k >= w.txn.n))
    <2>1. CutAt(w, freed) = k
      BY <1>0, <1>3, <1>4, <1>6, MaxTwo
    <2> QED BY <1>0, <1>4, <1>6, <2>1
  <1> QED BY <1>5, <1>6

\* The entries below k of a trunk.
LEMMA BelowEntries ==
  ASSUME NEW e \in Seq(Page \ {Root}), NEW k \in Int
  PROVE  /\ Below(e, k) \in Seq(Page \ {Root}) /\ ToSet(Below(e, k)) = {x \in ToSet(e) : x < k}
         /\ Once(e) => Once(Below(e, k))
  <1>0. e \in Seq(Page) /\ ToSet(e) = {e[i] : i \in 1..Len(e)} /\ ToSet(e) \subseteq Page \ {Root}
    BY ToSetIs
  <1> DEFINE b == Below(e, k)
  <1>1. Kept(b, e, k, Len(e))
    BY <1>0, BelowIs
  <1> HIDE DEF b
  <1>2. ToSet(b) = {x \in ToSet(e) : x < k}
    BY <1>0, <1>1 DEF Kept
  <1>3. b \in Seq(Page) /\ (Once(e) => Once(b))
    BY <1>1 DEF Kept
  <1>4. b \in Seq(Page \ {Root})
    <2>1. ToSet(b) \subseteq Page \ {Root}
      BY <1>0, <1>2
    <2> QED BY <1>3, <2>1, SeqIn
  <1> QED BY <1>2, <1>3, <1>4 DEF b

\* The trunks below k of a linked chain; the last one names one at or above k.
LEMMA BelowLinks ==
  ASSUME NEW c, NEW h, NEW m \in Pages, Links(c, 0, h, m), NEW k \in Int
  PROVE  /\ Below(c, k) \in Seq(Page) /\ Once(Below(c, k))
         /\ ToSet(Below(c, k)) = {x \in ToSet(c) : x < k}
         /\ Below(c, k) # <<>> => LET z == m[Below(c, k)[Len(Below(c, k))]].next
                                  IN z \in PageNo /\ (z = 0 \/ ~(z < k))
  <1> DEFINE b == Below(c, k)
  <1>0. c \in Seq(Page) /\ Once(c) /\ Len(c) \in Nat /\ ToSet(c) = {c[i] : i \in 1..Len(c)}
    BY ToSetIs DEF Links
  <1>1. Kept(b, c, k, Len(c))
    BY <1>0, BelowIs
  <1> HIDE DEF b
  <1>2. ToSet(b) = {x \in ToSet(c) : x < k}
    BY <1>0, <1>1 DEF Kept
  <1>3. b \in Seq(Page) /\ Once(b)
    BY <1>0, <1>1 DEF Kept
  <1>4. ASSUME b # <<>> PROVE LET z == m[b[Len(b)]].next IN z \in PageNo /\ (z = 0 \/ ~(z < k))
    <2>1. PICK j \in 1..Len(c) : b[Len(b)] = c[j] /\ \A l \in j+1..Len(c) : ~(c[l] < k)
      BY <1>1, <1>4 DEF Kept
    <2>2. m[c[j]].next = Follow(c, 0, j)
      BY DEF Links
    <2>3. CASE j < Len(c)
      <3>1. j + 1 \in j+1..Len(c) /\ j + 1 \in 1..Len(c) /\ c[j + 1] \in Page
        BY <1>0, <2>3
      <3> QED BY <2>1, <2>2, <2>3, <3>1, PageIs DEF Follow
    <2>4. CASE ~(j < Len(c))
      BY <2>1, <2>2, <2>4, PageIs DEF Follow
    <2> QED BY <2>3, <2>4
  <1> QED BY <1>2, <1>3, <1>4 DEF b

\* The kept trunks after the cut at k, as the pages of v hold them.
Scrub(w, v, kept, k) ==
    /\ v \in Handle /\ Touch(w, v) /\ w.dirty \subseteq v.dirty
    /\ Trunks(ToSet(kept), v.mem)
    /\ \A q \in Page : q \notin ToSet(kept) => v.mem[q] = w.mem[q]
    /\ Once(kept) => \A i \in 1..Len(kept) :
          /\ v.mem[kept[i]].entries = Below(w.mem[kept[i]].entries, k)
          /\ v.mem[kept[i]].next = Follow(kept, w.mem[kept[Len(kept)]].next, i)

\* ScrubTrunks rewrites the kept trunks that change.
LEMMA ScrubTrunksIs ==
  ASSUME NEW w \in Handle, NEW kept \in Seq(Page), Trunks(ToSet(kept), w.mem), NEW k \in Int
  PROVE  Scrub(w, ScrubTrunks(w, kept, k), kept, k)
  <1> DEFINE m == w.mem
             L == Len(kept)
             K == ToSet(kept)
             changed == {i \in DOMAIN kept : Rewritten(w, i, kept, k)}
             at(p) == CHOOSE i \in changed : kept[i] = p
             D == {kept[i] : i \in changed}
             f == [p \in D |-> Scrubbed(w, at(p), kept, k)]
             v == ScrubTrunks(w, kept, k)
  <1>0. L \in Nat /\ DOMAIN kept = 1..L /\ K = {kept[i] : i \in 1..L} /\ K \subseteq Page
    BY ToSetIs
  <1>m. m \in Pages
    BY HandleIs
  <1>1. v = PutAll(w, f)
    BY DEF ScrubTrunks
  <1>2. ASSUME NEW t \in K
        PROVE  /\ m[t].kind = "trunk" /\ m[t].next \in PageNo /\ m[t].entries \in Seq(Page \ {Root})
               /\ Below(m[t].entries, k) \in Seq(Page \ {Root})
    <2>1. m[t] \in Content /\ m[t].kind = "trunk"
      BY <1>m DEF Trunks, Pages
    <2>2. m[t].entries \in Seq(Page \ {Root}) /\ m[t].next \in PageNo
      BY <2>1, ContentIs
    <2> QED BY <2>1, <2>2, BelowEntries
  <1>3. ASSUME NEW i \in 1..L
        PROVE  /\ Scrubbed(w, i, kept, k) \in Content /\ Scrubbed(w, i, kept, k).kind = "trunk"
               /\ Scrubbed(w, i, kept, k).entries = Below(m[kept[i]].entries, k)
               /\ Scrubbed(w, i, kept, k).next = Follow(kept, m[kept[i]].next, i)
    <2> DEFINE t == kept[i]
               nx == IF i < L THEN kept[i + 1] ELSE m[t].next
               es == Below(m[t].entries, k)
    <2>1. t \in K
      BY <1>0
    <2>2. nx \in PageNo
      <3>1. i < L => i + 1 \in 1..L /\ kept[i + 1] \in Page
        BY <1>0
      <3> QED BY <1>2, <2>1, <3>1, PageIs
    <2>3. es \in Seq(Page \ {Root})
      BY <1>2, <2>1
    <2>4. Scrubbed(w, i, kept, k) = Trunk(nx, es) /\ Follow(kept, m[kept[i]].next, i) = nx
      BY DEF Scrubbed, Follow
    <2> HIDE DEF nx, es
    <2>5. Trunk(nx, es) \in Content /\ Trunk(nx, es).kind = "trunk"
          /\ Trunk(nx, es).next = nx /\ Trunk(nx, es).entries = es
      BY <2>2, <2>3, MakesContent
    <2> QED BY <2>4, <2>5 DEF es
  <1>4. ASSUME NEW p \in D PROVE at(p) \in 1..L /\ kept[at(p)] = p
    <2>1. \E i \in changed : kept[i] = p
      OBVIOUS
    <2>2. at(p) \in changed /\ kept[at(p)] = p
      BY <2>1
    <2> QED BY <1>0, <2>2
  <1> HIDE DEF at, v
  <1>5. D \subseteq K /\ DOMAIN f = D
    BY <1>0
  <1>6. \A p \in D : f[p] \in Content /\ f[p].kind = "trunk"
    BY <1>3, <1>4
  <1>7. Wrote(w, v, f)
    <2>1. DOMAIN f \subseteq Page /\ \A p \in DOMAIN f : f[p] \in Content
      BY <1>0, <1>5, <1>6
    <2> HIDE DEF f
    <2> QED BY <1>1, <2>1, PutAllIs
  <1>8. /\ v \in Handle /\ Touch(w, v) /\ w.dirty \subseteq v.dirty
        /\ \A p \in Page : v.mem[p] = IF p \in D THEN f[p] ELSE m[p]
    BY <1>5, <1>7 DEF Wrote
  <1>9. Trunks(K, v.mem)
    BY <1>0, <1>2, <1>6, <1>8 DEF Trunks
  <1>10. \A q \in Page : q \notin K => v.mem[q] = w.mem[q]
    BY <1>5, <1>8
  <1>11. ASSUME Once(kept), NEW i \in 1..L
         PROVE  /\ v.mem[kept[i]].entries = Below(m[kept[i]].entries, k)
                /\ v.mem[kept[i]].next = Follow(kept, m[kept[L]].next, i)
    <2>0. kept[i] \in Page
      BY <1>0
    <2>f. Follow(kept, m[kept[L]].next, i) = Follow(kept, m[kept[i]].next, i)
      <3>1. i < L \/ i = L
        BY <1>0
      <3> QED BY <3>1 DEF Follow
    <2>1. CASE kept[i] \in D
      <3>1. at(kept[i]) = i
        BY <1>4, <1>11, <2>1 DEF Once
      <3>2. v.mem[kept[i]] = Scrubbed(w, i, kept, k)
        BY <1>8, <2>0, <2>1, <3>1
      <3> QED BY <1>3, <2>f, <3>2
    <2>2. CASE kept[i] \notin D
      <3>1. ~Rewritten(w, i, kept, k)
        BY <1>0, <2>2
      <3>2. ~(i < L) /\ Below(m[kept[i]].entries, k) = m[kept[i]].entries
        BY <3>1 DEF Rewritten
      <3>3. v.mem[kept[i]] = m[kept[i]]
        BY <1>8, <2>0, <2>2
      <3> QED BY <2>f, <3>2, <3>3 DEF Follow
    <2> QED BY <2>1, <2>2
  <1> QED BY <1>8, <1>9, <1>10, <1>11 DEF Scrub, v

\* The freelist of the kept trunks.
LEMMA ScrubFreelistIs ==
  ASSUME NEW w, Headed(w), NEW kept \in Seq(Page), Trunks(ToSet(kept), w.mem), NEW k \in Int
  PROVE  LET v == ScrubFreelist(w, kept, k)
         IN /\ Headed(v) /\ Touch(w, v) /\ w.dirty \subseteq v.dirty /\ Scrub(w, v, kept, k)
            /\ v.head = (IF kept = <<>> THEN 0 ELSE kept[1])
            /\ v.count = Len(FreeList(kept, v.mem))
  <1> DEFINE y == ScrubTrunks(w, kept, k)
             h == IF kept = <<>> THEN 0 ELSE kept[1]
             n == Len(FreeList(kept, y.mem))
             v == ScrubFreelist(w, kept, k)
  <1>0. w \in Handle
    BY DEF Headed
  <1>1. Scrub(w, y, kept, k)
    BY <1>0, ScrubTrunksIs
  <1>2. v = [y EXCEPT !.head = h, !.count = n]
    BY DEF ScrubFreelist
  <1> HIDE DEF y, v
  <1>3. y \in Handle /\ y.mem \in Pages /\ Trunks(ToSet(kept), y.mem)
    BY <1>1, HandleIs DEF Scrub
  <1>4. n \in Nat
    BY <1>3, FreeListIs
  <1>5. h \in PageNo /\ (h # 0 => h \in ToSet(kept))
    <2>1. ASSUME kept # <<>> PROVE kept[1] \in ToSet(kept) /\ kept[1] \in PageNo
      <3>1. 1 \in 1..Len(kept)
        BY <2>1
      <3> QED BY <3>1, ToSetIs, PageIs
    <2> QED BY <2>1, PageIs
  <1> HIDE DEF n, h
  <1>6. /\ v \in Handle /\ v.mem = y.mem /\ v.dirty = y.dirty /\ v.head = h /\ v.count = n
        /\ Rest(v) = Rest(y) /\ v.undo = y.undo /\ v.txn = y.txn /\ v.map = y.map
    BY <1>2, <1>3, <1>4, <1>5 DEF Handle, Rest, PageNo
  <1>7. Touch(w, v)
    <2>1. Touch(y, v)
      BY <1>6 DEF Touch, Restored
    <2> QED BY <1>1, <2>1, TouchTouch DEF Scrub
  <1>8. Scrub(w, v, kept, k)
    BY <1>1, <1>6, <1>7 DEF Scrub
  <1>9. Headed(v)
    <2>1. v.mem[Root] = w.mem[Root]
      <3>1. Root \notin ToSet(kept)
        BY DEF Trunks, Headed
      <3> QED BY <1>8, <3>1, PageIs DEF Scrub
    <2>2. v.head # 0 => v.mem[v.head].kind = "trunk"
      BY <1>3, <1>5, <1>6 DEF Trunks
    <2> QED BY <1>6, <2>1, <2>2 DEF Headed
  <1> QED BY <1>6, <1>7, <1>8, <1>9 DEF Scrub, v, h, n

\* The entries below k of the trunks of c at or above k.
LEMMA OrphansAre ==
  ASSUME NEW w \in Handle, NEW c, c = TrunkPages(w), Trunks(ToSet(c), w.mem), NEW k \in Int
  PROVE  /\ Orphans(w, k) \in Seq(Page \ {Root})
         /\ ToSet(Orphans(w, k)) =
               UNION {{x \in ToSet(w.mem[t].entries) : x < k} : t \in {u \in ToSet(c) : ~(u < k)}}
         /\ Once(c) /\ Books(ToSet(c), w.mem) => Once(Orphans(w, k))
  <1> DEFINE m == w.mem
             N == Len(c)
             T == ToSet(c)
             q == [i \in DOMAIN c |-> IF c[i] < k THEN <<>> ELSE Below(m[c[i]].entries, k)]
             o == Orphans(w, k)
  <1>m. m \in Pages /\ w.head \in PageNo
    BY HandleIs
  <1>0. c \in Seq(Page) /\ N \in Nat /\ DOMAIN c = 1..N /\ T = {c[i] : i \in 1..N}
    <2>1. c \in Seq(Page)
      BY <1>m, ChainPages DEF TrunkPages
    <2> QED BY <2>1, ToSetIs
  <1>1. o = FlattenSeq(q)
    BY DEF Orphans
  <1>2. ASSUME NEW t \in T
        PROVE  /\ Below(m[t].entries, k) \in Seq(Page)
               /\ ToSet(Below(m[t].entries, k)) = {x \in ToSet(m[t].entries) : x < k}
               /\ ToSet(m[t].entries) \subseteq Page \ {Root}
               /\ Once(m[t].entries) => Once(Below(m[t].entries, k))
    <2>1. m[t] \in Content /\ m[t].kind = "trunk"
      BY <1>m DEF Trunks, Pages
    <2>2. m[t].entries \in Seq(Page \ {Root})
      BY <2>1, ContentIs
    <2>3. ToSet(m[t].entries) \subseteq Page \ {Root}
      BY <2>2, ToSetIs
    <2>4. /\ Below(m[t].entries, k) \in Seq(Page \ {Root})
          /\ ToSet(Below(m[t].entries, k)) = {x \in ToSet(m[t].entries) : x < k}
          /\ Once(m[t].entries) => Once(Below(m[t].entries, k))
      BY <2>2, BelowEntries
    <2>5. Below(m[t].entries, k) \in Seq(Page)
      BY <2>4
    <2> QED BY <2>3, <2>4, <2>5
  <1> HIDE DEF o, T, N
  <1>3. /\ Len(q) = N /\ q \in Seq(Seq(Page))
        /\ \A i \in 1..N : q[i] = IF c[i] < k THEN <<>> ELSE Below(m[c[i]].entries, k)
    <2>1. \A i \in 1..N : c[i] \in T
      BY <1>0
    <2>2. q = [i \in 1..N |-> IF c[i] < k THEN <<>> ELSE Below(m[c[i]].entries, k)]
      BY <1>0
    <2>3. \A i \in 1..N : (IF c[i] < k THEN <<>> ELSE Below(m[c[i]].entries, k)) \in Seq(Page)
      BY <1>2, <2>1
    <2> HIDE DEF q
    <2> QED BY <1>0, <2>2, <2>3
  <1> HIDE DEF q
  <1>4. Joined(o, q, N)
    BY <1>1, <1>3, FlattenIs
  <1>5. ASSUME NEW i \in 1..N
        PROVE  /\ ToSet(q[i]) = IF c[i] < k THEN {} ELSE {x \in ToSet(m[c[i]].entries) : x < k}
               /\ Once(m[c[i]].entries) => Once(q[i])
    <2>1. ToSet(<<>>) = {} /\ Once(<<>>)
      BY DEF ToSet, Once
    <2>2. c[i] \in T
      BY <1>0
    <2> QED BY <1>2, <1>3, <2>1, <2>2
  <1> DEFINE U == UNION {{x \in ToSet(m[t].entries) : x < k} : t \in {u \in T : ~(u < k)}}
  <1>6. ToSet(o) = U
    <2>1. ToSet(o) = UNION {ToSet(q[i]) : i \in 1..N}
      BY <1>4 DEF Joined
    <2>2. ASSUME NEW e \in ToSet(o) PROVE e \in U
      <3>1. PICK i \in 1..N : e \in ToSet(q[i])
        BY <2>1
      <3> QED BY <1>0, <1>5, <3>1
    <2>3. ASSUME NEW e \in U PROVE e \in ToSet(o)
      <3>1. PICK t \in T : ~(t < k) /\ e \in ToSet(m[t].entries) /\ e < k
        OBVIOUS
      <3>2. PICK i \in 1..N : c[i] = t
        BY <1>0
      <3>3. e \in ToSet(q[i])
        BY <1>5, <3>1, <3>2
      <3> QED BY <2>1, <3>3
    <2> QED BY <2>2, <2>3
  <1>7. o \in Seq(Page \ {Root})
    <2>1. U \subseteq Page \ {Root}
      BY <1>2
    <2>2. o \in Seq(Page)
      BY <1>4 DEF Joined
    <2> QED BY <1>6, <2>1, <2>2, SeqIn
  <1>8. ASSUME Once(c), Books(T, m) PROVE Once(o)
    <2>1. ASSUME NEW i \in 1..N PROVE Once(q[i])
      <3>1. Once(m[c[i]].entries)
        BY <1>0, <1>8 DEF Books
      <3> QED BY <1>5, <3>1
    <2>2. ASSUME NEW i \in 1..N, NEW j \in 1..N, i # j PROVE ToSet(q[i]) \cap ToSet(q[j]) = {}
      <3>1. c[i] # c[j] /\ c[i] \in T /\ c[j] \in T
        BY <1>0, <1>8, <2>2 DEF Once, N
      <3>2. ToSet(m[c[i]].entries) \cap ToSet(m[c[j]].entries) = {}
        BY <1>8, <3>1 DEF Books
      <3> QED BY <1>5, <3>2
    <2> QED BY <1>4, <2>1, <2>2 DEF Joined
  <1> QED BY <1>6, <1>7, <1>8 DEF o, T

\* The kept trunks are linked, booked and counted; the last may name a dropped one.
LEMMA ScrubListed ==
  ASSUME NEW w, Headed(w), NEW c, Listed(w, c, 0), NEW k \in Int
  PROVE  \E z \in PageNo :
            /\ z = 0 \/ ~(z < k)
            /\ Listed(ScrubFreelist(w, Below(c, k), k), Below(c, k), z)
            /\ FreeOf(ScrubFreelist(w, Below(c, k), k), Below(c, k)) =
                  {t \in ToSet(c) : t < k} \cup
                  UNION {{x \in ToSet(w.mem[t].entries) : x < k} : t \in {u \in ToSet(c) : u < k}}
  <1> DEFINE m == w.mem
             b == Below(c, k)
             v == ScrubFreelist(w, b, k)
             B == ToSet(b)
             T == ToSet(c)
             z == IF b = <<>> THEN 0 ELSE m[b[Len(b)]].next
  <1>0. m \in Pages /\ Links(c, 0, w.head, m) /\ Trunks(T, m) /\ Books(T, m)
    BY HandleIs, LinksTrunks DEF Listed, Headed
  <1>1. /\ b \in Seq(Page) /\ Once(b) /\ B = {t \in T : t < k} /\ z \in PageNo /\ (z = 0 \/ ~(z < k))
    BY <1>0, BelowLinks, PageIs
  <1>2. Trunks(B, m)
    BY <1>0, <1>1 DEF Trunks
  <1> HIDE DEF b
  <1>3. /\ Headed(v) /\ Scrub(w, v, b, k) /\ v.head = (IF b = <<>> THEN 0 ELSE b[1])
        /\ v.count = Len(FreeList(b, v.mem))
    BY <1>1, <1>2, ScrubFreelistIs
  <1> HIDE DEF v
  <1>4. Len(b) \in Nat /\ B = {b[i] : i \in 1..Len(b)}
    BY <1>1, ToSetIs
  <1>5. \A i \in 1..Len(b) : /\ v.mem[b[i]].entries = Below(m[b[i]].entries, k)
                             /\ v.mem[b[i]].next = Follow(b, m[b[Len(b)]].next, i)
                             /\ v.mem[b[i]].kind = "trunk"
    BY <1>1, <1>3, <1>4 DEF Scrub, Trunks
  <1>6. ASSUME NEW t \in B
        PROVE  /\ v.mem[t].entries = Below(m[t].entries, k)
               /\ ToSet(v.mem[t].entries) = {x \in ToSet(m[t].entries) : x < k}
               /\ Once(m[t].entries) => Once(v.mem[t].entries)
    <2>1. v.mem[t].entries = Below(m[t].entries, k)
      BY <1>4, <1>5
    <2>2. m[t] \in Content /\ m[t].kind = "trunk"
      BY <1>0, <1>2 DEF Trunks, Pages
    <2>3. m[t].entries \in Seq(Page \ {Root})
      BY <2>2, ContentIs
    <2> QED BY <2>1, <2>3, BelowEntries
  <1>7. Links(b, z, v.head, v.mem)
    <2>1. v.head = Follow(b, z, 0)
      <3>1. CASE b = <<>>
        BY <1>3, <3>1 DEF Follow
      <3>2. CASE b # <<>>
        <4>1. 0 < Len(b)
          BY <1>1, <3>2
        <4> QED BY <1>3, <3>2, <4>1 DEF Follow
      <3> QED BY <3>1, <3>2
    <2>2. ASSUME NEW i \in 1..Len(b) PROVE v.mem[b[i]].next = Follow(b, z, i)
      <3>1. b # <<>>
        BY <1>1, <1>4
      <3> QED BY <1>5, <3>1
    <2> HIDE DEF z
    <2> QED BY <1>1, <1>5, <2>1, <2>2 DEF Links
  <1>8. Books(B, v.mem)
    <2>1. ASSUME NEW t \in B PROVE Once(v.mem[t].entries) /\ ToSet(v.mem[t].entries) \cap B = {}
      <3>1. t \in T /\ Once(m[t].entries) /\ ToSet(m[t].entries) \cap T = {}
        BY <1>0, <1>1 DEF Books
      <3> QED BY <1>1, <1>6, <3>1
    <2>2. ASSUME NEW t \in B, NEW u \in B, t # u PROVE ToSet(v.mem[t].entries) \cap ToSet(v.mem[u].entries) = {}
      <3>1. t \in T /\ u \in T
        BY <1>1
      <3>2. ToSet(m[t].entries) \cap ToSet(m[u].entries) = {}
        BY <1>0, <2>2, <3>1 DEF Books
      <3> QED BY <1>6, <3>2
    <2> QED BY <2>1, <2>2 DEF Books
  <1>9. Free(B, v.mem) = {t \in T : t < k} \cup UNION {{x \in ToSet(m[t].entries) : x < k} : t \in {u \in T : u < k}}
    BY <1>1, <1>6 DEF Free
  <1>10. v.count = Cardinality(Free(B, v.mem))
    <2>1. v.mem \in Pages /\ Trunks(B, v.mem)
      BY <1>3, HandleIs DEF Scrub
    <2> QED BY <1>1, <1>3, <1>8, <2>1, FreeListIs
  <1>11. Listed(v, b, z) /\ FreeOf(v, b) = Free(B, v.mem)
    BY <1>7, <1>8, <1>10 DEF Listed, FreeOf
  <1>12. z \in PageNo /\ (z = 0 \/ ~(z < k))
    BY <1>1
  <1> HIDE DEF z
  <1>13. /\ (z = 0 \/ ~(z < k)) /\ Listed(v, b, z)
         /\ FreeOf(v, b) = {t \in T : t < k} \cup UNION {{x \in ToSet(m[t].entries) : x < k} : t \in {u \in T : u < k}}
    BY <1>9, <1>11, <1>12
  <1> QED BY <1>12, <1>13 DEF v, b

\* The handle with everything at or above k gone.
CutOf(u, k) ==
    [u EXCEPT !.n = k, !.cut = k,
              !.mem = [p \in Page |-> IF p < k THEN u.mem[p] ELSE Blank],
              !.map = [p \in Page |-> IF p < k THEN u.map[p] ELSE None],
              !.dirty = {p \in u.dirty : p < k}]

\* The fields of a handle that was cut.
LEMMA CutOfIs ==
  ASSUME NEW u \in Handle, NEW k \in 1..MaxPages
  PROVE  /\ CutOf(u, k) \in Handle /\ CutOf(u, k).n = k /\ CutOf(u, k).cut = k
         /\ CutOf(u, k).txn = u.txn /\ CutOf(u, k).zero = u.zero /\ CutOf(u, k).undo = u.undo
         /\ CutOf(u, k).head = u.head /\ CutOf(u, k).count = u.count
         /\ CutOf(u, k).dirty = {p \in u.dirty : p < k}
         /\ \A p \in Page : /\ CutOf(u, k).mem[p] = IF p < k THEN u.mem[p] ELSE Blank
                            /\ CutOf(u, k).map[p] = IF p < k THEN u.map[p] ELSE None
  <1> DEFINE mm == [p \in Page |-> IF p < k THEN u.mem[p] ELSE Blank]
             pp == [p \in Page |-> IF p < k THEN u.map[p] ELSE None]
             dd == {p \in u.dirty : p < k}
             v == CutOf(u, k)
  <1>0. u.mem \in Pages /\ u.map \in Undo /\ u.dirty \in SUBSET Page /\ k \in 0..MaxPages
    BY HandleIs
  <1>1. mm \in Pages /\ pp \in Undo /\ dd \in SUBSET Page
    BY <1>0, MakesContent DEF Pages, Undo
  <1>2. v = [u EXCEPT !.n = k, !.cut = k, !.mem = mm, !.map = pp, !.dirty = dd]
    BY DEF CutOf
  <1> HIDE DEF v, mm, pp, dd
  <1>3. /\ v \in Handle /\ v.n = k /\ v.cut = k /\ v.txn = u.txn /\ v.zero = u.zero /\ v.undo = u.undo
        /\ v.head = u.head /\ v.count = u.count /\ v.dirty = dd /\ v.mem = mm /\ v.map = pp
    BY <1>0, <1>1, <1>2 DEF Handle, Pages, Undo
  <1> QED BY <1>3 DEF mm, pp, dd, v

\* What truncate_tail does to the handle, and to its freelist.
Shortened(w, v, k) ==
    IF k = w.n THEN v = w
    ELSE \E u : /\ Headed(u) /\ Touch(w, u) /\ u.mem[Root] = w.mem[Root]
                /\ (Root \in w.dirty => Root \in u.dirty) /\ v = CutOf(u, k)
ShortListed(w, v, k, c) ==
    k # w.n => \E d, z : /\ z \in PageNo /\ (z = 0 \/ ~(z < k)) /\ Listed(v, d, z)
                         /\ FreeOf(v, d) = {x \in FreeOf(w, c) : x < k}
                         /\ \A q \in Page : q < k /\ q \notin FreeOf(w, c) => v.mem[q] = w.mem[q]

\* truncate_tail takes freed pages only, and keeps the freelist below the cut.
LEMMA TruncateTailIs ==
  ASSUME NEW w, Headed(w), len \in Nat, w.txn.n <= w.n, NEW freed, \E T : Closed(T, w.head, w.mem)
  PROVE  LET k == CutAt(w, freed)
             v == TruncateTail(w, freed)
         IN /\ k \in 1..w.n /\ k..w.n-1 \subseteq freed /\ w.txn.n <= k
            /\ Shortened(w, v, k)
            /\ \A c : Listed(w, c, 0) => ShortListed(w, v, k, c)
  <1> DEFINE k == CutAt(w, freed)
             v == TruncateTail(w, freed)
             c == TrunkPages(w)
             b == Below(c, k)
             x == ScrubFreelist(w, b, k)
             o == Orphans(w, k)
             u == FreeAll(x, o)
             m == w.mem
  <1>0. w \in Handle /\ m \in Pages /\ w.head \in PageNo /\ w.n \in 1..MaxPages
    BY HandleIs DEF Headed
  <1>1. k \in 1..w.n /\ k..w.n-1 \subseteq freed /\ w.txn.n <= k
    BY <1>0, CutIs
  <1>2. v = IF k = w.n THEN w ELSE CutOf(u, k)
    BY DEF TruncateTail, CutOf
  <1>3. Trunks(ToSet(c), m) /\ c \in Seq(Page)
    <2>1. PICK T : Closed(T, w.head, m)
      OBVIOUS
    <2>2. ToSet(c) \subseteq T /\ c \in Seq(Page) /\ ToSet(c) \subseteq Page
      BY <1>0, <2>1, ChainIn, ChainPages DEF TrunkPages
    <2> QED BY <2>1, <2>2 DEF Trunks, Closed
  <1>c. c = TrunkPages(w)
    OBVIOUS
  <1> HIDE DEF c, k, v
  <1>k. k \in Int
    BY <1>1
  <1>4. b \in Seq(Page) /\ ToSet(b) \subseteq ToSet(c)
    <2>1. Kept(b, c, k, Len(c)) /\ ToSet(c) = {c[i] : i \in 1..Len(c)}
      BY <1>3, <1>k, BelowIs, ToSetIs
    <2> HIDE DEF b
    <2> QED BY <2>1 DEF Kept
  <1>5. Trunks(ToSet(b), m)
    BY <1>3, <1>4 DEF Trunks
  <1>6. /\ o \in Seq(Page \ {Root})
        /\ ToSet(o) = UNION {{y \in ToSet(m[t].entries) : y < k} : t \in {e \in ToSet(c) : ~(e < k)}}
        /\ Once(c) /\ Books(ToSet(c), m) => Once(o)
    BY <1>0, <1>3, <1>c, <1>k, OrphansAre
  <1>7. Headed(x) /\ Touch(w, x) /\ w.dirty \subseteq x.dirty /\ Scrub(w, x, b, k)
    <2> HIDE DEF b
    <2> QED BY <1>4, <1>5, <1>k, ScrubFreelistIs
  <1>8. /\ AllFreed(x, u, o, Len(o))
        /\ \A e, z : Listed(x, e, z) /\ Once(o) /\ ToSet(o) \cap FreeOf(x, e) = {}
                         => AllListed(x, u, o, Len(o), e, z)
    <2> HIDE DEF x, o
    <2> QED BY <1>6, <1>7, FreeAllIs
  <1>9. Shortened(w, v, k)
    <2>1. Headed(u) /\ Touch(w, u)
      <3> HIDE DEF u, x
      <3> QED BY <1>7, <1>8, TouchTouch DEF AllFreed
    <2>2. x.mem[Root] = w.mem[Root]
      <3>1. Root \notin ToSet(b)
        BY <1>5 DEF Trunks, Headed
      <3> HIDE DEF x, b
      <3> QED BY <1>7, <3>1, PageIs DEF Scrub
    <2> HIDE DEF u, x
    <2>3. u.mem[Root] = w.mem[Root] /\ (Root \in w.dirty => Root \in u.dirty)
      BY <1>7, <1>8, <2>2 DEF AllFreed
    <2> QED BY <1>2, <2>1, <2>3 DEF Shortened
  <1>10. ASSUME NEW cc, Listed(w, cc, 0), k # w.n PROVE ShortListed(w, v, k, cc)
    <2>1. c = cc
      <3>1. Links(cc, 0, w.head, m)
        BY <1>10 DEF Listed
      <3> QED BY <1>0, <1>c, <3>1, LinksChain, PageIs DEF TrunkPages
    <2>l. Listed(w, c, 0)
      BY <1>10, <2>1
    <2>2. Once(c) /\ Books(ToSet(c), m)
      BY <2>l, LinksTrunks DEF Listed
    <2>3. PICK z \in PageNo :
            /\ z = 0 \/ ~(z < k)
            /\ Listed(x, b, z)
            /\ FreeOf(x, b) = {t \in ToSet(c) : t < k} \cup
                  UNION {{y \in ToSet(m[t].entries) : y < k} : t \in {e \in ToSet(c) : e < k}}
      BY <1>k, <2>l, ScrubListed
    <2> HIDE DEF x, u, b, o
    <2>4. ToSet(o) \cap FreeOf(x, b) = {}
      <3>1. ASSUME NEW e \in ToSet(o), e \in FreeOf(x, b) PROVE FALSE
        <4>1. PICK t \in ToSet(c) : ~(t < k) /\ e \in ToSet(m[t].entries)
          BY <1>6
        <4>2. e \notin ToSet(c)
          BY <2>2, <4>1 DEF Books
        <4>3. PICK r \in ToSet(c) : r < k /\ e \in ToSet(m[r].entries)
          BY <2>3, <3>1, <4>2
        <4>4. r # t
          BY <4>1, <4>3
        <4> QED BY <2>2, <4>1, <4>3, <4>4 DEF Books
      <3> QED BY <3>1
    <2>5. PICK d : /\ Listed(u, d, z) /\ FreeOf(u, d) = FreeOf(x, b) \cup {o[l] : l \in 1..Len(o)}
                   /\ \A q \in Page : q \notin FreeOf(u, d) => u.mem[q] = x.mem[q]
      BY <1>6, <1>8, <2>2, <2>3, <2>4 DEF AllListed
    <2>6. FreeOf(u, d) = {y \in FreeOf(w, c) : y < k}
      <3>1. ToSet(o) = {o[l] : l \in 1..Len(o)}
        BY <1>6, ToSetIs
      <3>2. FreeOf(u, d) = FreeOf(x, b) \cup ToSet(o)
        BY <2>5, <3>1
      <3> QED BY <1>6, <2>3, <3>2 DEF FreeOf, Free
    <2>7. Headed(u) /\ u \in Handle /\ k \in 1..MaxPages
      <3>1. Headed(u)
        BY <1>8 DEF AllFreed
      <3>2. k \in 1..MaxPages
        BY <1>0, <1>1, PageIs
      <3> QED BY <3>1, <3>2 DEF Headed
    <2>8. v = CutOf(u, k)
      BY <1>2, <1>10
    <2>9. v.head = u.head /\ v.count = u.count /\ \A q \in Page : q < k => v.mem[q] = u.mem[q]
      BY <2>7, <2>8, CutOfIs
    <2>10. Trunks(ToSet(d), u.mem)
      BY <2>5, LinksTrunks DEF Listed
    <2>11. \A t \in ToSet(d) : v.mem[t] = u.mem[t]
      <3>1. ToSet(d) \subseteq FreeOf(u, d)
        BY DEF FreeOf, Free
      <3> QED BY <2>6, <2>9, <2>10, <3>1 DEF Trunks
    <2>12. Listed(v, d, z) /\ FreeOf(v, d) = FreeOf(u, d)
      BY <2>5, <2>7, <2>9, <2>11, ListedFrame
    <2>13. ASSUME NEW q \in Page, q < k, q \notin FreeOf(w, c) PROVE v.mem[q] = w.mem[q]
      <3>1. q \notin FreeOf(u, d) /\ q \notin ToSet(c)
        BY <2>6, <2>13 DEF FreeOf, Free
      <3>2. x.mem[q] = w.mem[q]
        BY <1>4, <1>7, <3>1 DEF Scrub
      <3> QED BY <2>5, <2>9, <2>13, <3>1, <3>2
    <2> QED BY <2>1, <2>3, <2>6, <2>12, <2>13 DEF ShortListed
  <1>11. \A cc : Listed(w, cc, 0) => ShortListed(w, v, k, cc)
    BY <1>10 DEF ShortListed
  <1> QED BY <1>1, <1>9, <1>11 DEF k, v

-----------------------------------------------------------------------------
(* Accounts: what a header and the pages under it promise. *)

\* The pages of the tree, and that the header counts them all.
Tree(m) == IF m[Root].kind = "node" THEN {Root} \cup m[Root].kids ELSE {Root}
Tall(n, m) ==
    /\ m[Root].kind = "node" /\ Root < n
    /\ \A p \in m[Root].kids : p < n /\ m[p].kind = "leaf"

\* The freelist is linked, lists no page twice, is counted, and lies in the file
\* and apart from the tree; with Cover, the two are the whole file.
AccBy(h, m, c) ==
    /\ Links(c, 0, h.head, m) /\ Books(ToSet(c), m) /\ Tall(h.n, m)
    /\ Free(ToSet(c), m) \subseteq 1..h.n-1
    /\ Free(ToSet(c), m) \cap Tree(m) = {}
    /\ h.count = Cardinality(Free(ToSet(c), m))
Acc(h, m) == AccBy(h, m, Chain(h.head, m))
Cover(h, m) == Free(ToSet(Chain(h.head, m)), m) \cup Tree(m) = 1..h.n-1

\* What the accounts of a handle say about its freelist.
LEMMA AccElim ==
  ASSUME NEW w \in Handle, Acc(Header(w), w.mem)
  PROVE  /\ Listed(w, TrunkPages(w), 0) /\ Tall(w.n, w.mem)
         /\ FreeOf(w, TrunkPages(w)) \subseteq 1..w.n-1
         /\ FreeOf(w, TrunkPages(w)) \cap Tree(w.mem) = {}
         /\ Cover(Header(w), w.mem) <=> FreeOf(w, TrunkPages(w)) \cup Tree(w.mem) = 1..w.n-1
  BY DEF Acc, AccBy, Listed, FreeOf, Header, TrunkPages, Cover

\* A handle with an orderly freelist apart from its tree has its accounts in order.
LEMMA AccIntro ==
  ASSUME NEW w \in Handle, NEW d, Listed(w, d, 0), Tall(w.n, w.mem),
         FreeOf(w, d) \subseteq 1..w.n-1, FreeOf(w, d) \cap Tree(w.mem) = {}
  PROVE  /\ Acc(Header(w), w.mem)
         /\ FreeOf(w, d) \cup Tree(w.mem) = 1..w.n-1 => Cover(Header(w), w.mem)
  <1>1. w.mem \in Pages /\ w.head \in PageNo /\ 0 \in PageNo
    BY HandleIs, PageIs
  <1>2. Chain(w.head, w.mem) = d
    BY <1>1, LinksChain DEF Listed
  <1>3. Header(w).head = w.head /\ Header(w).n = w.n /\ Header(w).count = w.count
    BY DEF Header
  <1> QED BY <1>2, <1>3 DEF Acc, AccBy, Listed, FreeOf, Cover

\* A handle whose pages are what the statements expect.
LEMMA SoundIs ==
  ASSUME NEW w \in Handle, Sound(w)
  PROVE  /\ Headed(w) /\ Closed(ToSet(TrunkPages(w)), w.head, w.mem)
         /\ w.mem[Root].kids \in SUBSET Page /\ Root \notin w.mem[Root].kids
         /\ \A p \in w.mem[Root].kids : p < w.n /\ w.mem[p].kind = "leaf"
         /\ \A t \in ToSet(TrunkPages(w)) : t < w.n /\ w.mem[t].kind = "trunk"
  <1>1. w.mem \in Pages /\ w.head \in PageNo
    BY HandleIs
  <1> DEFINE c == TrunkPages(w)
  <1>2. /\ c \in Seq(Page) /\ ToSet(c) = {c[i] : i \in 1..Len(c)} /\ DOMAIN c = 1..Len(c)
        /\ (w.head # 0 => w.head \in ToSet(c)) /\ c = Chain(w.head, w.mem)
    BY <1>1, ChainPages DEF TrunkPages
  <1>3. \A t \in ToSet(c) : t < w.n /\ w.mem[t].kind = "trunk"
    BY <1>2 DEF Sound
  <1> HIDE DEF c
  <1>4. Closed(ToSet(c), w.head, w.mem)
    BY <1>1, <1>2, <1>3, ChainClosed
  <1>5. w.mem[Root].kind = "node" /\ \A p \in w.mem[Root].kids : p < w.n /\ w.mem[p].kind = "leaf"
    BY DEF Sound
  <1>6. w.mem[Root].kids \in SUBSET Page
    BY <1>1, <1>5, ContentIs, PageIs DEF Pages
  <1>7. Headed(w)
    BY <1>2, <1>3, <1>5 DEF Headed
  <1>8. Root \notin w.mem[Root].kids
    BY <1>5
  <1> QED BY <1>3, <1>4, <1>5, <1>6, <1>7, <1>8 DEF c

\* What a statement does to the handle: a rollback restores the same; a page
\* that is not dirty was not written, or was blanked with its body stored; new
\* pages are dirty; a cut is armed with the page count and takes frames along.
Moved(w, v) ==
    /\ v \in Handle /\ v.txn = w.txn /\ v.zero = w.zero /\ Restored(v) = Restored(w)
    /\ v.dirty # {} /\ Root < v.n /\ w.txn.n <= v.n
    /\ v.n < w.n => v.cut = v.n /\ \A p \in Page : v.map[p] = IF p < v.n THEN w.map[p] ELSE None
    /\ v.n >= w.n => v.cut = w.cut /\ v.map = w.map
    /\ \A p \in Page : p < v.n /\ p \notin v.dirty =>
          /\ p < w.n /\ (v.mem[p] = Blank \/ (p \notin w.dirty /\ v.mem[p] = w.mem[p]))
          /\ p \in w.dirty => p < len \/ w.map[p] # None

\* A statement that only grows the file leaves the freelist alone and adds pages
\* behind the end to the tree.
Grown(w, v) ==
    Risks(w, v) \subseteq {"grown"} =>
        /\ v.head = w.head /\ v.count = w.count
        /\ \A t \in Page : t < w.n /\ w.mem[t].kind = "trunk" => v.mem[t] = w.mem[t]
        /\ w.mem[Root].kids \subseteq v.mem[Root].kids
        /\ \A p \in v.mem[Root].kids : p \in w.mem[Root].kids \/ p = w.n

\* The accounts stay in order, unless the chain runs into pages that were cut.
Accounted(w, v) ==
    Acc(Header(w), w.mem) =>
        \/ \E t \in ToSet(TrunkPages(v)) : t >= v.n
        \/ Acc(Header(v), v.mem) /\ (Cover(Header(w), w.mem) => Cover(Header(v), v.mem))

\* All that the invariant needs to know about a statement.
Runs(w, v) == Moved(w, v) /\ Grown(w, v) /\ Accounted(w, v)

\* Writes that leave the page count alone.
LEMMA TouchMoved ==
  ASSUME NEW w \in Handle, NEW v \in Handle, Touch(w, v), v.dirty # {}, Root < w.n, w.txn.n <= w.n
  PROVE  Moved(w, v)
  <1>1. v.txn = w.txn /\ v.zero = w.zero /\ v.map = w.map /\ v.cut = w.cut /\ v.n = w.n
    BY DEF Touch, Rest
  <1>2. w.n \in Int
    BY HandleIs
  <1> QED BY <1>1, <1>2 DEF Moved, Touch

\* An update in place.
LEMMA UpdateRuns ==
  ASSUME NEW w \in Handle, Sound(w), Root < w.n, w.txn.n <= w.n, NEW c \in w.mem[Root].kids
  PROVE  Runs(w, Put(w, c, Leaf(1 - w.mem[c].val)))
  <1> DEFINE x == Leaf(1 - w.mem[c].val)
             v == Put(w, c, x)
             f == [q \in {c} |-> x]
  <1>1. c \in Page /\ w.mem[c].kind = "leaf" /\ c # Root /\ c < w.n /\ w.mem \in Pages
    BY SoundIs, HandleIs
  <1>2. x \in Content /\ x.kind = "leaf"
    <2>1. w.mem[c].val \in {0, 1}
      BY <1>1, ContentIs DEF Pages
    <2>2. 1 - w.mem[c].val \in {0, 1}
      BY <2>1
    <2> QED BY <2>2, MakesContent
  <1> HIDE DEF x
  <1>3. Wrote(w, v, f)
    BY <1>1, <1>2, PutIs
  <1> HIDE DEF v
  <1>4. /\ v \in Handle /\ Touch(w, v) /\ v.head = w.head /\ v.count = w.count
        /\ v.dirty = w.dirty \cup {c} /\ v.mem[c] = x
        /\ \A q \in Page : q # c => v.mem[q] = w.mem[q]
    BY <1>1, <1>3 DEF Wrote
  <1>5. Moved(w, v)
    <2>1. v.dirty # {}
      BY <1>4
    <2> QED BY <1>4, <2>1, TouchMoved
  <1>6. v.mem[Root] = w.mem[Root] /\ v.n = w.n
    BY <1>1, <1>4, PageIs DEF Touch, Rest
  <1>7. Grown(w, v)
    <2>1. \A t \in Page : t < w.n /\ w.mem[t].kind = "trunk" => v.mem[t] = w.mem[t]
      BY <1>1, <1>4
    <2> QED BY <1>4, <1>6, <2>1 DEF Grown
  <1>8. ASSUME Acc(Header(w), w.mem)
        PROVE  Acc(Header(v), v.mem) /\ (Cover(Header(w), w.mem) => Cover(Header(v), v.mem))
    <2> DEFINE d == TrunkPages(w)
    <2>1. /\ Listed(w, d, 0) /\ Tall(w.n, w.mem) /\ FreeOf(w, d) \subseteq 1..w.n-1
          /\ FreeOf(w, d) \cap Tree(w.mem) = {}
          /\ (Cover(Header(w), w.mem) <=> FreeOf(w, d) \cup Tree(w.mem) = 1..w.n-1)
      BY <1>8, AccElim
    <2> HIDE DEF d
    <2>2. Headed(w) /\ Trunks(ToSet(d), w.mem)
      BY <2>1, SoundIs, LinksTrunks DEF Listed
    <2>3. \A t \in ToSet(d) : v.mem[t] = w.mem[t]
      BY <1>1, <1>4, <2>2 DEF Trunks
    <2>4. Listed(v, d, 0) /\ FreeOf(v, d) = FreeOf(w, d)
      BY <1>4, <2>1, <2>2, <2>3, ListedFrame
    <2>5. Tree(v.mem) = Tree(w.mem)
      BY <1>6 DEF Tree
    <2>6. Tall(v.n, v.mem)
      <3>1. ASSUME NEW p \in w.mem[Root].kids PROVE p < w.n /\ v.mem[p].kind = "leaf"
        BY <1>2, <1>4, SoundIs
      <3> QED BY <1>6, <2>1, <3>1 DEF Tall
    <2> QED BY <1>4, <1>6, <2>1, <2>4, <2>5, <2>6, AccIntro
  <1> QED BY <1>5, <1>7, <1>8 DEF Runs, Accounted, v, x

-----------------------------------------------------------------------------
(* The statements, on a handle in order. *)

\* The leaves of a sound handle that are dropped: the accounts of the rest.
LEMMA DropTall ==
  ASSUME NEW w \in Handle, Sound(w), NEW s \in Seq(Page), NEW v, Dropped(w, v, s, Len(s)),
         ToSet(s) \subseteq w.mem[Root].kids
  PROVE  /\ v \in Handle /\ v.n = w.n /\ v.mem[Root].kind = "node"
         /\ v.mem[Root].kids = w.mem[Root].kids \ ToSet(s)
         /\ Tree(v.mem) = Tree(w.mem) \ ToSet(s) /\ ToSet(s) \cup Tree(v.mem) = Tree(w.mem)
         /\ ToSet(s) \cap Tree(v.mem) = {}
         /\ \A p \in v.mem[Root].kids : p < w.n /\ v.mem[p] = w.mem[p] /\ v.mem[p].kind = "leaf"
  <1>1. ToSet(s) = First(s, Len(s))
    BY ToSetIs DEF First
  <1>2. /\ Headed(v) /\ v.n = w.n
        /\ v.mem[Root].kids = w.mem[Root].kids \ ToSet(s)
        /\ \A q \in Page : w.mem[q].kind = "leaf" /\ q \notin ToSet(s) => v.mem[q] = w.mem[q]
    BY <1>1 DEF Dropped, Touch, Rest
  <1>3. /\ w.mem[Root].kids \in SUBSET Page /\ Root \notin w.mem[Root].kids
        /\ \A p \in w.mem[Root].kids : p < w.n /\ w.mem[p].kind = "leaf"
    BY SoundIs
  <1>4. w.mem[Root].kind = "node"
    BY DEF Sound
  <1>5. v.mem[Root].kind = "node" /\ v \in Handle
    BY <1>2 DEF Headed
  <1>6. Tree(w.mem) = {Root} \cup w.mem[Root].kids /\ Tree(v.mem) = {Root} \cup v.mem[Root].kids
    BY <1>4, <1>5 DEF Tree
  <1>7. \A p \in v.mem[Root].kids : p < w.n /\ v.mem[p] = w.mem[p] /\ v.mem[p].kind = "leaf"
    BY <1>2, <1>3
  <1>8. Root \notin ToSet(s)
    BY <1>3
  <1> QED BY <1>2, <1>3, <1>5, <1>6, <1>7, <1>8

\* The leaves of a tree are not on an orderly freelist.
LEMMA KidsNotFree ==
  ASSUME NEW w \in Handle, Acc(Header(w), w.mem), NEW S, S \subseteq w.mem[Root].kids
  PROVE  S \cap FreeOf(w, TrunkPages(w)) = {}
  <1>1. FreeOf(w, TrunkPages(w)) \cap Tree(w.mem) = {} /\ Tall(w.n, w.mem)
    BY AccElim
  <1>2. w.mem[Root].kids \subseteq Tree(w.mem)
    BY <1>1 DEF Tree, Tall
  <1> QED BY <1>1, <1>2

\* Dropped leaves move from the tree to the freelist.
LEMMA DropAcc ==
  ASSUME NEW w \in Handle, Sound(w), Acc(Header(w), w.mem), NEW s \in Seq(Page), NEW v,
         Dropped(w, v, s, Len(s)), ToSet(s) \subseteq w.mem[Root].kids, Root < w.n,
         DropListed(w, v, s, Len(s), TrunkPages(w))
  PROVE  Acc(Header(v), v.mem) /\ (Cover(Header(w), w.mem) => Cover(Header(v), v.mem))
  <1> DEFINE e == TrunkPages(w)
  <1>1. /\ FreeOf(w, e) \subseteq 1..w.n-1 /\ FreeOf(w, e) \cap Tree(w.mem) = {}
        /\ (Cover(Header(w), w.mem) <=> FreeOf(w, e) \cup Tree(w.mem) = 1..w.n-1)
    BY AccElim
  <1> HIDE DEF e
  <1>2. /\ v \in Handle /\ v.n = w.n /\ v.mem[Root].kind = "node"
        /\ ToSet(s) \cup Tree(v.mem) = Tree(w.mem) /\ ToSet(s) \cap Tree(v.mem) = {}
        /\ Tree(v.mem) = Tree(w.mem) \ ToSet(s)
        /\ \A p \in v.mem[Root].kids : p < w.n /\ v.mem[p].kind = "leaf"
    BY DropTall
  <1>3. ToSet(s) = First(s, Len(s))
    BY ToSetIs DEF First
  <1>4. PICK d : Listed(v, d, 0) /\ FreeOf(v, d) = FreeOf(w, e) \cup ToSet(s)
    BY <1>3 DEF DropListed, e
  <1>5. ToSet(s) \subseteq 1..w.n-1
    <2>1. ASSUME NEW p \in ToSet(s) PROVE p \in 1..w.n-1
      <3>1. p \in Page /\ p < w.n /\ w.n \in Nat
        BY <2>1, SoundIs, HandleIs
      <3> QED BY <3>1 DEF Page
    <2> QED BY <2>1
  <1>6. FreeOf(v, d) \subseteq 1..v.n-1
    BY <1>1, <1>2, <1>4, <1>5
  <1>7. FreeOf(v, d) \cap Tree(v.mem) = {}
    BY <1>1, <1>2, <1>4
  <1>8. Tall(v.n, v.mem)
    BY <1>2 DEF Tall
  <1>9. FreeOf(w, e) \cup Tree(w.mem) = 1..w.n-1 => FreeOf(v, d) \cup Tree(v.mem) = 1..v.n-1
    BY <1>2, <1>4
  <1> QED BY <1>1, <1>2, <1>4, <1>6, <1>7, <1>8, <1>9, AccIntro

\* The delete of a leaf's last row.
LEMMA DeleteRuns ==
  ASSUME NEW w \in Handle, Sound(w), Root < w.n, w.txn.n <= w.n, NEW c \in w.mem[Root].kids,
         len \in Nat
  PROVE  Runs(w, FreePage(Unlink(w, {c}), c))
  <1> DEFINE s == <<c>>
             v == DropStep(w, c)
  <1>1. /\ Headed(w) /\ Closed(ToSet(TrunkPages(w)), w.head, w.mem) /\ c \in Page
        /\ w.mem[c].kind = "leaf" /\ w.count \in Nat /\ w.n \in Nat
    BY SoundIs, HandleIs
  <1>2. s \in Seq(Page) /\ Len(s) = 1 /\ s[1] = c /\ Once(s)
    BY <1>1 DEF Once
  <1> HIDE DEF s
  <1>3. ToSet(s) = {c} /\ v = DropStep(w, s[0 + 1]) /\ ToSet(s) \subseteq w.mem[Root].kids
    <2>1. ToSet(s) = {s[i] : i \in 1..1}
      BY <1>2, ToSetIs
    <2>2. ToSet(s) = {c}
      BY <1>2, <2>1
    <2> QED BY <1>2, <2>2
  <1> HIDE DEF v
  <1>4. First(s, 0) = {} /\ First(s, 1) = {c}
    BY <1>2 DEF First
  <1>5. Dropped(w, w, s, 0)
    BY <1>1, <1>4, TouchSelf DEF Dropped
  <1>6. Dropped(w, v, s, 0 + 1)
    <2>1. 0 \in 0..Len(s)-1 /\ \A i \in 1..Len(s) : w.mem[s[i]].kind = "leaf"
      BY <1>1, <1>2
    <2> QED BY <1>1, <1>2, <1>3, <1>5, <2>1, DroppedStep
  <1>7. Dropped(w, v, s, Len(s)) /\ v.count = w.count + 1 /\ Root \in v.dirty /\ Touch(w, v)
    BY <1>2, <1>6 DEF Dropped
  <1>8. /\ v \in Handle /\ v.n = w.n /\ v.mem[Root].kind = "node"
        /\ ToSet(s) \cup Tree(v.mem) = Tree(w.mem) /\ ToSet(s) \cap Tree(v.mem) = {}
        /\ Tree(v.mem) = Tree(w.mem) \ ToSet(s)
        /\ \A p \in v.mem[Root].kids : p < w.n /\ v.mem[p].kind = "leaf"
    <2>1. s \in Seq(Page) /\ ToSet(s) \subseteq w.mem[Root].kids /\ Dropped(w, v, s, Len(s))
      BY <1>2, <1>3, <1>7
    <2> QED BY <2>1, DropTall
  <1>9. Moved(w, v)
    BY <1>7, <1>8, TouchMoved
  <1>10. Grown(w, v)
    <2>1. "freed" \in Risks(w, v)
      BY <1>1, <1>7 DEF Risks
    <2> QED BY <2>1 DEF Grown
  <1>11. ASSUME Acc(Header(w), w.mem)
         PROVE  Acc(Header(v), v.mem) /\ (Cover(Header(w), w.mem) => Cover(Header(v), v.mem))
    <2> DEFINE e == TrunkPages(w)
    <2>1. Listed(w, e, 0)
      BY <1>11, AccElim
    <2>2. ToSet(s) \cap FreeOf(w, e) = {}
      BY <1>3, <1>11, KidsNotFree
    <2> HIDE DEF e
    <2>3. DropListed(w, w, s, 0, e)
      BY <1>4, <2>1 DEF DropListed
    <2>4. DropListed(w, v, s, 0 + 1, e)
      <3>1. 0 \in 0..Len(s)-1 /\ \A i \in 1..Len(s) : w.mem[s[i]].kind = "leaf"
        BY <1>1, <1>2
      <3> QED BY <1>1, <1>2, <1>3, <1>5, <2>2, <2>3, <3>1, DropListedStep
    <2>5. DropListed(w, v, s, Len(s), TrunkPages(w))
      BY <1>2, <2>4 DEF e
    <2>6. s \in Seq(Page) /\ Dropped(w, v, s, Len(s)) /\ ToSet(s) \subseteq w.mem[Root].kids
      BY <1>2, <1>3, <1>7
    <2> QED BY <1>11, <2>5, <2>6, DropAcc
  <1> QED BY <1>9, <1>10, <1>11 DEF Runs, Accounted, v, DropStep

\* A cut of the file after writes.
LEMMA CutMoved ==
  ASSUME NEW w \in Handle, NEW x \in Handle, Touch(w, x), NEW k \in 1..MaxPages, k < w.n,
         w.txn.n <= k, Root < k, Root \in x.dirty
  PROVE  Moved(w, CutOf(x, k))
  <1> DEFINE v == CutOf(x, k)
  <1>1. /\ v \in Handle /\ v.n = k /\ v.cut = k /\ v.txn = x.txn /\ v.zero = x.zero /\ v.undo = x.undo
        /\ v.dirty = {p \in x.dirty : p < k}
        /\ \A p \in Page : /\ v.mem[p] = IF p < k THEN x.mem[p] ELSE Blank
                           /\ v.map[p] = IF p < k THEN x.map[p] ELSE None
    BY CutOfIs
  <1> HIDE DEF v
  <1>2. x.txn = w.txn /\ x.zero = w.zero /\ x.map = w.map /\ Restored(x) = Restored(w)
    BY DEF Touch, Rest
  <1>3. w.n \in Int /\ w.txn.n \in Int /\ Page \subseteq Int
    BY HandleIs, PageIs
  <1>4. ASSUME NEW p \in Page PROVE Restored(v)[p] = Restored(x)[p]
    <2>1. CASE p >= w.txn.n
      BY <1>1, <1>2, <2>1 DEF Restored
    <2>2. CASE p < w.txn.n
      <3>1. p < k
        BY <1>3, <2>2
      <3> QED BY <1>1, <1>2, <3>1 DEF Restored
    <2> QED BY <1>3, <2>1, <2>2
  <1>5. Restored(v) = Restored(w)
    BY <1>2, <1>4 DEF Restored
  <1>6. Root \in v.dirty
    BY <1>1
  <1>7. ASSUME NEW p \in Page, p < v.n, p \notin v.dirty
        PROVE  /\ p < w.n /\ (v.mem[p] = Blank \/ (p \notin w.dirty /\ v.mem[p] = w.mem[p]))
               /\ p \in w.dirty => p < len \/ w.map[p] # None
    <2>1. p < k /\ p \notin x.dirty /\ v.mem[p] = x.mem[p]
      BY <1>1, <1>7
    <2>2. p < w.n
      BY <1>3, <2>1
    <2> QED BY <2>1, <2>2 DEF Touch
  <1>8. ~(v.n >= w.n)
    BY <1>1, <1>3
  <1> QED BY <1>1, <1>2, <1>5, <1>6, <1>7, <1>8 DEF Moved, v

\* The accounts after a cut, unless the last trunk kept names one that is gone.
LEMMA CutAcc ==
  ASSUME NEW u \in Handle, Headed(u), NEW v \in Handle, Acc(Header(u), u.mem), NEW k \in 1..MaxPages,
         k # u.n, v.n = k, Root < k, k <= u.n, v.mem[Root] = u.mem[Root],
         k..u.n-1 \cap u.mem[Root].kids = {}, ShortListed(u, v, k, TrunkPages(u))
  PROVE  \/ \E t \in ToSet(TrunkPages(v)) : t >= v.n
         \/ Acc(Header(v), v.mem) /\ (Cover(Header(u), u.mem) => Cover(Header(v), v.mem))
  <1> DEFINE e == TrunkPages(u)
  <1>1. /\ FreeOf(u, e) \subseteq 1..u.n-1 /\ FreeOf(u, e) \cap Tree(u.mem) = {} /\ Tall(u.n, u.mem)
        /\ (Cover(Header(u), u.mem) <=> FreeOf(u, e) \cup Tree(u.mem) = 1..u.n-1)
    BY AccElim
  <1>2. PICK d, z : /\ z \in PageNo /\ (z = 0 \/ ~(z < k)) /\ Listed(v, d, z)
                    /\ FreeOf(v, d) = {x \in FreeOf(u, e) : x < k}
                    /\ \A q \in Page : q < k /\ q \notin FreeOf(u, e) => v.mem[q] = u.mem[q]
    BY DEF ShortListed
  <1> HIDE DEF e
  <1>3. v.mem \in Pages /\ v.head \in PageNo /\ u.n \in Nat /\ u.mem \in Pages
    BY HandleIs
  <1>4. CASE z # 0
    <2>1. z \in ToSet(TrunkPages(v))
      BY <1>2, <1>3, <1>4, LinksChain DEF Listed, TrunkPages
    <2>2. z >= v.n
      BY <1>2, <1>4 DEF PageNo
    <2> QED BY <2>1, <2>2
  <1>5. CASE z = 0
    <2>1. Listed(v, d, 0)
      BY <1>2, <1>5
    <2>2. Tree(v.mem) = Tree(u.mem) /\ Tree(u.mem) = {Root} \cup u.mem[Root].kids
      BY <1>1 DEF Tree, Tall
    <2>3. ASSUME NEW p \in u.mem[Root].kids
          PROVE  p < k /\ p \in 1..k-1 /\ v.mem[p].kind = "leaf"
      <3>1. p \in Page /\ p < u.n /\ u.mem[p].kind = "leaf"
        BY <1>1, <1>3, <2>3, ContentIs, PageIs DEF Tall, Pages
      <3>2. p < k /\ p \in 1..k-1
        BY <1>3, <2>3, <3>1 DEF Page
      <3>3. p \notin FreeOf(u, e)
        BY <1>1, <2>2, <2>3
      <3> QED BY <1>2, <3>1, <3>2, <3>3
    <2>4. Tall(v.n, v.mem)
      BY <1>1, <2>3 DEF Tall
    <2>5. Root \in 1..k-1
      BY PageIs DEF Page
    <2>6. Tree(u.mem) \subseteq 1..k-1
      BY <2>2, <2>3, <2>5
    <2>7. FreeOf(v, d) \subseteq 1..v.n-1
      BY <1>1, <1>2
    <2>8. FreeOf(v, d) \cap Tree(v.mem) = {}
      BY <1>1, <1>2, <2>2
    <2>9. FreeOf(u, e) \cup Tree(u.mem) = 1..u.n-1 => FreeOf(v, d) \cup Tree(v.mem) = 1..v.n-1
      <3>1. HAVE FreeOf(u, e) \cup Tree(u.mem) = 1..u.n-1
      <3>2. ASSUME NEW q \in 1..k-1 PROVE q \in FreeOf(v, d) \cup Tree(v.mem)
        <4>1. q \in 1..u.n-1 /\ q < k
          BY <1>3, <3>2
        <4> QED BY <1>2, <2>2, <3>1, <4>1
      <3> QED BY <2>2, <2>6, <2>7, <3>2
    <2> QED BY <1>1, <2>1, <2>4, <2>7, <2>8, <2>9, AccIntro
  <1> QED BY <1>4, <1>5

\* delete_rowids_inorder: leaves are dropped one after the other, then the tail
\* of the file is cut.
LEMMA MassDeleteRuns ==
  ASSUME NEW w \in Handle, Sound(w), Root < w.n, w.txn.n <= w.n, len \in Nat,
         NEW s \in Seq(Page), Once(s), s # <<>>, ToSet(s) \subseteq w.mem[Root].kids
  PROVE  Runs(w, TruncateTail(DropLeaves(w, s), ToSet(s)))
  <1> DEFINE u == DropLeaves(w, s)
             v == TruncateTail(u, ToSet(s))
             k == CutAt(u, ToSet(s))
             N == Len(s)
  <1>1. /\ Headed(w) /\ Closed(ToSet(TrunkPages(w)), w.head, w.mem)
        /\ w.count \in Nat /\ w.n \in 1..MaxPages /\ Root \notin w.mem[Root].kids
        /\ \A p \in w.mem[Root].kids : w.mem[p].kind = "leaf"
    BY SoundIs, HandleIs
  <1>2. \A i \in 1..Len(s) : w.mem[s[i]].kind = "leaf" /\ s[i] \in ToSet(s)
    BY <1>1, ToSetIs
  <1>3. N \in Nat /\ N # 0
    BY ToSetIs
  <1>4. /\ Dropped(w, u, s, N)
        /\ \A c : Listed(w, c, 0) /\ ToSet(s) \cap FreeOf(w, c) = {} => DropListed(w, u, s, N, c)
    BY <1>1, <1>2, DropLeavesIs
  <1> HIDE DEF u
  <1>5. /\ Headed(u) /\ Touch(w, u) /\ u.count = w.count + N /\ Root \in u.dirty
        /\ \E T : Closed(T, u.head, u.mem)
    BY <1>3, <1>4 DEF Dropped
  <1>6. /\ u \in Handle /\ u.n = w.n /\ u.mem[Root].kids = w.mem[Root].kids \ ToSet(s)
    BY <1>4, DropTall
  <1>7. u.txn = w.txn
    BY <1>5 DEF Touch, Rest
  <1>8. /\ k \in 1..u.n /\ k..u.n-1 \subseteq ToSet(s) /\ u.txn.n <= k
        /\ Shortened(u, v, k)
        /\ \A c : Listed(u, c, 0) => ShortListed(u, v, k, c)
    BY <1>5, <1>6, <1>7, TruncateTailIs
  <1> HIDE DEF v, k, N
  <1>9. ASSUME Acc(Header(w), w.mem)
        PROVE  /\ Acc(Header(u), u.mem) /\ (Cover(Header(w), w.mem) => Cover(Header(u), u.mem))
               /\ ShortListed(u, v, k, TrunkPages(u))
    <2>1. DropListed(w, u, s, N, TrunkPages(w))
      BY <1>4, <1>9, AccElim, KidsNotFree
    <2>2. Acc(Header(u), u.mem) /\ (Cover(Header(w), w.mem) => Cover(Header(u), u.mem))
      BY <1>4, <1>9, <2>1, DropAcc DEF N
    <2>3. ShortListed(u, v, k, TrunkPages(u))
      BY <1>6, <1>8, <2>2, AccElim
    <2> QED BY <2>2, <2>3
  <1>10. CASE k = u.n
    <2>1. v = u
      BY <1>8, <1>10 DEF Shortened
    <2>2. Moved(w, v)
      BY <1>5, <1>6, <2>1, TouchMoved
    <2>3. Grown(w, v)
      <3>1. v.count > w.count
        BY <1>1, <1>3, <1>5, <2>1
      <3>2. "freed" \in Risks(w, v)
        BY <3>1 DEF Risks
      <3> QED BY <3>2 DEF Grown
    <2>4. Accounted(w, v)
      BY <1>9, <2>1 DEF Accounted
    <2> QED BY <2>2, <2>3, <2>4 DEF Runs, v, u
  <1>11. CASE k # u.n
    <2>1. PICK x : /\ Headed(x) /\ Touch(u, x) /\ x.mem[Root] = u.mem[Root]
                   /\ Root \in x.dirty /\ v = CutOf(x, k)
      BY <1>5, <1>8, <1>11 DEF Shortened
    <2>2. x \in Handle /\ Touch(w, x)
      BY <1>5, <2>1, TouchTouch DEF Headed
    <2>3. k \in 1..MaxPages /\ k < w.n /\ w.txn.n <= k /\ k <= u.n
      <3>1. k \in 1..w.n /\ k # w.n
        BY <1>6, <1>8, <1>11
      <3>2. k \in 1..MaxPages /\ k < w.n
        BY <1>1, <3>1, PageIs
      <3>3. w.txn.n <= k
        BY <1>7, <1>8
      <3>4. k <= u.n
        BY <1>1, <1>6, <3>2
      <3> QED BY <3>2, <3>3, <3>4
    <2>4. Root < k
      <3>1. Root \notin ToSet(s) /\ Root \in Nat
        BY <1>1, PageIs
      <3>2. Root \notin k..u.n-1
        BY <1>8, <3>1
      <3> QED BY <1>1, <1>6, <2>3, <3>1, <3>2
    <2>5. Moved(w, v)
      BY <2>1, <2>2, <2>3, <2>4, CutMoved
    <2>6. v \in Handle /\ v.n = k /\ v.mem[Root] = u.mem[Root]
      BY <2>1, <2>2, <2>3, <2>4, CutOfIs, PageIs
    <2>7. Grown(w, v)
      <3>1. "cut" \in Risks(w, v)
        BY <2>3, <2>6 DEF Risks
      <3> QED BY <3>1 DEF Grown
    <2>8. k..u.n-1 \cap u.mem[Root].kids = {}
      BY <1>6, <1>8
    <2>9. Accounted(w, v)
      <3>1. ASSUME Acc(Header(w), w.mem)
            PROVE  \/ \E t \in ToSet(TrunkPages(v)) : t >= v.n
                   \/ Acc(Header(v), v.mem) /\ (Cover(Header(u), u.mem) => Cover(Header(v), v.mem))
        BY <1>5, <1>6, <1>9, <1>11, <2>3, <2>4, <2>6, <2>8, <3>1, CutAcc
      <3> QED BY <1>9, <3>1 DEF Accounted
    <2> QED BY <2>5, <2>7, <2>9 DEF Runs, v, u
  <1> QED BY <1>10, <1>11

\* All but the last element of a sequence, and all but the first.
LEMMA FrontIs ==
  ASSUME NEW X, NEW s \in Seq(X), s # <<>>
  PROVE  /\ Front(s) \in Seq(X) /\ Last(s) \in ToSet(s) /\ Last(s) \in X
         /\ ToSet(Front(s)) \subseteq ToSet(s) /\ ToSet(s) = ToSet(Front(s)) \cup {Last(s)}
         /\ Once(s) => Once(Front(s)) /\ Last(s) \notin ToSet(Front(s))
  <1> DEFINE q == Front(s)
             N == Len(s)
  <1>1. N \in Nat /\ N >= 1 /\ N # 0
    OBVIOUS
  <1>2. q \in Seq(X) /\ Len(q) = N - 1 /\ \A i \in 1..N-1 : q[i] = s[i]
    <2> DEFINE M == N - 1
    <2>1. M \in Int /\ 1 \in Int /\ \A i \in 1..M : s[i] \in X
      BY <1>1
    <2>2. q = SubSeq(s, 1, M)
      BY DEF Front
    <2> HIDE DEF q, N, M
    <2>3. /\ q \in Seq(X) /\ Len(q) = (IF 1 <= M THEN M - 1 + 1 ELSE 0)
          /\ \A i \in 1..M-1+1 : q[i] = s[1 + i - 1]
      BY <2>1, <2>2, SubSeqProperties
    <2>4. M = N - 1
      BY DEF M
    <2> QED BY <1>1, <2>3, <2>4
  <1>3. Last(s) = s[N]
    BY DEF Last
  <1>4. ToSet(s) = {s[i] : i \in 1..N}
    BY ToSetIs
  <1> HIDE DEF q, N
  <1>5. ToSet(q) = {q[i] : i \in 1..N-1}
    BY <1>2, ToSetIs
  <1>6. ToSet(q) \subseteq ToSet(s) /\ Last(s) \in ToSet(s)
    BY <1>1, <1>2, <1>3, <1>4, <1>5
  <1>7. ToSet(s) \subseteq ToSet(q) \cup {Last(s)}
    <2>1. ASSUME NEW i \in 1..N PROVE s[i] \in ToSet(q) \cup {Last(s)}
      <3>1. CASE i = N
        BY <1>3, <3>1
      <3>2. CASE i # N
        <4>1. i \in 1..N-1
          BY <1>1, <3>2
        <4> QED BY <1>2, <1>5, <4>1
      <3> QED BY <3>1, <3>2
    <2> QED BY <1>4, <2>1
  <1>8. ASSUME Once(s) PROVE Once(q) /\ Last(s) \notin ToSet(q)
    <2>1. \A i, j \in 1..N : s[i] = s[j] => i = j
      BY <1>8 DEF Once, N
    <2>2. Once(q)
      <3>1. ASSUME NEW i \in 1..N-1, NEW j \in 1..N-1, q[i] = q[j] PROVE i = j
        <4>1. i \in 1..N /\ j \in 1..N /\ s[i] = s[j]
          BY <1>1, <1>2, <3>1
        <4> QED BY <2>1, <4>1
      <3> QED BY <1>2, <3>1 DEF Once
    <2>3. ASSUME NEW i \in 1..N-1, q[i] = s[N] PROVE FALSE
      <3>1. i \in 1..N /\ N \in 1..N /\ s[i] = s[N] /\ i # N
        BY <1>1, <1>2, <2>3
      <3> QED BY <2>1, <3>1
    <2> QED BY <1>3, <1>5, <2>2, <2>3
  <1>9. Last(s) \in X
    BY <1>6, ToSetIs
  <1> QED BY <1>2, <1>6, <1>7, <1>8, <1>9 DEF q

\* All but the first element of a sequence without repetition.
LEMMA TailIs ==
  ASSUME NEW X, NEW s \in Seq(X), s # <<>>, Once(s)
  PROVE  /\ Tail(s) \in Seq(X) /\ Len(Tail(s)) = Len(s) - 1 /\ Len(s) \in Nat /\ Len(s) >= 1
         /\ \A i \in 1..Len(s)-1 : Tail(s)[i] = s[i + 1]
         /\ ToSet(Tail(s)) = ToSet(s) \ {s[1]} /\ Once(Tail(s))
  <1> DEFINE q == Tail(s)
             N == Len(s)
  <1>1. N \in Nat /\ N >= 1 /\ N # 0
    OBVIOUS
  <1>2. q \in Seq(X) /\ Len(q) = N - 1 /\ \A i \in 1..N-1 : q[i] = s[i + 1]
    BY <1>1
  <1>3. ToSet(s) = {s[i] : i \in 1..N} /\ \A i, j \in 1..N : s[i] = s[j] => i = j
    BY ToSetIs DEF Once
  <1> HIDE DEF q, N
  <1>4. ToSet(q) = {q[i] : i \in 1..N-1}
    BY <1>2, ToSetIs
  <1>5. ASSUME NEW i \in 1..N-1 PROVE q[i] \in ToSet(s) /\ q[i] # s[1]
    <2>1. i + 1 \in 1..N /\ 1 \in 1..N /\ i + 1 # 1 /\ q[i] = s[i + 1]
      BY <1>1, <1>2, <1>5
    <2> QED BY <1>3, <2>1
  <1>6. ASSUME NEW i \in 1..N, s[i] # s[1] PROVE s[i] \in ToSet(q)
    <2>1. i # 1
      BY <1>6
    <2>2. i - 1 \in 1..N-1 /\ (i - 1) + 1 = i
      BY <1>1, <2>1
    <2>3. q[i - 1] = s[i]
      BY <1>2, <2>2
    <2> QED BY <1>4, <2>2, <2>3
  <1>7. ToSet(q) = ToSet(s) \ {s[1]}
    BY <1>3, <1>4, <1>5, <1>6
  <1>8. Once(q)
    <2>1. ASSUME NEW i \in 1..N-1, NEW j \in 1..N-1, q[i] = q[j] PROVE i = j
      <3>1. i + 1 \in 1..N /\ j + 1 \in 1..N /\ s[i + 1] = s[j + 1]
        BY <1>1, <1>2, <2>1
      <3>2. i + 1 = j + 1
        BY <1>3, <3>1
      <3> QED BY <1>1, <3>2
    <2> QED BY <1>2, <2>1 DEF Once
  <1> QED BY <1>1, <1>2, <1>7, <1>8 DEF q, N

\* The page a becomes a leaf of the tree.
AddLeaf(y, a) ==
    LET x == Put(Put(y, a, Blank), a, Leaf(0)) IN Put(x, Root, Node(x.mem[Root].kids \cup {a}))

\* The fields of a handle whose tree has got a leaf.
LEMMA AddLeafIs ==
  ASSUME NEW y, Headed(y), NEW a \in Page \ {Root}
  PROVE  LET v == AddLeaf(y, a)
         IN /\ v \in Handle /\ Touch(y, v) /\ v.head = y.head /\ v.count = y.count
            /\ v.dirty = y.dirty \cup {a, Root} /\ v.n = y.n
            /\ v.mem[a].kind = "leaf" /\ v.mem[Root].kind = "node"
            /\ v.mem[Root].kids = y.mem[Root].kids \cup {a}
            /\ \A q \in Page : q # a /\ q # Root => v.mem[q] = y.mem[q]
  <1> DEFINE b == Put(y, a, Blank)
             x == Put(b, a, Leaf(0))
             K == x.mem[Root].kids \cup {a}
             v == Put(x, Root, Node(K))
  <1>1. y \in Handle /\ y.mem \in Pages /\ y.mem[Root].kind = "node" /\ Root \in Page
    BY HandleIs, PageIs DEF Headed
  <1>0. Blank \in Content /\ Leaf(0) \in Content /\ Leaf(0).kind = "leaf"
    BY MakesContent
  <1>2. Wrote(y, b, [q \in {a} |-> Blank])
    BY <1>0, <1>1, PutIs
  <1> HIDE DEF b
  <1>3. /\ b \in Handle /\ Touch(y, b) /\ b.head = y.head /\ b.count = y.count
        /\ b.dirty = y.dirty \cup {a} /\ \A q \in Page : q # a => b.mem[q] = y.mem[q]
    BY <1>2 DEF Wrote
  <1>4. Wrote(b, x, [q \in {a} |-> Leaf(0)])
    BY <1>0, <1>3, PutIs
  <1> HIDE DEF x
  <1>5. /\ x \in Handle /\ Touch(b, x) /\ x.head = b.head /\ x.count = b.count
        /\ x.dirty = b.dirty \cup {a} /\ \A q \in Page : q # a => x.mem[q] = b.mem[q]
        /\ x.mem[a] = Leaf(0)
    BY <1>4 DEF Wrote
  <1>6. x.mem[Root] = y.mem[Root] /\ x.mem[a].kind = "leaf"
    BY <1>0, <1>1, <1>3, <1>5
  <1>7. K \in SUBSET Page
    BY <1>1, <1>6, ContentIs DEF Pages
  <1> HIDE DEF K
  <1>8. Node(K) \in Content /\ Node(K).kind = "node" /\ Node(K).kids = K
    BY <1>7, MakesContent
  <1>9. Wrote(x, v, [q \in {Root} |-> Node(K)])
    BY <1>1, <1>5, <1>8, PutIs
  <1> HIDE DEF v
  <1>10. /\ v \in Handle /\ Touch(x, v) /\ v.head = x.head /\ v.count = x.count
         /\ v.dirty = x.dirty \cup {Root} /\ \A q \in Page : q # Root => v.mem[q] = x.mem[q]
         /\ v.mem[Root] = Node(K)
    BY <1>1, <1>9 DEF Wrote
  <1>11. Touch(y, v)
    BY <1>3, <1>5, <1>10, TouchTouch
  <1>12. v.n = y.n
    BY <1>11 DEF Touch, Rest
  <1>13. v.head = y.head /\ v.count = y.count /\ v.dirty = y.dirty \cup {a, Root}
    BY <1>3, <1>5, <1>10
  <1>14. v.mem[a].kind = "leaf" /\ v.mem[Root].kind = "node" /\ v.mem[Root].kids = y.mem[Root].kids \cup {a}
    BY <1>6, <1>8, <1>10 DEF K
  <1>15. \A q \in Page : q # a /\ q # Root => v.mem[q] = y.mem[q]
    BY <1>3, <1>5, <1>10
  <1>16. v = AddLeaf(y, a)
    BY DEF AddLeaf, v, x, b, K
  <1> QED BY <1>10, <1>11, <1>12, <1>13, <1>14, <1>15, <1>16

\* A page of the freelist joins the tree.
LEMMA PopAcc ==
  ASSUME NEW w \in Handle, Sound(w), Acc(Header(w), w.mem), NEW v \in Handle, v.n = w.n,
         NEW a \in FreeOf(w, TrunkPages(w)), NEW d, Listed(v, d, 0),
         FreeOf(v, d) = FreeOf(w, TrunkPages(w)) \ {a},
         v.mem[Root].kind = "node", v.mem[Root].kids = w.mem[Root].kids \cup {a},
         \A p \in v.mem[Root].kids : v.mem[p].kind = "leaf"
  PROVE  Acc(Header(v), v.mem) /\ (Cover(Header(w), w.mem) => Cover(Header(v), v.mem))
  <1> DEFINE e == TrunkPages(w)
  <1>1. /\ FreeOf(w, e) \subseteq 1..w.n-1 /\ FreeOf(w, e) \cap Tree(w.mem) = {} /\ Tall(w.n, w.mem)
        /\ (Cover(Header(w), w.mem) <=> FreeOf(w, e) \cup Tree(w.mem) = 1..w.n-1)
    BY AccElim
  <1>2. Tree(v.mem) = Tree(w.mem) \cup {a}
    BY <1>1 DEF Tree, Tall
  <1>3. w.n \in Nat /\ a \in 1..w.n-1
    BY <1>1, HandleIs
  <1>4. \A p \in v.mem[Root].kids : p < v.n
    BY <1>1, <1>3 DEF Tall
  <1>5. Tall(v.n, v.mem)
    BY <1>1, <1>4 DEF Tall
  <1> HIDE DEF e
  <1>6. FreeOf(v, d) = FreeOf(w, e) \ {a} /\ a \in FreeOf(w, e)
    BY DEF e
  <1>7. FreeOf(v, d) \subseteq 1..v.n-1 /\ FreeOf(v, d) \cap Tree(v.mem) = {}
    BY <1>1, <1>2, <1>6
  <1>8. FreeOf(w, e) \cup Tree(w.mem) = 1..w.n-1 => FreeOf(v, d) \cup Tree(v.mem) = 1..v.n-1
    BY <1>2, <1>6
  <1> QED BY <1>1, <1>5, <1>7, <1>8, AccIntro

\* Nothing is counted as free: the file grows.
LEMMA ExtendRuns ==
  ASSUME NEW w \in Handle, Sound(w), Root < w.n, w.txn.n <= w.n, Heal(w).count = 0, w.n < MaxPages
  PROVE  Runs(w, AddLeaf([Heal(w) EXCEPT !.n = @ + 1], w.n))
  <1> DEFINE y == [Heal(w) EXCEPT !.n = @ + 1]
             k == w.n + 1
             v == AddLeaf(y, w.n)
  <1>1. /\ w.n \in 1..MaxPages /\ w.count \in Nat /\ w.mem \in Pages /\ w.head \in PageNo /\ Headed(w)
        /\ w.mem[Root].kids \in SUBSET Page /\ w.txn.n \in Int
        /\ \A p \in w.mem[Root].kids : p < w.n /\ w.mem[p].kind = "leaf"
    BY HandleIs, SoundIs
  <1>2. w.mem[Root].kind = "node" /\ MaxPages \in Nat /\ Root \in Nat /\ Root \in Page
    BY PageIs DEF Sound
  <1>3. w.n \in Page \ {Root} /\ k \in 1..MaxPages
    BY <1>1, <1>2 DEF Page
  <1>4. y = [w EXCEPT !.n = k, !.count = 0]
    <2>1. CASE w.head = 0
      <3>1. Heal(w) = [w EXCEPT !.count = 0]
        BY <2>1 DEF Heal
      <3> QED BY <3>1 DEF Handle
    <2>2. CASE w.head # 0
      <3>1. Heal(w) = w
        BY <2>2 DEF Heal
      <3>2. w.count = 0
        BY <3>1
      <3> QED BY <3>1, <3>2 DEF Handle
    <2> QED BY <2>1, <2>2
  <1> HIDE DEF y, k
  <1>5. /\ y \in Handle /\ y.n = k /\ y.count = 0 /\ y.head = w.head /\ y.mem = w.mem
        /\ y.dirty = w.dirty /\ y.txn = w.txn /\ y.zero = w.zero /\ y.map = w.map /\ y.cut = w.cut
        /\ y.undo = w.undo
    BY <1>3, <1>4 DEF Handle
  <1>6. Headed(y)
    BY <1>1, <1>5 DEF Headed
  <1>7. /\ v \in Handle /\ Touch(y, v) /\ v.head = y.head /\ v.count = y.count
        /\ v.dirty = y.dirty \cup {w.n, Root} /\ v.n = y.n
        /\ v.mem[w.n].kind = "leaf" /\ v.mem[Root].kind = "node"
        /\ v.mem[Root].kids = y.mem[Root].kids \cup {w.n}
        /\ \A q \in Page : q # w.n /\ q # Root => v.mem[q] = y.mem[q]
    BY <1>3, <1>6, AddLeafIs
  <1> HIDE DEF v
  <1>8. v.n = w.n + 1 /\ v.n > w.n /\ v.n >= w.n /\ ~(v.n < w.n) /\ v.count = 0 /\ v.head = w.head
    BY <1>1, <1>5, <1>7 DEF k
  <1>9. Moved(w, v)
    <2>1. v.txn = w.txn /\ v.zero = w.zero /\ v.map = w.map /\ v.cut = w.cut
      BY <1>5, <1>7 DEF Touch, Rest
    <2>2. Restored(v) = Restored(w)
      <3>1. Restored(y) = Restored(w)
        BY <1>5 DEF Restored
      <3> QED BY <1>7, <3>1 DEF Touch
    <2>3. Root < v.n /\ w.txn.n <= v.n
      BY <1>1, <1>2, <1>8
    <2>4. ASSUME NEW p \in Page, p < v.n, p \notin v.dirty
          PROVE  /\ p < w.n /\ (v.mem[p] = Blank \/ (p \notin w.dirty /\ v.mem[p] = w.mem[p]))
                 /\ p \in w.dirty => p < len \/ w.map[p] # None
      <3>1. p # w.n /\ p \in Int
        BY <1>7, <2>4, PageIs
      <3>2. p < w.n
        BY <1>1, <1>8, <2>4, <3>1
      <3>3. /\ v.mem[p] = Blank \/ (p \notin y.dirty /\ v.mem[p] = y.mem[p])
            /\ p \in y.dirty => p < len \/ y.map[p] # None
        BY <1>7, <2>4 DEF Touch
      <3> QED BY <1>5, <3>2, <3>3
    <2>5. v.dirty # {}
      BY <1>7
    <2> QED BY <1>7, <1>8, <2>1, <2>2, <2>3, <2>4, <2>5 DEF Moved
  <1>10. Grown(w, v)
    <2>1. ASSUME Risks(w, v) \subseteq {"grown"} PROVE v.count = w.count
      <3>1. "reused" \notin Risks(w, v)
        BY <2>1
      <3>2. ~(v.count < w.count)
        BY <3>1 DEF Risks
      <3> QED BY <1>1, <1>8, <3>2
    <2>2. \A t \in Page : t < w.n /\ w.mem[t].kind = "trunk" => v.mem[t] = w.mem[t]
      BY <1>1, <1>2, <1>5, <1>7
    <2> QED BY <1>5, <1>7, <1>8, <2>1, <2>2 DEF Grown
  <1>11. ASSUME Acc(Header(w), w.mem)
         PROVE  Acc(Header(v), v.mem) /\ (Cover(Header(w), w.mem) => Cover(Header(v), v.mem))
    <2> DEFINE e == TrunkPages(w)
    <2>1. /\ Listed(w, e, 0) /\ FreeOf(w, e) \subseteq 1..w.n-1 /\ Tall(w.n, w.mem)
          /\ (Cover(Header(w), w.mem) <=> FreeOf(w, e) \cup Tree(w.mem) = 1..w.n-1)
      BY <1>11, AccElim
    <2> HIDE DEF e
    <2>2. Links(e, 0, w.head, w.mem) /\ w.count = Cardinality(FreeOf(w, e))
      BY <2>1 DEF Listed, FreeOf
    <2>3. Trunks(ToSet(e), w.mem) /\ e \in Seq(Page) /\ (e # <<>> => w.head \in ToSet(e))
      BY <2>2, LinksTrunks
    <2>4. IsFiniteSet(FreeOf(w, e)) /\ ToSet(e) \subseteq FreeOf(w, e)
      BY <1>1, <2>3, FreeIs DEF FreeOf, Free
    <2>5. FreeOf(w, e) = {} /\ w.count = 0
      <3>1. CASE w.head = 0
        <4>1. e = <<>>
          BY <2>3, <3>1, PageIs DEF Trunks
        <4>2. ToSet(e) = {}
          <5>1. ToSet(e) = {e[i] : i \in 1..Len(e)}
            BY <2>3, ToSetIs
          <5>2. Len(e) = 0
            BY <4>1
          <5> QED BY <5>1, <5>2
        <4>3. FreeOf(w, e) = {}
          BY <4>2 DEF FreeOf, Free
        <4> QED BY <2>2, <4>3, FS_EmptySet
      <3>2. CASE w.head # 0
        <4>1. w.count = 0
          BY <3>2 DEF Heal
        <4> QED BY <2>2, <2>4, <4>1, FS_EmptySet
      <3> QED BY <3>1, <3>2
    <2>6. \A t \in ToSet(e) : v.mem[t] = w.mem[t]
      BY <2>4, <2>5
    <2>7. Listed(v, e, 0) /\ FreeOf(v, e) = FreeOf(w, e)
      BY <1>1, <1>8, <2>1, <2>5, <2>6, ListedFrame
    <2>8. Tree(v.mem) = Tree(w.mem) \cup {w.n}
      BY <1>2, <1>5, <1>7 DEF Tree
    <2>9. ASSUME NEW p \in v.mem[Root].kids PROVE p < v.n /\ v.mem[p].kind = "leaf"
      <3>1. CASE p = w.n
        BY <1>7, <1>8, <3>1
      <3>2. CASE p # w.n
        <4>1. p \in w.mem[Root].kids /\ p \in Page /\ p # Root /\ p \in Int
          <5>1. p \in w.mem[Root].kids
            BY <1>5, <1>7, <2>9, <3>2
          <5>2. p # Root
            BY <5>1, SoundIs
          <5>3. p \in Page
            BY <1>1, <5>1
          <5>4. p \in Int
            BY <5>3, PageIs
          <5> QED BY <5>1, <5>2, <5>3, <5>4
        <4>2. p < w.n /\ w.mem[p].kind = "leaf" /\ v.mem[p] = w.mem[p]
          BY <1>1, <1>5, <1>7, <3>2, <4>1
        <4> QED BY <1>1, <1>8, <4>1, <4>2
      <3> QED BY <3>1, <3>2
    <2>10. Tall(v.n, v.mem)
      BY <1>1, <1>2, <1>7, <1>8, <2>9 DEF Tall
    <2>11. FreeOf(v, e) \subseteq 1..v.n-1 /\ FreeOf(v, e) \cap Tree(v.mem) = {}
      BY <2>5, <2>7
    <2>12. FreeOf(w, e) \cup Tree(w.mem) = 1..w.n-1 => FreeOf(v, e) \cup Tree(v.mem) = 1..v.n-1
      <3>1. 1..v.n-1 = (1..w.n-1) \cup {w.n}
        BY <1>1, <1>8
      <3> QED BY <2>5, <2>7, <2>8, <3>1
    <2> QED BY <1>7, <2>1, <2>7, <2>10, <2>11, <2>12, AccIntro
  <1> QED BY <1>9, <1>10, <1>11 DEF Runs, Accounted, v, y

\* The last entry of the head trunk leaves the freelist.
LEMMA PopEntryListed ==
  ASSUME NEW w \in Handle, Headed(w), w.head # 0, NEW e, Listed(w, e, 0), NEW v \in Handle,
         w.mem[w.head].entries # <<>>, v.head = w.head, v.count = w.count - 1,
         v.mem[w.head] = Trunk(w.mem[w.head].next, Front(w.mem[w.head].entries)),
         \A q \in ToSet(e) : q # w.head => v.mem[q] = w.mem[q]
  PROVE  /\ Last(w.mem[w.head].entries) \in FreeOf(w, e) /\ Listed(v, e, 0)
         /\ FreeOf(v, e) = FreeOf(w, e) \ {Last(w.mem[w.head].entries)}
  <1> DEFINE h == w.head
             es == w.mem[h].entries
             a == Last(es)
             T == ToSet(e)
  <1>1. /\ es \in Seq(Page \ {Root}) /\ w.mem[h].next \in PageNo /\ w.mem[h].kind = "trunk"
    BY HeadIs
  <1>2. /\ Front(es) \in Seq(Page \ {Root}) /\ a \in ToSet(es) /\ ToSet(es) = ToSet(Front(es)) \cup {a}
        /\ (Once(es) => Once(Front(es)) /\ a \notin ToSet(Front(es)))
    BY <1>1, FrontIs
  <1>3. v.mem[h].kind = "trunk" /\ v.mem[h].next = w.mem[h].next /\ v.mem[h].entries = Front(es)
    <2>1. \A nx \in PageNo, ee \in Seq(Page \ {Root}) :
            Trunk(nx, ee).kind = "trunk" /\ Trunk(nx, ee).next = nx /\ Trunk(nx, ee).entries = ee
      BY MakesContent
    <2> QED BY <1>1, <1>2, <2>1
  <1>4. Links(e, 0, h, w.mem) /\ Books(T, w.mem) /\ w.count = Cardinality(Free(T, w.mem))
    BY DEF Listed
  <1> HIDE DEF h, es, a
  <1>5. Trunks(T, w.mem) /\ h \in T
    <2>1. e # <<>> => h \in T
      BY <1>4, LinksTrunks
    <2>2. e = <<>> => h = 0
      BY <1>4, LinksTrunks
    <2> QED BY <1>4, <2>1, <2>2, LinksTrunks DEF h
  <1>6. \A q \in T : q # h => v.mem[q] = w.mem[q]
    BY DEF h
  <1>7. Links(e, 0, h, v.mem)
    <2>1. \A t \in T : Alike(v.mem[t], w.mem[t])
      BY <1>1, <1>3, <1>6 DEF Alike
    <2> QED BY <1>4, <2>1, LinksFrame
  <1> HIDE DEF T
  <1>8. /\ \A t \in T : Once(w.mem[t].entries) /\ ToSet(w.mem[t].entries) \cap T = {}
        /\ \A t, u \in T : t # u => ToSet(w.mem[t].entries) \cap ToSet(w.mem[u].entries) = {}
    BY <1>4 DEF Books
  <1>9. es = w.mem[h].entries
    BY DEF es
  <1>10. \A t \in T : ToSet(v.mem[t].entries) = ToSet(w.mem[t].entries) \ {a}
    <2>1. ASSUME NEW t \in T PROVE ToSet(v.mem[t].entries) = ToSet(w.mem[t].entries) \ {a}
      <3>1. CASE t = h
        BY <1>2, <1>3, <1>5, <1>8, <1>9, <3>1
      <3>2. CASE t # h
        BY <1>2, <1>5, <1>6, <1>8, <1>9, <3>2
      <3> QED BY <3>1, <3>2
    <2> QED BY <2>1
  <1>11. \A t \in T : Once(v.mem[t].entries)
    BY <1>2, <1>3, <1>5, <1>6, <1>8, <1>9
  <1>12. Books(T, v.mem)
    <2>1. \A t \in T : ToSet(v.mem[t].entries) \cap T = {}
      BY <1>8, <1>10
    <2>2. ASSUME NEW t \in T, NEW u \in T, t # u
          PROVE  ToSet(v.mem[t].entries) \cap ToSet(v.mem[u].entries) = {}
      <3>1. ToSet(w.mem[t].entries) \cap ToSet(w.mem[u].entries) = {}
        BY <1>8, <2>2
      <3> QED BY <1>10, <3>1
    <2> QED BY <1>11, <2>1, <2>2 DEF Books
  <1>13. a \notin T /\ a \in Free(T, w.mem)
    <2>1. a \in ToSet(w.mem[h].entries)
      BY <1>2, <1>9
    <2> QED BY <1>5, <1>8, <2>1 DEF Free
  <1>14. Free(T, v.mem) = Free(T, w.mem) \ {a}
    <2> DEFINE F(m) == UNION {ToSet(m[t].entries) : t \in T}
    <2>1. \A q : q \in F(v.mem) <=> \E t \in T : q \in ToSet(w.mem[t].entries) \ {a}
      BY <1>10
    <2>2. \A q : q \in F(w.mem) <=> \E t \in T : q \in ToSet(w.mem[t].entries)
      OBVIOUS
    <2> HIDE DEF F
    <2>3. F(v.mem) = F(w.mem) \ {a}
      BY <2>1, <2>2
    <2>4. Free(T, v.mem) = T \cup F(v.mem) /\ Free(T, w.mem) = T \cup F(w.mem)
      BY DEF Free, F
    <2> QED BY <1>13, <2>3, <2>4
  <1>15. v.count = Cardinality(Free(T, v.mem))
    <2>1. w.mem \in Pages
      BY HandleIs
    <2>2. IsFiniteSet(Free(T, w.mem))
      BY <1>5, <2>1, FreeIs
    <2>3. Cardinality(Free(T, w.mem) \ {a}) = Cardinality(Free(T, w.mem)) - 1
      BY <1>13, <2>2, FS_RemoveElement
    <2> QED BY <1>4, <1>14, <2>3 DEF T
  <1>16. Listed(v, e, 0)
    BY <1>7, <1>12, <1>15 DEF Listed, T, h
  <1> QED BY <1>13, <1>14, <1>16 DEF FreeOf, T, a, es, h

\* The emptied head trunk itself leaves it.
LEMMA PopTrunkListed ==
  ASSUME NEW w \in Handle, Headed(w), w.head # 0, NEW e, Listed(w, e, 0), NEW v \in Handle,
         w.mem[w.head].entries = <<>>, v.head = w.mem[w.head].next, v.count = w.count - 1,
         \A q \in ToSet(e) : q # w.head => v.mem[q] = w.mem[q]
  PROVE  /\ w.head \in FreeOf(w, e)
         /\ Listed(v, Tail(e), 0) /\ FreeOf(v, Tail(e)) = FreeOf(w, e) \ {w.head}
  <1> DEFINE h == w.head
             d == Tail(e)
             N == Len(e)
             T == ToSet(e)
             U == ToSet(d)
  <1>1. Links(e, 0, h, w.mem) /\ Books(T, w.mem) /\ w.count = Cardinality(Free(T, w.mem))
    BY DEF Listed
  <1>2. e # <<>> /\ h \in T /\ h = e[1] /\ e \in Seq(Page) /\ Once(e) /\ Trunks(T, w.mem)
    BY <1>1, LinksTrunks
  <1>3. /\ d \in Seq(Page) /\ Len(d) = N - 1 /\ N \in Nat /\ N >= 1
        /\ (\A i \in 1..N-1 : d[i] = e[i + 1]) /\ U = T \ {h} /\ Once(d)
    BY <1>2, TailIs
  <1>4. ToSet(w.mem[h].entries) = {}
    <2> DEFINE es == w.mem[h].entries
    <2>0. Len(es) = 0
      OBVIOUS
    <2>1. es \in Seq(Page)
      OBVIOUS
    <2> HIDE DEF es
    <2>2. ToSet(es) = {es[i] : i \in 1..Len(es)}
      BY <2>1, ToSetIs
    <2>3. ToSet(es) = {}
      BY <2>0, <2>2
    <2> QED BY <2>3 DEF es
  <1>5. \A q \in U : v.mem[q] = w.mem[q]
    BY <1>3
  <1>6. /\ \A i \in 1..N : w.mem[e[i]].kind = "trunk" /\ w.mem[e[i]].next = Follow(e, 0, i)
    BY <1>1 DEF Links
  <1> HIDE DEF d, N, h, T, U
  <1>7. Links(d, 0, v.head, v.mem)
    <2>1. v.head = Follow(d, 0, 0)
      <3>1. v.head = Follow(e, 0, 1)
        BY <1>2, <1>3, <1>6 DEF h
      <3>2. Follow(e, 0, 1) = IF 1 < N THEN e[2] ELSE 0
        BY DEF Follow, N
      <3>3. Follow(d, 0, 0) = IF 0 < N - 1 THEN d[1] ELSE 0
        BY <1>3 DEF Follow
      <3>4. CASE 1 < N
        <4>1. d[1] = e[2] /\ 0 < N - 1
          BY <1>3, <3>4
        <4> QED BY <3>1, <3>2, <3>3, <3>4, <4>1
      <3>5. CASE ~(1 < N)
        <4>1. ~(0 < N - 1)
          BY <1>3, <3>5
        <4> QED BY <3>1, <3>2, <3>3, <3>5, <4>1
      <3> QED BY <3>4, <3>5
    <2>2. ASSUME NEW i \in 1..Len(d)
          PROVE  v.mem[d[i]].kind = "trunk" /\ v.mem[d[i]].next = Follow(d, 0, i)
      <3>1. i \in 1..N-1 /\ i + 1 \in 1..N /\ d[i] = e[i + 1]
        BY <1>3, <2>2
      <3>2. d[i] \in U
        <4>1. U = {d[j] : j \in 1..Len(d)}
          BY <1>3, ToSetIs DEF U
        <4> QED BY <2>2, <4>1
      <3>3. v.mem[d[i]].kind = "trunk" /\ v.mem[d[i]].next = Follow(e, 0, i + 1)
        BY <1>5, <1>6, <3>1, <3>2
      <3>4. Follow(e, 0, i + 1) = IF i + 1 < N THEN e[(i + 1) + 1] ELSE 0
        BY DEF Follow, N
      <3>5. Follow(d, 0, i) = IF i < N - 1 THEN d[i + 1] ELSE 0
        BY <1>3 DEF Follow
      <3>6. CASE i + 1 < N
        <4>1. i < N - 1 /\ i + 1 \in 1..N-1
          BY <1>3, <3>1, <3>6
        <4>2. d[i + 1] = e[(i + 1) + 1]
          BY <1>3, <4>1
        <4> QED BY <3>3, <3>4, <3>5, <3>6, <4>1, <4>2
      <3>7. CASE ~(i + 1 < N)
        <4>1. ~(i < N - 1)
          BY <1>3, <3>1, <3>7
        <4> QED BY <3>3, <3>4, <3>5, <3>7, <4>1
      <3> QED BY <3>6, <3>7
    <2> QED BY <1>3, <2>1, <2>2 DEF Links
  <1>8. Books(U, v.mem)
    BY <1>1, <1>3, <1>5 DEF Books
  <1>9. h \notin UNION {ToSet(w.mem[t].entries) : t \in T}
    BY <1>1, <1>2 DEF Books
  <1>10. Free(U, v.mem) = Free(T, w.mem) \ {h} /\ h \in Free(T, w.mem)
    <2>1. UNION {ToSet(v.mem[t].entries) : t \in U} = UNION {ToSet(w.mem[t].entries) : t \in T}
      BY <1>3, <1>4, <1>5
    <2> QED BY <1>2, <1>3, <1>9, <2>1 DEF Free
  <1>11. v.count = Cardinality(Free(U, v.mem))
    <2>1. w.mem \in Pages
      BY HandleIs
    <2>2. IsFiniteSet(Free(T, w.mem))
      BY <1>2, <2>1, FreeIs
    <2>3. Cardinality(Free(T, w.mem) \ {h}) = Cardinality(Free(T, w.mem)) - 1
      BY <1>10, <2>2, FS_RemoveElement
    <2> QED BY <1>1, <1>10, <2>3
  <1>12. Listed(v, d, 0)
    BY <1>7, <1>8, <1>11 DEF Listed, U
  <1> QED BY <1>10, <1>12 DEF FreeOf, T, U, d, h

\* Taking a page off the list: a statement that does is one that reuses a page.
LEMMA PopRuns ==
  ASSUME NEW w \in Handle, Sound(w), Root < w.n, w.txn.n <= w.n, NEW y, Headed(y), Touch(w, y),
         y.count = w.count - 1, NEW a \in Page \ {Root}, y.mem[Root] = w.mem[Root],
         \A p \in w.mem[Root].kids : y.mem[p] = w.mem[p],
         Acc(Header(w), w.mem) =>
            /\ a \in FreeOf(w, TrunkPages(w))
            /\ \A v \in Handle :
                 /\ v.head = y.head /\ v.count = y.count
                 /\ \A q \in Page : q # a /\ q # Root => v.mem[q] = y.mem[q]
                 => \E d : Listed(v, d, 0) /\ FreeOf(v, d) = FreeOf(w, TrunkPages(w)) \ {a}
  PROVE  Runs(w, AddLeaf(y, a))
  <1> DEFINE v == AddLeaf(y, a)
  <1>1. /\ v \in Handle /\ Touch(y, v) /\ v.head = y.head /\ v.count = y.count
        /\ v.dirty = y.dirty \cup {a, Root} /\ v.n = y.n
        /\ v.mem[a].kind = "leaf" /\ v.mem[Root].kind = "node"
        /\ v.mem[Root].kids = y.mem[Root].kids \cup {a}
        /\ \A q \in Page : q # a /\ q # Root => v.mem[q] = y.mem[q]
    BY AddLeafIs
  <1> HIDE DEF v
  <1>2. Touch(w, v)
    BY <1>1, TouchTouch
  <1>3. v.n = w.n
    BY <1>2 DEF Touch, Rest
  <1>4. Moved(w, v)
    <2>1. v.dirty # {}
      BY <1>1
    <2> QED BY <1>1, <1>2, <2>1, TouchMoved
  <1>5. Grown(w, v)
    <2>1. w.count \in Nat
      BY HandleIs
    <2>2. v.count < w.count
      BY <1>1, <2>1
    <2>3. "reused" \in Risks(w, v)
      BY <2>2 DEF Risks
    <2> QED BY <2>3 DEF Grown
  <1>6. \A p \in v.mem[Root].kids : v.mem[p].kind = "leaf"
    <2>1. ASSUME NEW p \in v.mem[Root].kids PROVE v.mem[p].kind = "leaf"
      <3>1. CASE p = a
        BY <1>1, <3>1
      <3>2. CASE p # a
        <4>1. p \in w.mem[Root].kids
          BY <1>1, <2>1, <3>2
        <4>2. p \in Page /\ p # Root /\ w.mem[p].kind = "leaf"
          BY <4>1, SoundIs
        <4> QED BY <1>1, <3>2, <4>1, <4>2
      <3> QED BY <3>1, <3>2
    <2> QED BY <2>1
  <1>7. ASSUME Acc(Header(w), w.mem)
        PROVE  Acc(Header(v), v.mem) /\ (Cover(Header(w), w.mem) => Cover(Header(v), v.mem))
    <2>1. PICK d : Listed(v, d, 0) /\ FreeOf(v, d) = FreeOf(w, TrunkPages(w)) \ {a}
      BY <1>1, <1>7
    <2>2. v.mem[Root].kids = w.mem[Root].kids \cup {a}
      BY <1>1
    <2> QED BY <1>1, <1>3, <1>6, <1>7, <2>1, <2>2, PopAcc
  <1> QED BY <1>4, <1>5, <1>7 DEF Runs, Accounted, v

\* A row that needs a new leaf.
LEMMA InsertRuns ==
  ASSUME NEW w \in Handle, Sound(w), Root < w.n, w.txn.n <= w.n, AllocId(w) < MaxPages
  PROVE  Runs(w, AddLeaf(AllocateHealed(Heal(w)), AllocId(w)))
  <1>1. CASE Heal(w).count = 0
    <2>1. AllocId(w) = w.n
      BY <1>1 DEF AllocId
    <2>2. AllocateHealed(Heal(w)) = [Heal(w) EXCEPT !.n = @ + 1]
      BY <1>1 DEF AllocateHealed
    <2> QED BY <1>1, <2>1, <2>2, ExtendRuns
  <1>2. CASE Heal(w).count # 0
    <2> DEFINE h == w.head
               es == w.mem[h].entries
               cc == w.count - 1
               x == [w EXCEPT !.count = cc]
    <2>1. Heal(w) = w /\ h # 0 /\ w.count # 0
      BY <1>2 DEF Heal
    <2>2. /\ w.count \in Nat /\ w.mem \in Pages /\ Headed(w) /\ Root \notin w.mem[Root].kids
          /\ \A p \in w.mem[Root].kids : p \in Page /\ w.mem[p].kind = "leaf"
      BY HandleIs, SoundIs
    <2>3. cc \in Nat
      BY <2>1, <2>2
    <2>4. /\ h \in Page \ {Root} /\ HeadTrunk(w) = w.mem[h] /\ w.mem[h].kind = "trunk"
          /\ w.mem[h].next \in PageNo /\ es \in Seq(Page \ {Root})
      BY <2>1, <2>2, HeadIs
    <2> HIDE DEF cc
    <2>5. /\ x \in Handle /\ x.mem = w.mem /\ x.head = w.head /\ x.count = cc /\ x.dirty = w.dirty
          /\ x.undo = w.undo /\ x.txn = w.txn /\ Rest(x) = Rest(w)
      BY <2>3 DEF Handle, Rest
    <2>6. Touch(w, x)
      <3>1. Restored(x) = Restored(w)
        BY <2>5 DEF Restored
      <3> QED BY <2>5, <3>1 DEF Touch
    <2>7. cc = w.count - 1
      BY DEF cc
    <2>8. CASE es # <<>>
      <3> DEFINE t == Trunk(w.mem[h].next, Front(es))
                 y == Put(x, h, t)
                 a == Last(es)
      <3>1. AllocId(w) = a /\ AllocateHealed(Heal(w)) = y
        <4>1. AllocId(w) = a
          BY <2>1, <2>4, <2>8 DEF AllocId
        <4>2. AllocateHealed(w) = y
          BY <2>1, <2>4, <2>7, <2>8 DEF AllocateHealed
        <4> QED BY <2>1, <4>1, <4>2
      <3>2. Front(es) \in Seq(Page \ {Root}) /\ a \in Page \ {Root}
        BY <2>4, <2>8, FrontIs
      <3>3. t \in Content /\ t.kind = "trunk"
        BY <2>4, <3>2, MakesContent
      <3>4. t = Trunk(w.mem[h].next, Front(es)) /\ a = Last(es)
        OBVIOUS
      <3> HIDE DEF t, a, x
      <3>5. Wrote(x, y, [q \in {h} |-> t])
        BY <2>4, <2>5, <3>3, PutIs
      <3> HIDE DEF y
      <3>6. /\ y \in Handle /\ Touch(x, y) /\ y.head = h /\ y.count = cc /\ y.mem[h] = t
            /\ \A q \in Page : q # h => y.mem[q] = w.mem[q]
        BY <2>4, <2>5, <3>5 DEF Wrote
      <3>7. y.mem[Root] = w.mem[Root] /\ Root \in Page
        BY <2>4, <3>6, PageIs
      <3>8. Headed(y) /\ Touch(w, y)
        BY <2>2, <2>6, <3>3, <3>6, <3>7, TouchTouch DEF Headed
      <3>9. \A p \in w.mem[Root].kids : y.mem[p] = w.mem[p]
        BY <2>2, <2>4, <3>6
      <3>10. ASSUME Acc(Header(w), w.mem), NEW v \in Handle, v.head = y.head, v.count = y.count,
                    \A q \in Page : q # a /\ q # Root => v.mem[q] = y.mem[q]
             PROVE  /\ a \in FreeOf(w, TrunkPages(w))
                    /\ \E d : Listed(v, d, 0) /\ FreeOf(v, d) = FreeOf(w, TrunkPages(w)) \ {a}
        <4> DEFINE e == TrunkPages(w)
        <4>1. Listed(w, e, 0)
          BY <3>10, AccElim
        <4> HIDE DEF e
        <4>2. Trunks(ToSet(e), w.mem) /\ Books(ToSet(e), w.mem) /\ h \in ToSet(e)
          BY <2>1, <4>1, LinksTrunks DEF Listed
        <4>3. a \in ToSet(es)
          BY <2>4, <2>8, <3>4, FrontIs
        <4>4. a \notin ToSet(e)
          BY <4>2, <4>3 DEF Books
        <4>5. a # h /\ v.mem[h] = t
          BY <2>4, <3>6, <3>10, <4>2, <4>4
        <4>6. \A q \in ToSet(e) : q # h => v.mem[q] = w.mem[q]
          BY <2>2, <3>6, <3>10, <4>2, <4>4 DEF Trunks, Headed
        <4>7. v.head = w.head /\ v.count = w.count - 1
          BY <2>7, <3>6, <3>10
        <4>8. /\ a \in FreeOf(w, e) /\ Listed(v, e, 0) /\ FreeOf(v, e) = FreeOf(w, e) \ {a}
          BY <2>1, <2>2, <2>8, <3>4, <4>1, <4>5, <4>6, <4>7, PopEntryListed
        <4> QED BY <4>8 DEF e
      <3>11. y.count = w.count - 1
        BY <2>7, <3>6
      <3>12. Acc(Header(w), w.mem) => a \in FreeOf(w, TrunkPages(w))
        <4>1. HAVE Acc(Header(w), w.mem)
        <4>2. /\ y.head = y.head /\ y.count = y.count
              /\ \A q \in Page : q # a /\ q # Root => y.mem[q] = y.mem[q]
          OBVIOUS
        <4> QED BY <3>6, <3>10, <4>1, <4>2
      <3> QED BY <3>1, <3>2, <3>7, <3>8, <3>9, <3>10, <3>11, <3>12, PopRuns
    <2>9. CASE es = <<>>
      <3> DEFINE nx == w.mem[h].next
                 y == [x EXCEPT !.head = nx]
      <3>1. AllocId(w) = h /\ AllocateHealed(Heal(w)) = y
        <4>1. AllocId(w) = h
          BY <2>1, <2>4, <2>9 DEF AllocId
        <4>2. AllocateHealed(w) = y
          BY <2>1, <2>4, <2>7, <2>9 DEF AllocateHealed
        <4> QED BY <2>1, <4>1, <4>2
      <3>2. nx \in PageNo /\ nx = w.mem[h].next
        BY <2>4
      <3> HIDE DEF nx, x
      <3>3. /\ y \in Handle /\ y.mem = w.mem /\ y.head = nx /\ y.count = cc /\ y.dirty = w.dirty
            /\ y.undo = w.undo /\ y.txn = w.txn /\ Rest(y) = Rest(w)
        BY <2>5, <3>2 DEF Handle, PageNo, Rest
      <3> HIDE DEF y
      <3>4. Touch(w, y)
        <4>1. Restored(y) = Restored(w)
          BY <3>3 DEF Restored
        <4> QED BY <3>3, <4>1 DEF Touch
      <3>5. Headed(y)
        <4>1. Closed(ToSet(TrunkPages(w)), h, w.mem)
          BY SoundIs
        <4>2. nx # 0 => w.mem[nx].kind = "trunk"
          BY <2>1, <3>2, <4>1 DEF Closed
        <4> QED BY <2>2, <3>3, <4>2 DEF Headed
      <3>6. ASSUME Acc(Header(w), w.mem), NEW v \in Handle, v.head = y.head, v.count = y.count,
                   \A q \in Page : q # h /\ q # Root => v.mem[q] = y.mem[q]
            PROVE  /\ h \in FreeOf(w, TrunkPages(w))
                   /\ \E d : Listed(v, d, 0) /\ FreeOf(v, d) = FreeOf(w, TrunkPages(w)) \ {h}
        <4> DEFINE e == TrunkPages(w)
        <4>1. Listed(w, e, 0)
          BY <3>6, AccElim
        <4> HIDE DEF e
        <4>2. Trunks(ToSet(e), w.mem)
          BY <4>1, LinksTrunks DEF Listed
        <4>3. \A q \in ToSet(e) : q # h => v.mem[q] = w.mem[q]
          BY <2>2, <3>3, <3>6, <4>2 DEF Trunks, Headed
        <4>4. v.head = w.mem[w.head].next /\ v.count = w.count - 1
          BY <2>7, <3>2, <3>3, <3>6
        <4>5. /\ h \in FreeOf(w, e) /\ Listed(v, Tail(e), 0) /\ FreeOf(v, Tail(e)) = FreeOf(w, e) \ {h}
          BY <2>1, <2>2, <2>9, <4>1, <4>3, <4>4, PopTrunkListed
        <4> QED BY <4>5 DEF e
      <3>7. y.count = w.count - 1 /\ y.mem[Root] = w.mem[Root]
        BY <2>7, <3>3
      <3>8. \A p \in w.mem[Root].kids : y.mem[p] = w.mem[p]
        BY <3>3
      <3>9. Acc(Header(w), w.mem) => h \in FreeOf(w, TrunkPages(w))
        <4>1. HAVE Acc(Header(w), w.mem)
        <4>2. /\ y.head = y.head /\ y.count = y.count
              /\ \A q \in Page : q # h /\ q # Root => y.mem[q] = y.mem[q]
          OBVIOUS
        <4> QED BY <3>3, <3>6, <4>1, <4>2
      <3> QED BY <2>4, <3>1, <3>4, <3>5, <3>6, <3>7, <3>8, <3>9, PopRuns
    <2> QED BY <2>8, <2>9
  <1> QED BY <1>1, <1>2

-----------------------------------------------------------------------------
(* The database that a header and a set of pages describe. *)

\* The fields of a header.
LEMMA HeadersAre ==
  ASSUME NEW h \in Headers
  PROVE  h.n \in 1..MaxPages /\ h.head \in PageNo /\ h.count \in Nat
  BY DEF Headers, PageNo

\* The header of a handle is one, and not the mark of no transaction.
LEMMA HeaderIs ==
  ASSUME NEW w \in Handle
  PROVE  /\ Header(w) \in Headers /\ Header(w).n = w.n /\ Header(w).head = w.head
         /\ Header(w).count = w.count /\ Header(w) # NoTxn
  BY HandleIs DEF Header, Headers, PageNo, NoTxn

\* What is reached: the node, its children, and the trunks of the freelist.
LEMMA ReachIs ==
  ASSUME NEW m \in Pages, NEW h \in Headers
  PROVE  /\ Root \in Reach(h, m) /\ ToSet(Chain(h.head, m)) \subseteq Reach(h, m)
         /\ m[Root].kind = "node" => m[Root].kids \subseteq Reach(h, m)
         /\ Reach(h, m) \subseteq Page
         /\ \A p \in Reach(h, m) : \/ p = Root \/ (m[Root].kind = "node" /\ p \in m[Root].kids)
                                   \/ p \in ToSet(Chain(h.head, m))
  <1>1. ToSet(Chain(h.head, m)) \subseteq Page /\ Root \in Page
    BY HeadersAre, ChainPages, PageIs
  <1>2. m[Root].kind = "node" => m[Root].kids \subseteq Page
    BY <1>1, ContentIs DEF Pages
  <1> QED BY <1>1, <1>2 DEF Reach

\* Pages that agree on what is reached hold the same database.
LEMMA ViewFrame ==
  ASSUME NEW m \in Pages, NEW mm \in Pages, NEW h \in Headers, \A p \in Reach(h, m) : mm[p] = m[p]
  PROVE  /\ Chain(h.head, mm) = Chain(h.head, m) /\ Reach(h, mm) = Reach(h, m)
         /\ View(h, mm) = View(h, m)
         /\ Acc(h, m) => Acc(h, mm) /\ (Cover(h, m) => Cover(h, mm))
  <1>1. \A t \in ToSet(Chain(h.head, m)) : mm[t] = m[t]
    BY ReachIs
  <1>2. mm[Root] = m[Root]
    BY ReachIs
  <1>3. Chain(h.head, mm) = Chain(h.head, m)
    <2>1. \A t \in ToSet(Chain(h.head, m)) : Alike(mm[t], m[t])
      BY <1>1 DEF Alike
    <2> QED BY <2>1, HeadersAre, ChainFrame
  <1>4. Reach(h, mm) = Reach(h, m)
    BY <1>2, <1>3 DEF Reach
  <1>5. View(h, mm) = View(h, m)
    BY <1>4 DEF View
  <1>6. ASSUME Acc(h, m) PROVE Acc(h, mm) /\ (Cover(h, m) => Cover(h, mm))
    <2> DEFINE c == Chain(h.head, m)
    <2>1. /\ Links(c, 0, h.head, m) /\ Books(ToSet(c), m) /\ Tall(h.n, m)
          /\ Free(ToSet(c), m) \subseteq 1..h.n-1 /\ Free(ToSet(c), m) \cap Tree(m) = {}
          /\ h.count = Cardinality(Free(ToSet(c), m))
          /\ (Cover(h, m) <=> Free(ToSet(c), m) \cup Tree(m) = 1..h.n-1)
          /\ (Cover(h, mm) <=> Free(ToSet(c), mm) \cup Tree(mm) = 1..h.n-1)
          /\ (Acc(h, mm) <=> AccBy(h, mm, c))
      BY <1>3, <1>6 DEF Acc, AccBy, Cover
    <2>2. Links(c, 0, h.head, mm)
      <3>1. \A t \in ToSet(c) : Alike(mm[t], m[t])
        BY <1>1 DEF Alike
      <3> HIDE DEF c
      <3> QED BY <2>1, <3>1, LinksFrame
    <2>3. \A t \in ToSet(c) : mm[t] = m[t]
      BY <1>1
    <2>4. \A p \in m[Root].kids : mm[p] = m[p]
      BY <2>1, ReachIs DEF Tall
    <2> HIDE DEF c
    <2>5. Books(ToSet(c), mm)
      BY <2>1, <2>3 DEF Books
    <2>6. Free(ToSet(c), mm) = Free(ToSet(c), m)
      BY <2>3 DEF Free
    <2>7. Tree(mm) = Tree(m)
      BY <1>2 DEF Tree
    <2>8. Tall(h.n, mm)
      BY <1>2, <2>1, <2>4 DEF Tall
    <2>9. AccBy(h, mm, c)
      BY <2>1, <2>2, <2>5, <2>6, <2>7, <2>8 DEF AccBy
    <2> QED BY <2>1, <2>6, <2>7, <2>9
  <1> QED BY <1>3, <1>4, <1>5, <1>6

\* Two headers and sets of pages with the same database agree on what is reached.
LEMMA ViewSame ==
  ASSUME NEW m, NEW mm, NEW h, NEW g, View(h, m) = View(g, mm)
  PROVE  h = g /\ \A p \in Reach(h, m) : mm[p] = m[p]
  <1>1. View(h, m).h = h /\ View(g, mm).h = g
    BY DEF View
  <1>2. /\ DOMAIN View(h, m).pages = Reach(h, m) /\ \A p \in Reach(h, m) : View(h, m).pages[p] = m[p]
        /\ DOMAIN View(g, mm).pages = Reach(g, mm) /\ \A p \in Reach(g, mm) : View(g, mm).pages[p] = mm[p]
    BY DEF View
  <1> QED BY <1>1, <1>2

\* Accounts go with the database.
LEMMA ViewAcc ==
  ASSUME NEW m \in Pages, NEW mm \in Pages, NEW h \in Headers, NEW g \in Headers,
         View(h, m) = View(g, mm), Acc(h, m)
  PROVE  Acc(g, mm) /\ (Cover(h, m) => Cover(g, mm))
  BY ViewSame, ViewFrame

\* What is reached from a header in order is counted and in use.
LEMMA AccReach ==
  ASSUME NEW m \in Pages, NEW h \in Headers, Acc(h, m)
  PROVE  /\ \A p \in Reach(h, m) : p \in Page /\ p < h.n /\ m[p] # Blank
         /\ Tall(h.n, m) /\ m[Root].kids \subseteq Reach(h, m) /\ m[Root].kids \subseteq Page
         /\ ToSet(Chain(h.head, m)) \subseteq Reach(h, m)
         /\ Free(ToSet(Chain(h.head, m)), m) \subseteq 1..h.n-1
         /\ Free(ToSet(Chain(h.head, m)), m) \cap Tree(m) = {}
  <1> DEFINE c == Chain(h.head, m)
  <1>1. /\ Links(c, 0, h.head, m) /\ Tall(h.n, m) /\ Free(ToSet(c), m) \subseteq 1..h.n-1
        /\ Free(ToSet(c), m) \cap Tree(m) = {}
    BY DEF Acc, AccBy
  <1>2. /\ Reach(h, m) \subseteq Page /\ ToSet(c) \subseteq Reach(h, m)
        /\ (m[Root].kind = "node" => m[Root].kids \subseteq Reach(h, m))
        /\ \A p \in Reach(h, m) : \/ p = Root \/ (m[Root].kind = "node" /\ p \in m[Root].kids)
                                  \/ p \in ToSet(c)
    BY ReachIs
  <1>3. h.n \in Nat
    BY HeadersAre
  <1> HIDE DEF c
  <1>4. Trunks(ToSet(c), m)
    BY <1>1, LinksTrunks
  <1>5. ToSet(c) \subseteq Free(ToSet(c), m)
    BY DEF Free
  <1>6. Blank.kind = "blank"
    BY DEF Blank
  <1>7. m[Root].kind = "node" /\ Root < h.n /\ \A p \in m[Root].kids : p < h.n /\ m[p].kind = "leaf"
    BY <1>1 DEF Tall
  <1>8. ASSUME NEW p \in Reach(h, m) PROVE p \in Page /\ p < h.n /\ m[p] # Blank
    <2>1. CASE p = Root
      BY <1>2, <1>6, <1>7, <2>1
    <2>2. CASE p \in m[Root].kids
      BY <1>2, <1>6, <1>7, <2>2
    <2>3. CASE p \in ToSet(c)
      <3>1. p \in 1..h.n-1 /\ m[p].kind = "trunk"
        BY <1>1, <1>4, <1>5, <2>3 DEF Trunks
      <3> QED BY <1>2, <1>3, <1>6, <3>1
    <2> QED BY <1>2, <2>1, <2>2, <2>3
  <1> QED BY <1>1, <1>2, <1>7, <1>8 DEF c

-----------------------------------------------------------------------------
(* The inductive invariant. *)

\* Nothing has happened that a database cannot be expected to survive; no
\* failed COMMIT has been forgotten.
Benign == /\ scars \cap {"regrown", "unlinked"} = {}
          /\ "torn" \in scars => scars \subseteq {"torn", "grown"}
Unbroken == "failed_commit" \notin scars

\* The pages whose stored bodies may be behind the cache.
Unwritten == IF stage = "idle" THEN pager.dirty ELSE todo

\* The database that a rollback would leave.
Base == IF InTxn(pager) THEN View(pager.txn, Restored(pager)) ELSE Live(pager)
Good(h, m) == Acc(h, m) /\ ("torn" \notin scars => Cover(h, m))

\* What the history variables may hold.
Marks ==
    /\ mode \in {"delete", "wal"}
    /\ risk \subseteq {"reused", "freed", "regrown", "grown", "cut", "unlinked"}
    /\ mode = "delete" => "early_fold" \notin scars
    /\ "torn" \notin scars => scars \subseteq {"trimmed", "early_fold", "regrown", "unlinked"}
    /\ mode = "delete" /\ "trimmed" \in scars => "failed_commit" \in scars

\* What each stage of the handle excludes.
Phases ==
    /\ mode = "delete" => \A p \in Page : pager.map[p] = None
    /\ stage \in {"killed", "old"} => mode = "delete"
    /\ stage \in {"killed", "idle"} => todo = {}
    /\ stage \in {"new", "old"} => ~InTxn(pager)
    /\ stage = "killed" \/ (stage = "idle" /\ ~InTxn(pager)) => risk = {}
    /\ stage = "idle" /\ InTxn(pager) /\ pager.dirty = {} =>
         risk = {} /\ pager.txn = Header(pager) /\ \A p \in Page : pager.undo[p] = None
    /\ stage = "new" /\ mode = "wal" => todo = pager.dirty

\* Page counts: every header counts the tree's node; a cut lies at the page
\* count, above the base of a transaction; the file is as long as its header.
Sizes ==
    /\ Root < pager.n /\ Root < hdr.n /\ Root < pager.zero.n
    /\ InTxn(pager) => Root < pager.txn.n /\ pager.txn.n <= pager.n
    /\ pager.cut # 0 /\ pager.cut < pager.n => "regrown" \in Past \/ stage = "killed"
    /\ "regrown" \notin scars /\ InTxn(pager) /\ pager.cut # 0 /\ stage # "killed"
         => pager.cut >= pager.txn.n
    /\ mode = "wal" /\ stage = "idle" =>
         pager.zero = IF InTxn(pager) THEN pager.txn ELSE Header(pager)
    /\ stage = "old" => hdr = Header(pager) /\ \A p \in todo : p < committed
    /\ scars \cap {"regrown", "trimmed", "failed_commit"} = {} => len >= hdr.n

\* In DELETE mode the pages that the durable header does not count are in the
\* file or still to be written.
Spans ==
    mode = "delete" /\ Unbroken =>
        /\ stage \in {"idle", "new"} => committed = hdr.n
        /\ stage = "idle" => committed = IF InTxn(pager) THEN pager.txn.n ELSE pager.n
        /\ stage \in {"idle", "new"} => \A p \in committed..pager.n-1 : p < len \/ p \in Unwritten

\* A page that is not waiting to be written is stored as the cache has it, or is
\* blank in the cache.
Fresh ==
    scars \cap {"regrown", "failed_commit"} = {} /\ stage # "killed" =>
        \A p \in Page : /\ p < pager.n /\ p \notin Unwritten
                        /\ "regrown" \notin risk \/ (InTxn(pager) /\ p < pager.txn.n)
                        => pager.mem[p] \in {Stored(pager, p), Blank}

\* The accounts of the cache, of the base of the transaction, of the file.
Cached ==
    /\ Benign /\ "unlinked" \notin risk /\ stage # "killed" => Good(Header(pager), pager.mem)
    /\ Benign /\ InTxn(pager) /\ stage = "idle" => Good(pager.txn, Restored(pager))
OnDisk ==
    mode = "delete" /\ Benign /\ (stage # "old" \/ risk \subseteq {"grown"}) =>
        Acc(hdr, file) /\ ("torn" \notin scars /\ stage # "old" => Cover(hdr, file))

\* The base is the database of the file, and the last one committed.
Based ==
    /\ mode = "delete" /\ Benign /\ stage = "idle" => Base = View(hdr, file)
    /\ scars \cap {"torn", "regrown", "unlinked"} = {} /\ stage = "idle" => Base = saved
    /\ mode = "wal" /\ scars \subseteq {"trimmed"} /\ stage = "idle" => View(pager.zero, StoredPages) = saved
    /\ stage = "killed" /\ scars = {} => View(hdr, file) = saved

\* A unit of work that only grew the file so far: the freelist of the file is
\* that of the cache, and the tree of the file is part of the one in the cache.
Growth ==
    /\ pager.head = hdr.head /\ pager.count = hdr.count
    /\ \A t \in ToSet(Chain(hdr.head, file)) : pager.mem[t] = file[t]
    /\ FileKids \subseteq Kids
    /\ \A c \in Kids : c < committed => file[c].kind = "leaf"
Growing ==
    mode = "delete" /\ Benign /\ risk \subseteq {"grown"} /\ stage # "killed" => Growth

\* The invariant of the induction.
Inv ==
    /\ TypeOK /\ Marks /\ Phases /\ Sizes /\ Spans
    /\ Fresh /\ Cached /\ OnDisk /\ Based /\ Growing

-----------------------------------------------------------------------------
(* Statements. *)

\* What the type invariant says of the variables, number by number.
LEMMA Types ==
  ASSUME TypeOK
  PROVE  /\ pager \in Handle /\ file \in Pages /\ hdr \in Headers /\ len \in Nat /\ len \in 1..MaxPages
         /\ committed \in Nat /\ committed \in 1..MaxPages /\ todo \subseteq Page
         /\ pager.n \in Nat /\ pager.n \in 1..MaxPages /\ pager.mem \in Pages /\ Header(pager) \in Headers
         /\ pager.cut \in Nat /\ hdr.n \in Nat /\ pager.txn.n \in Nat
         /\ MaxPages \in Nat /\ Root \in Page /\ Page \subseteq Nat
  <1>1. /\ pager \in Handle /\ file \in Pages /\ hdr \in Headers /\ len \in 1..MaxPages
        /\ committed \in 1..MaxPages /\ todo \subseteq pager.dirty
    BY DEF TypeOK, Pages
  <1>2. /\ pager.n \in 1..MaxPages /\ pager.mem \in Pages /\ pager.cut \in 0..MaxPages
        /\ pager.txn.n \in 0..MaxPages /\ pager.dirty \subseteq Page
    BY <1>1, HandleIs
  <1>3. hdr.n \in 1..MaxPages /\ Header(pager) \in Headers
    BY <1>1, HeadersAre, HeaderIs
  <1>4. MaxPages \in Nat /\ Root \in Page /\ Page \subseteq Nat
    BY PageIs
  <1>5. /\ len \in Nat /\ committed \in Nat /\ pager.n \in Nat /\ pager.cut \in Nat /\ hdr.n \in Nat
        /\ pager.txn.n \in Nat
    BY <1>1, <1>2, <1>3, <1>4
  <1> QED BY <1>1, <1>2, <1>3, <1>4, <1>5

\* After an orderly history no COMMIT has failed and no page has grown back.
LEMMA BenignIs ==
  ASSUME Marks, Benign
  PROVE  Unbroken /\ scars \cap {"regrown", "failed_commit"} = {}
  BY DEF Marks, Benign, Unbroken

\* History only grows.
LEMMA BenignBack ==
  ASSUME scars \subseteq scars', Benign'
  PROVE  Benign /\ ("torn" \notin scars' => "torn" \notin scars)
  BY DEF Benign

\* A statement that runs from an orderly state.
LEMMA DoesTypes ==
  ASSUME Inv, Ready, NEW w, Runs(pager, w), Does(w)
  PROVE  TypeOK' /\ Marks' /\ Phases'
  <1>0. /\ TypeOK /\ Marks /\ Phases /\ Sizes
    BY DEF Inv
  <1>1. /\ pager' = w /\ risk' = risk \cup Risks(pager, w) /\ stage = "idle"
        /\ mode' = mode /\ committed' = committed /\ file' = file /\ len' = len /\ hdr' = hdr
        /\ scars' = scars /\ saved' = saved
    BY DEF Does, Ready
  <1>2. \/ InTxn(w) /\ stage' = stage /\ todo' = todo /\ auto' = auto
        \/ ~InTxn(w) /\ stage' = "new" /\ todo' = w.dirty /\ auto' = TRUE
    BY DEF Does
  <1>3. Moved(pager, w)
    BY DEF Runs
  <1>4. w \in Handle /\ w.txn = pager.txn /\ w.dirty # {} /\ InTxn(w) = InTxn(pager)
    BY <1>3 DEF Moved, InTxn
  <1>5. w.n \in Nat /\ w.cut \in Nat /\ pager.n \in Nat /\ pager.cut \in Nat
    BY <1>0, <1>4, Types, HandleIs, PageIs
  <1>6. w.cut <= w.n
    <2>1. pager.cut <= pager.n
      BY <1>0 DEF TypeOK
    <2>2. CASE w.n < pager.n
      <3>1. w.cut = w.n
        BY <1>3, <2>2 DEF Moved
      <3> QED BY <1>5, <3>1
    <2>3. CASE w.n >= pager.n
      <3>1. w.cut = pager.cut
        BY <1>3, <2>3 DEF Moved
      <3> QED BY <1>5, <2>1, <2>3, <3>1
    <2> QED BY <1>5, <2>2, <2>3
  <1>7. todo = {}
    BY <1>0, <1>1 DEF Phases
  <1>8. TypeOK'
    <2>1. todo' \subseteq w.dirty /\ stage' \in {"idle", "new"}
      BY <1>1, <1>2, <1>7
    <2>2. auto' \in BOOLEAN
      BY <1>0, <1>2 DEF TypeOK
    <2>3. /\ file' \in [Page -> Content] /\ hdr' \in Headers /\ len' \in 1..MaxPages
          /\ committed' \in 1..MaxPages /\ \A p \in Page : p >= len' => file'[p] = Blank
      BY <1>0, <1>1 DEF TypeOK
    <2> QED BY <1>1, <1>4, <1>6, <2>1, <2>2, <2>3 DEF TypeOK
  <1>9. Marks'
    <2>1. Risks(pager, w) \subseteq {"reused", "freed", "regrown", "grown", "cut", "unlinked"}
      BY DEF Risks
    <2> QED BY <1>0, <1>1, <2>1 DEF Marks
  <1>10. Phases'
    <2>1. ASSUME mode = "delete", NEW p \in Page PROVE w.map[p] = None
      <3>1. pager.map[p] = None
        BY <1>0, <2>1 DEF Phases
      <3>2. w.n < pager.n \/ w.n >= pager.n
        BY <1>5
      <3> QED BY <1>3, <3>1, <3>2 DEF Moved
    <2>2. CASE InTxn(w)
      <3>1. stage' = "idle" /\ todo' = {} /\ InTxn(pager') /\ pager'.dirty # {}
        BY <1>1, <1>2, <1>4, <1>7, <2>2
      <3> QED BY <1>1, <2>1, <3>1 DEF Phases
    <2>3. CASE ~InTxn(w)
      <3>1. stage' = "new" /\ todo' = pager'.dirty /\ ~InTxn(pager')
        BY <1>1, <1>2, <2>3
      <3> QED BY <1>1, <2>1, <3>1 DEF Phases
    <2> QED BY <2>2, <2>3
  <1> QED BY <1>8, <1>9, <1>10

\* Such a statement keeps the page counts, and what the media lack is dirty.
LEMMA DoesSizes ==
  ASSUME Inv, Ready, NEW w, Runs(pager, w), Does(w)
  PROVE  Sizes' /\ Spans' /\ Fresh'
  <1>0. /\ TypeOK /\ Marks /\ Phases /\ Sizes /\ Spans /\ Fresh
    BY DEF Inv
  <1>1. /\ pager' = w /\ risk' = risk \cup Risks(pager, w) /\ stage = "idle"
        /\ mode' = mode /\ committed' = committed /\ file' = file /\ len' = len /\ hdr' = hdr
        /\ scars' = scars /\ saved' = saved
    BY DEF Does, Ready
  <1>2. \/ InTxn(w) /\ stage' = "idle" /\ todo' = todo
        \/ ~InTxn(w) /\ stage' = "new" /\ todo' = w.dirty
    BY <1>1 DEF Does
  <1>3. Moved(pager, w)
    BY DEF Runs
  <1>4. w \in Handle /\ w.txn = pager.txn /\ w.zero = pager.zero /\ InTxn(w) = InTxn(pager)
    BY <1>3 DEF Moved, InTxn
  <1>5. /\ w.n \in Nat /\ w.n <= MaxPages /\ w.cut \in Nat /\ pager.n \in Nat /\ pager.cut \in Nat
        /\ committed \in Nat /\ committed >= 1 /\ MaxPages \in Nat /\ Page \subseteq Nat
    BY <1>0, <1>4, Types, HandleIs, PageIs
  <1>6. w.n < pager.n \/ w.n >= pager.n
    BY <1>5
  <1>7. Unwritten' = w.dirty /\ Unwritten = pager.dirty /\ Past \subseteq Past'
    BY <1>1, <1>2 DEF Unwritten, Past
  <1>8. Sizes'
    <2>1. Root < w.n /\ pager.txn.n <= w.n
      BY <1>3 DEF Moved
    <2>2. Root < hdr.n /\ Root < pager.zero.n /\ (InTxn(pager) => Root < pager.txn.n)
      BY <1>0 DEF Sizes
    <2>3. ASSUME w.cut # 0, w.cut < w.n PROVE "regrown" \in Past'
      <3>1. ~(w.n < pager.n)
        BY <1>3, <1>5, <2>3 DEF Moved
      <3>2. w.n >= pager.n /\ w.cut = pager.cut
        BY <1>3, <1>6, <3>1 DEF Moved
      <3>3. CASE pager.cut < pager.n
        <4>1. "regrown" \in Past
          BY <1>0, <1>1, <2>3, <3>2, <3>3 DEF Sizes
        <4> QED BY <1>7, <4>1
      <3>4. CASE ~(pager.cut < pager.n)
        <4>1. w.n > pager.n /\ pager.cut # 0
          BY <1>5, <2>3, <3>2, <3>4
        <4>2. "regrown" \in Risks(pager, w)
          BY <4>1 DEF Risks
        <4> QED BY <1>1, <4>2 DEF Past
      <3> QED BY <3>3, <3>4
    <2>4. ASSUME "regrown" \notin scars, InTxn(w), w.cut # 0 PROVE w.cut >= w.txn.n
      <3>1. CASE w.n < pager.n
        <4>1. w.cut = w.n
          BY <1>3, <3>1 DEF Moved
        <4>2. w.txn.n \in Nat
          BY <1>0, <1>4, Types
        <4> QED BY <1>4, <1>5, <2>1, <4>1, <4>2
      <3>2. CASE w.n >= pager.n
        <4>1. w.cut = pager.cut
          BY <1>3, <3>2 DEF Moved
        <4> QED BY <1>0, <1>1, <1>4, <2>4, <4>1 DEF Sizes
      <3> QED BY <1>6, <3>1, <3>2
    <2>5. ASSUME mode = "wal", stage' = "idle" PROVE InTxn(w) /\ w.zero = w.txn
      BY <1>0, <1>1, <1>2, <1>4, <2>5 DEF Sizes
    <2>6. stage' # "old"
      BY <1>2
    <2>7. scars \cap {"regrown", "trimmed", "failed_commit"} = {} => len >= hdr.n
      BY <1>0 DEF Sizes
    <2> QED BY <1>1, <1>4, <2>1, <2>2, <2>3, <2>4, <2>5, <2>6, <2>7 DEF Sizes
  <1>9. Spans'
    <2>1. SUFFICES ASSUME mode = "delete", Unbroken
                   PROVE  /\ committed = hdr.n
                          /\ stage' = "idle" => committed = w.txn.n /\ InTxn(w)
                          /\ \A p \in committed..w.n-1 : p < len \/ p \in w.dirty
      BY <1>1, <1>7 DEF Spans, Unbroken
    <2>2. /\ committed = hdr.n /\ committed = (IF InTxn(pager) THEN pager.txn.n ELSE pager.n)
          /\ \A p \in committed..pager.n-1 : p < len \/ p \in pager.dirty
      BY <1>0, <1>1, <1>7, <2>1 DEF Spans
    <2>3. stage' = "idle" => committed = w.txn.n /\ InTxn(w)
      BY <1>2, <1>4, <2>2
    <2>4. ASSUME NEW p \in committed..w.n-1, p \notin w.dirty PROVE p < len
      <3>1. p \in Page /\ p < w.n /\ p >= committed
        BY <1>5, <2>4 DEF Page
      <3>2. p < pager.n /\ (p \in pager.dirty => p < len \/ pager.map[p] # None)
        BY <1>3, <2>4, <3>1 DEF Moved
      <3>3. pager.map[p] = None
        BY <1>0, <2>1, <3>1 DEF Phases
      <3>4. p \in committed..pager.n-1
        BY <1>5, <3>1, <3>2
      <3> QED BY <2>2, <3>2, <3>3, <3>4
    <2> QED BY <2>2, <2>3, <2>4
  <1>10. Fresh'
    <2>1. SUFFICES ASSUME scars \cap {"regrown", "failed_commit"} = {}, NEW p \in Page, p < w.n, p \notin w.dirty,
                          "regrown" \notin risk \/ (InTxn(pager) /\ p < pager.txn.n), w.mem[p] # Blank
                   PROVE  w.mem[p] = IF w.map[p] # None THEN w.map[p] ELSE file[p]
      BY <1>1, <1>4, <1>7 DEF Fresh, Stored
    <2>2. p < pager.n /\ p \notin pager.dirty /\ w.mem[p] = pager.mem[p]
      BY <1>3, <2>1 DEF Moved
    <2>3. pager.mem[p] = IF pager.map[p] # None THEN pager.map[p] ELSE file[p]
      BY <1>0, <1>1, <1>7, <2>1, <2>2 DEF Fresh, Stored
    <2>4. w.map[p] = pager.map[p]
      BY <1>3, <1>6, <2>1 DEF Moved
    <2> QED BY <2>2, <2>3, <2>4
  <1> QED BY <1>8, <1>9, <1>10

\* The pages that a rollback brings back.
LEMMA RestoredIs ==
  ASSUME NEW w \in Handle
  PROVE  /\ Restored(w) \in Pages
         /\ \A p \in Page : Restored(w)[p] = IF p >= w.txn.n THEN Blank
                                             ELSE IF w.undo[p] # None THEN w.undo[p] ELSE w.mem[p]
  <1>1. w.undo \in Undo /\ w.mem \in Pages /\ Blank \in Content
    BY HandleIs, MakesContent
  <1>2. \A p \in Page : w.undo[p] \in Content \cup {None} /\ w.mem[p] \in Content
    BY <1>1 DEF Undo, Pages
  <1> QED BY <1>1, <1>2 DEF Restored, Pages

\* What the media hold is a set of pages.
LEMMA StoredIs ==
  ASSUME TypeOK
  PROVE  StoredPages \in Pages
  <1>1. pager.map \in Undo /\ file \in Pages
    BY Types, HandleIs
  <1> QED BY <1>1 DEF StoredPages, Stored, Undo, Pages

\* The base is in order: the pre-images, or the cache outside a transaction.
LEMMA BaseIs ==
  ASSUME Inv, stage = "idle", Benign
  PROVE  /\ InTxn(pager) => /\ pager.txn \in Headers /\ Restored(pager) \in Pages
                            /\ Good(pager.txn, Restored(pager)) /\ Base = View(pager.txn, Restored(pager))
         /\ ~InTxn(pager) => /\ Good(Header(pager), pager.mem) /\ Base = View(Header(pager), pager.mem)
                             /\ risk = {}
  <1>1. TypeOK /\ Phases /\ Cached
    BY DEF Inv
  <1>2. pager \in Handle
    BY <1>1, Types
  <1>3. ASSUME InTxn(pager) PROVE pager.txn \in Headers
    BY <1>2, <1>3, HandleIs DEF InTxn
  <1>4. Restored(pager) \in Pages
    BY <1>2, RestoredIs
  <1>5. InTxn(pager) => Good(pager.txn, Restored(pager)) /\ Base = View(pager.txn, Restored(pager))
    BY <1>1 DEF Cached, Base
  <1>6. ~InTxn(pager) => risk = {}
    BY <1>1 DEF Phases
  <1>7. ~InTxn(pager) => Good(Header(pager), pager.mem) /\ Base = View(Header(pager), pager.mem)
    BY <1>1, <1>6 DEF Cached, Base, Live
  <1> QED BY <1>3, <1>4, <1>5, <1>6, <1>7

\* The database under page 0 of the log is the last one committed, and in order.
LEMMA ZeroReach ==
  ASSUME Inv, mode = "wal", scars \subseteq {"trimmed"}, stage = "idle"
  PROVE  /\ Acc(pager.zero, StoredPages) /\ pager.zero \in Headers /\ Base = saved
         /\ View(pager.zero, StoredPages) = saved
         /\ \A p \in Reach(pager.zero, StoredPages) : p \in Page /\ p < pager.zero.n
  <1>1. TypeOK /\ Based /\ Sizes
    BY DEF Inv
  <1>2. Benign
    BY DEF Benign
  <1>3. Base = saved /\ View(pager.zero, StoredPages) = saved
    BY <1>1 DEF Based
  <1>4. StoredPages \in Pages /\ pager.zero \in Headers /\ pager \in Handle /\ pager.mem \in Pages
    BY <1>1, StoredIs, Types, HandleIs
  <1>5. Acc(pager.zero, StoredPages)
    <2>1. CASE InTxn(pager)
      <3>1. /\ pager.txn \in Headers /\ Restored(pager) \in Pages /\ Acc(pager.txn, Restored(pager))
            /\ Base = View(pager.txn, Restored(pager))
        BY <1>2, <2>1, BaseIs DEF Good
      <3> QED BY <1>3, <1>4, <3>1, ViewAcc
    <2>2. CASE ~InTxn(pager)
      <3>1. Acc(Header(pager), pager.mem) /\ Base = View(Header(pager), pager.mem)
        BY <1>2, <2>2, BaseIs DEF Good
      <3> QED BY <1>3, <1>4, <3>1, ViewAcc, HeaderIs
    <2> QED BY <2>1, <2>2
  <1> QED BY <1>3, <1>4, <1>5, AccReach

\* Such a statement keeps the accounts of the cache, of the base and of the file.
LEMMA DoesAccounts ==
  ASSUME Inv, Ready, NEW w, Runs(pager, w), Does(w)
  PROVE  Cached' /\ OnDisk' /\ Based'
  <1>0. /\ TypeOK /\ Marks /\ Phases /\ Sizes /\ Cached /\ OnDisk /\ Based
    BY DEF Inv
  <1>1. /\ pager' = w /\ risk' = risk \cup Risks(pager, w) /\ stage = "idle"
        /\ mode' = mode /\ file' = file /\ hdr' = hdr /\ scars' = scars /\ saved' = saved
    BY DEF Does, Ready
  <1>2. \/ InTxn(w) /\ stage' = "idle"
        \/ ~InTxn(w) /\ stage' = "new"
    BY <1>1 DEF Does
  <1>3. Moved(pager, w) /\ Accounted(pager, w)
    BY DEF Runs
  <1>4. /\ w \in Handle /\ w.txn = pager.txn /\ w.zero = pager.zero /\ InTxn(w) = InTxn(pager)
        /\ Restored(w) = Restored(pager)
    BY <1>3 DEF Moved, InTxn
  <1>5. Cached'
    <2>1. ASSUME Benign, "unlinked" \notin risk' PROVE Acc(Header(w), w.mem) /\ ("torn" \notin scars => Cover(Header(w), w.mem))
      <3>1. "unlinked" \notin risk /\ "unlinked" \notin Risks(pager, w)
        BY <1>1, <2>1
      <3>2. Acc(Header(pager), pager.mem) /\ ("torn" \notin scars => Cover(Header(pager), pager.mem))
        BY <1>0, <1>1, <2>1, <3>1 DEF Cached, Good
      <3>3. ~ \E t \in ToSet(TrunkPages(w)) : t >= w.n
        BY <3>1 DEF Risks
      <3> QED BY <1>3, <3>2, <3>3 DEF Accounted
    <2>2. ASSUME Benign, InTxn(w), stage' = "idle"
          PROVE  Acc(w.txn, Restored(w)) /\ ("torn" \notin scars => Cover(w.txn, Restored(w)))
      BY <1>0, <1>1, <1>4, <2>2 DEF Cached, Good
    <2>3. Benign' <=> Benign
      BY <1>1 DEF Benign
    <2> QED BY <1>1, <2>1, <2>2, <2>3 DEF Cached, Good
  <1>6. OnDisk'
    <2>1. Benign' <=> Benign
      BY <1>1 DEF Benign
    <2> QED BY <1>0, <1>1, <1>2, <2>1 DEF OnDisk
  <1>7. Based'
    <2>1. Benign' <=> Benign
      BY <1>1 DEF Benign
    <2>2. stage' # "killed"
      BY <1>2
    <2>3. ASSUME stage' = "idle" PROVE Base' = Base
      BY <1>1, <1>2, <1>4, <2>3 DEF Base
    <2>4. ASSUME mode = "wal", scars \subseteq {"trimmed"}, stage' = "idle"
          PROVE  View(w.zero, StoredPages') = saved
      <3>1. /\ pager.zero \in Headers /\ View(pager.zero, StoredPages) = saved
            /\ \A p \in Reach(pager.zero, StoredPages) : p \in Page /\ p < pager.zero.n
        BY <1>1, <2>4, ZeroReach
      <3>2. pager.zero = pager.txn
        BY <1>0, <1>1, <1>2, <1>4, <2>4 DEF Sizes
      <3>3. /\ w.n \in Nat /\ pager.n \in Nat /\ pager.txn.n \in Nat /\ Page \subseteq Nat
            /\ pager.txn.n <= w.n
        BY <1>0, <1>3, <1>4, Types, HandleIs, PageIs DEF Moved
      <3>4. ASSUME NEW p \in Reach(pager.zero, StoredPages) PROVE StoredPages'[p] = StoredPages[p]
        <4>1. p \in Page /\ p < w.n
          <5>1. p \in Page /\ p < pager.txn.n
            BY <3>1, <3>2, <3>4
          <5>2. p \in Nat
            BY <3>3, <5>1
          <5> QED BY <3>3, <5>1, <5>2
        <4>2. w.map[p] = pager.map[p]
          BY <1>3, <3>3, <4>1 DEF Moved
        <4> QED BY <1>1, <4>1, <4>2 DEF StoredPages, Stored
      <3>5. StoredPages \in Pages
        BY <1>0, StoredIs
      <3>6. StoredPages' \in Pages
        <4>1. TypeOK'
          BY DoesTypes
        <4>2. w.map \in Undo /\ file \in Pages
          BY <1>0, <1>4, Types, HandleIs
        <4> QED BY <1>1, <4>2 DEF StoredPages, Stored, Undo, Pages
      <3>7. View(pager.zero, StoredPages') = View(pager.zero, StoredPages)
        BY <3>1, <3>4, <3>5, <3>6, ViewFrame
      <3> QED BY <1>4, <3>1, <3>7
    <2>5. ASSUME stage' = "idle"
          PROVE  /\ mode = "delete" /\ Benign => Base = View(hdr, file)
                 /\ scars \cap {"torn", "regrown", "unlinked"} = {} => Base = saved
      BY <1>0, <1>1 DEF Based
    <2> QED BY <1>1, <2>1, <2>2, <2>3, <2>4, <2>5 DEF Based
  <1> QED BY <1>5, <1>6, <1>7

\* Such a statement, if it only grows the file, leaves the file a part of the cache.
LEMMA DoesGrowing ==
  ASSUME Inv, Ready, NEW w, Runs(pager, w), Does(w)
  PROVE  Growing'
  <1>0. /\ TypeOK /\ Marks /\ Sizes /\ Spans /\ Growing
    BY DEF Inv
  <1>1. /\ pager' = w /\ risk' = risk \cup Risks(pager, w) /\ stage = "idle" /\ Sound(pager)
        /\ mode' = mode /\ file' = file /\ hdr' = hdr /\ scars' = scars /\ committed' = committed
    BY DEF Does, Ready
  <1>2. SUFFICES ASSUME mode = "delete", Benign, risk' \subseteq {"grown"}
                 PROVE  /\ w.head = hdr.head /\ w.count = hdr.count
                        /\ \A t \in ToSet(Chain(hdr.head, file)) : w.mem[t] = file[t]
                        /\ FileKids \subseteq w.mem[Root].kids
                        /\ \A c \in w.mem[Root].kids : c < committed => file[c].kind = "leaf"
    BY <1>1 DEF Growing, Growth, Benign, FileKids, Kids
  <1>3. risk \subseteq {"grown"} /\ Risks(pager, w) \subseteq {"grown"}
    BY <1>1, <1>2
  <1>4. /\ w.head = pager.head /\ w.count = pager.count
        /\ \A t \in Page : t < pager.n /\ pager.mem[t].kind = "trunk" => w.mem[t] = pager.mem[t]
        /\ pager.mem[Root].kids \subseteq w.mem[Root].kids
        /\ \A p \in w.mem[Root].kids : p \in pager.mem[Root].kids \/ p = pager.n
    BY <1>3 DEF Runs, Grown
  <1>5. /\ pager.head = hdr.head /\ pager.count = hdr.count
        /\ \A t \in ToSet(Chain(hdr.head, file)) : pager.mem[t] = file[t]
        /\ FileKids \subseteq pager.mem[Root].kids
        /\ \A c \in pager.mem[Root].kids : c < committed => file[c].kind = "leaf"
    BY <1>0, <1>1, <1>2, <1>3 DEF Growing, Growth, Kids
  <1>6. pager \in Handle /\ pager.mem \in Pages /\ file \in Pages /\ pager.head \in PageNo
    BY <1>0, Types, HandleIs
  <1>7. Chain(pager.head, pager.mem) = Chain(hdr.head, file)
    <2>1. \A t \in ToSet(Chain(pager.head, file)) : Alike(pager.mem[t], file[t])
      BY <1>5 DEF Alike
    <2> QED BY <1>5, <1>6, <2>1, ChainFrame
  <1>8. \A t \in ToSet(Chain(hdr.head, file)) : t \in Page /\ t < pager.n /\ pager.mem[t].kind = "trunk"
    <2>1. \A t \in ToSet(TrunkPages(pager)) : t < pager.n /\ pager.mem[t].kind = "trunk"
      BY <1>1, <1>6, SoundIs
    <2>2. ToSet(Chain(pager.head, pager.mem)) \subseteq Page
      BY <1>6, ChainPages
    <2> QED BY <1>7, <2>1, <2>2 DEF TrunkPages
  <1>9. ~(pager.n < committed)
    <2>1. Unbroken
      BY <1>0, <1>2, BenignIs
    <2>2. committed = IF InTxn(pager) THEN pager.txn.n ELSE pager.n
      BY <1>0, <1>1, <1>2, <2>1 DEF Spans
    <2>3. InTxn(pager) => pager.txn.n <= pager.n
      BY <1>0 DEF Sizes
    <2>4. pager.n \in Nat /\ pager.txn.n \in Nat
      BY <1>0, Types
    <2> QED BY <2>2, <2>3, <2>4
  <1> QED BY <1>4, <1>5, <1>8, <1>9

\* Every statement keeps the invariant.
LEMMA DoesInv ==
  ASSUME Inv, Ready, NEW w, Runs(pager, w), Does(w)
  PROVE  Inv'
  BY DoesTypes, DoesSizes, DoesAccounts, DoesGrowing DEF Inv

\* A statement is ready to run.
LEMMA ReadyIs ==
  ASSUME Inv, Ready
  PROVE  /\ pager \in Handle /\ Sound(pager) /\ Root < pager.n /\ pager.txn.n <= pager.n /\ len \in Nat
         /\ Kids \subseteq Page
  <1>1. TypeOK /\ Sizes /\ Sound(pager)
    BY DEF Inv, Ready
  <1>2. pager \in Handle /\ len \in Nat /\ pager.n \in Nat /\ pager.txn.n \in Nat
    BY <1>1, Types
  <1>3. pager.txn.n <= pager.n
    <2>1. CASE InTxn(pager)
      BY <1>1, <2>1 DEF Sizes
    <2>2. CASE ~InTxn(pager)
      <3>1. pager.txn.n = 0
        BY <1>2, <2>2, HandleIs
      <3> QED BY <1>2, <3>1
    <2> QED BY <2>1, <2>2
  <1>4. Kids \subseteq Page
    BY <1>1, <1>2, SoundIs DEF Kids
  <1> QED BY <1>1, <1>2, <1>3, <1>4 DEF Sizes

\* The insert of a row that needs a leaf.
LEMMA InsertInv ==
  ASSUME Inv, Insert
  PROVE  Inv'
  <1> DEFINE a == AllocId(pager)
             y == AllocateHealed(Heal(pager))
  <1>1. Ready /\ a < MaxPages
    BY DEF Insert
  <1>2. Does(AddLeaf(y, a))
    BY DEF Insert, AllocatePage, AddLeaf
  <1>3. Runs(pager, AddLeaf(y, a))
    BY <1>1, ReadyIs, InsertRuns
  <1> QED BY <1>1, <1>2, <1>3, DoesInv

\* The update in place.
LEMMA UpdateInv ==
  ASSUME Inv, NEW c, Update(c)
  PROVE  Inv'
  <1>1. Ready /\ c \in pager.mem[Root].kids /\ Does(Put(pager, c, Leaf(1 - pager.mem[c].val)))
    BY DEF Update, Kids
  <1>2. Runs(pager, Put(pager, c, Leaf(1 - pager.mem[c].val)))
    BY <1>1, ReadyIs, UpdateRuns
  <1> QED BY <1>1, <1>2, DoesInv

\* The delete of a leaf's last row.
LEMMA DeleteInv ==
  ASSUME Inv, NEW c, Delete(c)
  PROVE  Inv'
  <1>1. Ready /\ c \in pager.mem[Root].kids /\ Does(FreePage(Unlink(pager, {c}), c))
    BY DEF Delete, Kids
  <1>2. Runs(pager, FreePage(Unlink(pager, {c}), c))
    BY <1>1, ReadyIs, DeleteRuns
  <1> QED BY <1>1, <1>2, DoesInv

\* The mass delete.
LEMMA MassDeleteInv ==
  ASSUME Inv, NEW K \in (SUBSET Kids) \ {{}}, NEW s \in MassDeletes[K], MassDelete(s)
  PROVE  Inv'
  <1>1. /\ Ready /\ ToSet(s) \subseteq pager.mem[Root].kids
        /\ Does(TruncateTail(DropLeaves(pager, s), ToSet(s)))
    BY DEF MassDelete, Kids
  <1>2. K \in SUBSET Page /\ K # {} /\ Kids \subseteq Page
    BY <1>1, ReadyIs
  <1>3. s \in SeqOf(K, Cardinality(K)) /\ Len(s) = Cardinality(K) /\ IsInjective(s)
    BY <1>2 DEF MassDeletes
  <1>4. s \in Seq(Page) /\ DOMAIN s = 1..Len(s)
    <2>1. IsFiniteSet(Page) /\ MaxPages \in Nat
      BY FS_Interval, PageIs DEF Page
    <2>2. Cardinality(K) \in Nat
      BY <1>2, <2>1, FS_Subset, FS_CardinalityType
    <2>3. PICK m \in 0..Cardinality(K) : s \in [1..m -> K]
      BY <1>3 DEF SeqOf
    <2> QED BY <1>2, <2>2, <2>3
  <1>5. Once(s)
    BY <1>3, <1>4 DEF IsInjective, Once
  <1>6. s # <<>>
    <2>1. IsFiniteSet(Page) /\ MaxPages \in Nat
      BY FS_Interval, PageIs DEF Page
    <2>2. IsFiniteSet(K)
      BY <1>2, <2>1, FS_Subset
    <2>3. Cardinality(K) # 0
      BY <1>2, <2>2, FS_EmptySet
    <2> QED BY <1>3, <2>3
  <1>7. Runs(pager, TruncateTail(DropLeaves(pager, s), ToSet(s)))
    BY <1>1, <1>4, <1>5, <1>6, ReadyIs, MassDeleteRuns
  <1> QED BY <1>1, <1>7, DoesInv

-----------------------------------------------------------------------------
(* Transactions. *)

\* A handle and a file that hold the same database.
LEMMA SameDb ==
  ASSUME NEW w \in Handle, NEW h \in Headers, NEW m \in Pages, View(Header(w), w.mem) = View(h, m),
         Acc(h, m)
  PROVE  /\ Header(w) = h /\ w.n = h.n /\ w.head = h.head /\ w.count = h.count
         /\ \A t \in ToSet(Chain(h.head, m)) : w.mem[t] = m[t]
         /\ m[Root].kids \subseteq w.mem[Root].kids
         /\ \A c \in w.mem[Root].kids : m[c].kind = "leaf"
  <1>1. View(h, m) = View(Header(w), w.mem)
    OBVIOUS
  <1>2. h = Header(w) /\ \A p \in Reach(h, m) : w.mem[p] = m[p]
    BY <1>1, ViewSame
  <1>3. /\ ToSet(Chain(h.head, m)) \subseteq Reach(h, m) /\ Tall(h.n, m)
    BY AccReach
  <1>4. w.mem[Root] = m[Root]
    BY <1>2, ReachIs
  <1>5. w.n = h.n /\ w.head = h.head /\ w.count = h.count
    BY <1>2, HeaderIs
  <1> QED BY <1>2, <1>3, <1>4, <1>5 DEF Tall

\* BEGIN.
LEMMA BeginInv ==
  ASSUME Inv, Begin
  PROVE  Inv'
  <1>0. TypeOK /\ Marks /\ Phases /\ Sizes /\ Spans /\ Fresh /\ Cached /\ OnDisk /\ Based /\ Growing
    BY DEF Inv
  <1> DEFINE h == Header(pager)
             u == [p \in Page |-> None]
             v == pager'
  <1>1. /\ stage = "idle" /\ ~InTxn(pager) /\ v = [pager EXCEPT !.txn = h, !.undo = u]
        /\ risk' = {} /\ mode' = mode /\ stage' = stage /\ todo' = todo /\ auto' = auto
        /\ committed' = committed /\ file' = file /\ len' = len /\ hdr' = hdr
        /\ scars' = scars /\ saved' = saved /\ writes' = writes
    BY DEF Begin
  <1>2. /\ pager \in Handle /\ pager.mem \in Pages /\ h \in Headers /\ h.n = pager.n /\ h # NoTxn
        /\ pager.n \in Nat /\ Page \subseteq Nat /\ pager.cut \in Nat
    BY <1>0, Types, HeaderIs
  <1>3. u \in [Page -> Content \cup {None}] /\ \A p \in Page : u[p] = None
    OBVIOUS
  <1> HIDE DEF h, u, v
  <1>4. /\ v \in Handle /\ v.txn = h /\ v.undo = u /\ v.n = pager.n /\ v.head = pager.head
        /\ v.count = pager.count /\ v.zero = pager.zero /\ v.mem = pager.mem /\ v.dirty = pager.dirty
        /\ v.map = pager.map /\ v.cut = pager.cut
    BY <1>1, <1>2, <1>3 DEF Handle
  <1>5. InTxn(v) /\ Header(v) = h
    BY <1>2, <1>4 DEF InTxn, Header, h
  <1>6. risk = {} /\ todo = {}
    BY <1>0, <1>1 DEF Phases
  <1>7. Unwritten' = v.dirty /\ Unwritten = v.dirty /\ Past' = scars /\ Past = scars
    BY <1>1, <1>4, <1>6 DEF Unwritten, Past, v
  <1>8. Benign' <=> Benign
    BY <1>1 DEF Benign
  <1>9. TypeOK'
    BY <1>0, <1>1, <1>4 DEF TypeOK, v
  <1>10. Marks'
    BY <1>0, <1>1 DEF Marks
  <1>11. Phases'
    BY <1>0, <1>1, <1>3, <1>4, <1>5, <1>6 DEF Phases, v
  <1>12. Sizes'
    <2>1. ASSUME "regrown" \notin scars, pager.cut # 0 PROVE pager.cut >= h.n
      <3>1. ~(pager.cut < pager.n)
        BY <1>0, <1>1, <1>7, <2>1 DEF Sizes
      <3> QED BY <1>2, <3>1
    <2>2. mode = "wal" => pager.zero = h
      BY <1>0, <1>1 DEF Sizes, h
    <2>3. pager.n <= pager.n
      BY <1>2
    <2>4. /\ Root < pager.n /\ Root < hdr.n /\ Root < pager.zero.n
          /\ (pager.cut # 0 /\ pager.cut < pager.n => "regrown" \in scars)
          /\ (scars \cap {"regrown", "trimmed", "failed_commit"} = {} => len >= hdr.n)
      BY <1>0, <1>1, <1>7 DEF Sizes
    <2> QED BY <1>1, <1>2, <1>4, <1>5, <1>7, <2>1, <2>2, <2>3, <2>4 DEF Sizes, v
  <1>13. Spans'
    BY <1>0, <1>1, <1>2, <1>4, <1>5, <1>7 DEF Spans, Unbroken, v
  <1>14. Fresh'
    <2>1. SUFFICES ASSUME scars \cap {"regrown", "failed_commit"} = {}, NEW p \in Page, p < pager.n,
                          p \notin v.dirty
                   PROVE  pager.mem[p] \in {Stored(pager, p), Blank}
      BY <1>1, <1>4, <1>7 DEF Fresh, Stored, v
    <2> QED BY <1>0, <1>1, <1>6, <1>7, <2>1 DEF Fresh
  <1>15. ASSUME Benign
         PROVE  /\ View(h, Restored(v)) = View(h, pager.mem) /\ Base = View(h, pager.mem)
                /\ Good(h, pager.mem) /\ Good(h, Restored(v))
    <2>1. Good(h, pager.mem) /\ Base = View(h, pager.mem)
      BY <1>1, <1>15, BaseIs DEF h
    <2>2. Acc(h, pager.mem)
      BY <2>1 DEF Good
    <2>3. Restored(v) \in Pages
      BY <1>4, RestoredIs
    <2>4. ASSUME NEW p \in Reach(h, pager.mem) PROVE Restored(v)[p] = pager.mem[p]
      <3>1. p \in Page /\ p < h.n
        BY <1>2, <2>2, <2>4, AccReach
      <3>2. ~(p >= h.n)
        BY <1>2, <3>1
      <3>3. v.txn.n = h.n /\ v.undo[p] = None
        BY <1>3, <1>4, <3>1
      <3> QED BY <1>4, <3>1, <3>2, <3>3, RestoredIs
    <2>5. /\ View(h, Restored(v)) = View(h, pager.mem) /\ Acc(h, Restored(v))
          /\ (Cover(h, pager.mem) => Cover(h, Restored(v)))
      BY <1>2, <2>2, <2>3, <2>4, ViewFrame
    <2> QED BY <2>1, <2>5 DEF Good
  <1>16. Cached'
    BY <1>1, <1>4, <1>5, <1>8, <1>15 DEF Cached, Good, v
  <1>17. OnDisk'
    BY <1>0, <1>1, <1>8 DEF OnDisk
  <1>18. Based'
    <2>1. ASSUME Benign PROVE Base' = Base
      BY <1>4, <1>5, <1>15, <2>1 DEF Base, v
    <2>2. scars \cap {"torn", "regrown", "unlinked"} = {} => Benign
      BY DEF Benign
    <2>3. StoredPages' = StoredPages
      BY <1>1, <1>4 DEF StoredPages, Stored, v
    <2>4. stage' # "killed"
      BY <1>1
    <2>5. /\ mode = "delete" /\ Benign => Base = View(hdr, file)
          /\ scars \cap {"torn", "regrown", "unlinked"} = {} => Base = saved
          /\ mode = "wal" /\ scars \subseteq {"trimmed"} => View(pager.zero, StoredPages) = saved
      BY <1>0, <1>1 DEF Based
    <2> QED BY <1>1, <1>4, <1>8, <2>1, <2>2, <2>3, <2>4, <2>5 DEF Based, v
  <1>19. Growing'
    BY <1>0, <1>1, <1>4, <1>6, <1>8 DEF Growing, Growth, Kids, FileKids, v
  <1> QED BY <1>9, <1>10, <1>11, <1>12, <1>13, <1>14, <1>16, <1>17, <1>18, <1>19 DEF Inv

\* COMMIT, up to the start of the flush.
LEMMA CommitInv ==
  ASSUME Inv, Commit
  PROVE  Inv'
  <1>0. TypeOK /\ Marks /\ Phases /\ Sizes /\ Spans /\ Fresh /\ Cached /\ OnDisk /\ Based /\ Growing
    BY DEF Inv
  <1> DEFINE v == pager'
             h == Header(pager)
  <1>1. /\ stage = "idle" /\ InTxn(pager) /\ v = [pager EXCEPT !.txn = NoTxn]
        /\ risk' = risk /\ mode' = mode /\ committed' = committed /\ file' = file /\ len' = len
        /\ hdr' = hdr /\ scars' = scars /\ saved' = saved /\ writes' = writes
    BY DEF Commit
  <1>2. \/ pager.dirty = {} /\ stage' = "idle" /\ todo' = todo /\ auto' = auto
        \/ pager.dirty # {} /\ stage' = "new" /\ todo' = pager.dirty /\ auto' = FALSE
    BY <1>1 DEF Commit
  <1>3. pager \in Handle /\ pager.mem \in Pages /\ h \in Headers /\ h.n = pager.n /\ pager.n \in Nat /\ Page \subseteq Nat
    BY <1>0, Types, HeaderIs
  <1> HIDE DEF v, h
  <1>4. /\ v \in Handle /\ v.txn = NoTxn /\ v.undo = pager.undo /\ v.n = pager.n /\ v.head = pager.head
        /\ v.count = pager.count /\ v.zero = pager.zero /\ v.mem = pager.mem /\ v.dirty = pager.dirty
        /\ v.map = pager.map /\ v.cut = pager.cut
    BY <1>1, <1>3 DEF Handle
  <1>5. ~InTxn(v) /\ Header(v) = h /\ pager.txn # NoTxn
    BY <1>1, <1>4 DEF InTxn, Header, h
  <1>6. todo = {} /\ (pager.dirty = {} => risk = {} /\ pager.txn = h /\ \A p \in Page : pager.undo[p] = None)
    BY <1>0, <1>1 DEF Phases, h
  <1>7. Unwritten' = v.dirty /\ Unwritten = v.dirty /\ Past' = Past /\ (stage' = "idle" => pager.dirty = {})
    BY <1>1, <1>2, <1>4 DEF Unwritten, Past, v
  <1>8. (Benign' <=> Benign) /\ stage' \in {"idle", "new"}
    BY <1>1, <1>2 DEF Benign
  <1>9. TypeOK'
    <2>1. todo' \subseteq v.dirty /\ stage' \in {"idle", "new"}
      BY <1>2, <1>4, <1>6
    <2>2. auto' \in BOOLEAN
      BY <1>0, <1>2 DEF TypeOK
    <2> QED BY <1>0, <1>1, <1>4, <2>1, <2>2 DEF TypeOK, v
  <1>10. Marks'
    BY <1>0, <1>1 DEF Marks
  <1>11. Phases'
    <2>1. mode = "delete" => \A p \in Page : v.map[p] = None
      BY <1>0, <1>4 DEF Phases
    <2>2. CASE pager.dirty = {}
      <3>1. stage' = "idle" /\ todo' = {} /\ risk' = {}
        BY <1>1, <1>2, <1>6, <2>2
      <3> QED BY <1>1, <1>5, <2>1, <3>1 DEF Phases, v
    <2>3. CASE pager.dirty # {}
      <3>1. stage' = "new" /\ todo' = v.dirty
        BY <1>2, <1>4, <2>3
      <3> QED BY <1>1, <1>5, <2>1, <3>1 DEF Phases, v
    <2> QED BY <2>2, <2>3
  <1>12. Sizes'
    <2>1. ASSUME mode = "wal", stage' = "idle" PROVE v.zero = Header(v)
      BY <1>0, <1>1, <1>4, <1>5, <1>6, <1>7, <2>1 DEF Sizes
    <2>2. /\ Root < pager.n /\ Root < hdr.n /\ Root < pager.zero.n
          /\ (pager.cut # 0 /\ pager.cut < pager.n => "regrown" \in Past)
          /\ (scars \cap {"regrown", "trimmed", "failed_commit"} = {} => len >= hdr.n)
      BY <1>0, <1>1 DEF Sizes
    <2> QED BY <1>1, <1>4, <1>5, <1>7, <1>8, <2>1, <2>2 DEF Sizes, v
  <1>13. Spans'
    <2>1. SUFFICES ASSUME mode = "delete", Unbroken
                   PROVE  /\ committed = hdr.n /\ (stage' = "idle" => committed = pager.n)
                          /\ \A p \in committed..pager.n-1 : p < len \/ p \in v.dirty
      BY <1>1, <1>4, <1>5, <1>7 DEF Spans, Unbroken, v
    <2>2. /\ committed = hdr.n /\ committed = pager.txn.n
          /\ \A p \in committed..pager.n-1 : p < len \/ p \in v.dirty
      BY <1>0, <1>1, <1>7, <2>1 DEF Spans
    <2>3. stage' = "idle" => pager.txn.n = pager.n
      BY <1>3, <1>6, <1>7
    <2> QED BY <2>2, <2>3
  <1>14. Fresh'
    <2>1. SUFFICES ASSUME scars \cap {"regrown", "failed_commit"} = {}, NEW p \in Page, p < pager.n,
                          p \notin v.dirty, "regrown" \notin risk
                   PROVE  pager.mem[p] \in {Stored(pager, p), Blank}
      BY <1>1, <1>4, <1>5, <1>7 DEF Fresh, Stored, v
    <2> QED BY <1>0, <1>1, <1>7, <2>1 DEF Fresh
  <1>15. Cached'
    <2>1. Benign /\ "unlinked" \notin risk => Good(h, pager.mem)
      BY <1>0, <1>1 DEF Cached, h
    <2> QED BY <1>1, <1>4, <1>5, <1>8, <2>1 DEF Cached, Good, v
  <1>16. OnDisk'
    BY <1>0, <1>1, <1>8 DEF OnDisk
  <1>17. Based'
    <2>1. ASSUME Benign, stage' = "idle" PROVE Base' = Base
      <3>1. pager.dirty = {} /\ risk = {} /\ pager.txn = h /\ \A p \in Page : pager.undo[p] = None
        BY <1>6, <1>7, <2>1
      <3>2. Acc(h, pager.mem)
        BY <1>0, <1>1, <2>1, <3>1 DEF Cached, Good, h
      <3>3. Restored(pager) \in Pages
        BY <1>3, RestoredIs
      <3>4. ASSUME NEW p \in Reach(h, pager.mem) PROVE Restored(pager)[p] = pager.mem[p]
        <4>1. p \in Page /\ p < h.n
          BY <1>3, <3>2, <3>4, AccReach
        <4>2. ~(p >= h.n)
          BY <1>3, <4>1
        <4> QED BY <1>3, <3>1, <4>1, <4>2, RestoredIs
      <3>5. View(h, Restored(pager)) = View(h, pager.mem)
        BY <1>3, <3>3, <3>4, ViewFrame
      <3> QED BY <1>1, <1>4, <1>5, <3>1, <3>5 DEF Base, Live, v
    <2>2. scars \cap {"torn", "regrown", "unlinked"} = {} => Benign
      BY DEF Benign
    <2>3. StoredPages' = StoredPages
      BY <1>1, <1>4 DEF StoredPages, Stored, v
    <2>4. stage' # "killed"
      BY <1>8
    <2>5. /\ mode = "delete" /\ Benign => Base = View(hdr, file)
          /\ scars \cap {"torn", "regrown", "unlinked"} = {} => Base = saved
          /\ mode = "wal" /\ scars \subseteq {"trimmed"} => View(pager.zero, StoredPages) = saved
      BY <1>0, <1>1 DEF Based
    <2> QED BY <1>1, <1>4, <1>8, <2>1, <2>2, <2>3, <2>4, <2>5 DEF Based, v
  <1>18. Growing'
    BY <1>0, <1>1, <1>4, <1>8 DEF Growing, Growth, Kids, FileKids, v
  <1> QED BY <1>9, <1>10, <1>11, <1>12, <1>13, <1>14, <1>15, <1>16, <1>17, <1>18 DEF Inv

\* A set of pages that was cut at k.
LEMMA TrimmedIs ==
  ASSUME NEW m \in Pages, NEW k
  PROVE  /\ Trimmed(m, k) \in Pages
         /\ \A p \in Page : Trimmed(m, k)[p] = IF p < k THEN m[p] ELSE Blank
  BY MakesContent DEF Trimmed, Pages

\* ROLLBACK.
LEMMA RollbackIs ==
  ASSUME Inv, Rollback
  PROVE  /\ pager' \in Handle /\ pager'.mem = Restored(pager) /\ Header(pager') = pager.txn
         /\ pager'.n = pager.txn.n /\ pager'.cut = 0 /\ ~InTxn(pager')
         /\ pager'.zero = pager.zero /\ pager'.map = pager.map
         /\ pager'.dirty = {p \in pager.dirty \cup {q \in Page : pager.undo[q] # None} : p < pager.txn.n}
         /\ len' \in 1..MaxPages /\ len' <= len /\ len' <= pager.txn.n /\ (len' = len \/ len' = pager.txn.n)
         /\ file' = Trimmed(file, len') /\ pager.txn \in Headers
  <1>1. TypeOK /\ InTxn(pager)
    BY DEF Inv, Rollback
  <1>2. pager \in Handle /\ len \in 1..MaxPages /\ len \in Nat /\ MaxPages \in Nat
    BY <1>1, Types
  <1>3. pager.txn \in Headers
    BY <1>1, <1>2, HandleIs DEF InTxn
  <1> DEFINE b == pager.txn
             mm == [p \in Page |-> IF p >= b.n THEN Blank
                                   ELSE IF pager.undo[p] # None THEN pager.undo[p] ELSE pager.mem[p]]
             dd == {p \in pager.dirty \cup {q \in Page : pager.undo[q] # None} : p < b.n}
             v == pager'
  <1>4. b.n \in 1..MaxPages /\ b.head \in 0..MaxPages-1 /\ b.count \in Nat
    BY <1>3 DEF Headers
  <1>5. mm = Restored(pager) /\ mm \in Pages
    BY <1>2, RestoredIs DEF Restored
  <1>6. dd \in SUBSET Page
    BY <1>2, HandleIs
  <1>7. v = [pager EXCEPT !.n = b.n, !.head = b.head, !.count = b.count, !.cut = 0, !.txn = NoTxn,
                          !.mem = mm, !.dirty = dd]
    BY DEF Rollback, RolledBack, RestoreBase
  <1> HIDE DEF mm, dd, v, b
  <1>8. /\ v \in Handle /\ v.n = b.n /\ v.head = b.head /\ v.count = b.count /\ v.cut = 0
        /\ v.txn = NoTxn /\ v.mem = mm /\ v.dirty = dd /\ v.zero = pager.zero /\ v.map = pager.map
    <2>1. /\ v.n = b.n /\ v.head = b.head /\ v.count = b.count /\ v.cut = 0
          /\ v.txn = NoTxn /\ v.mem = mm /\ v.dirty = dd /\ v.zero = pager.zero /\ v.map = pager.map
      BY <1>2, <1>7 DEF Handle
    <2>2. mm \in [Page -> Content] /\ 0 \in 0..MaxPages /\ NoTxn \in Headers \cup {NoTxn}
      BY <1>2, <1>5 DEF Pages
    <2>3. v \in Handle
      BY <1>2, <1>4, <1>6, <1>7, <2>2 DEF Handle
    <2> QED BY <2>1, <2>3
  <1>9. Header(v) = b
    BY <1>3, <1>8 DEF Header, Headers, b
  <1>10. len' = Min({len, b.n}) /\ file' = Trimmed(file, len')
    BY DEF Rollback, b
  <1>11. len' = IF len <= b.n THEN len ELSE b.n
    <2>1. b.n \in Nat
      BY <1>2, <1>4
    <2> QED BY <1>2, <1>10, <2>1, MinTwo
  <1>12. len' \in 1..MaxPages /\ len' <= len /\ len' <= b.n /\ (len' = len \/ len' = b.n)
    BY <1>2, <1>4, <1>11
  <1> QED BY <1>3, <1>5, <1>8, <1>9, <1>10, <1>12 DEF v, b, dd, InTxn

\* A file that ends at or above k keeps its pages below k.
LEMMA TrimKeeps ==
  ASSUME TypeOK, NEW l \in Nat, NEW k \in Nat, l = len \/ l >= k
  PROVE  /\ Trimmed(file, l) \in Pages
         /\ \A p \in Page : p < k => Trimmed(file, l)[p] = file[p]
         /\ \A p \in Page : p >= l => Trimmed(file, l)[p] = Blank
  <1>1. file \in Pages /\ Page \subseteq Nat /\ \A p \in Page : p >= len => file[p] = Blank
    BY Types DEF TypeOK
  <1>2. /\ Trimmed(file, l) \in Pages
        /\ \A p \in Page : Trimmed(file, l)[p] = IF p < l THEN file[p] ELSE Blank
    BY <1>1, TrimmedIs
  <1>3. ASSUME NEW p \in Page, p < k PROVE Trimmed(file, l)[p] = file[p]
    <2>1. p \in Nat
      BY <1>1
    <2>2. CASE p < l
      BY <1>2, <2>2
    <2>3. CASE ~(p < l)
      <3>1. p >= len
        BY <1>3, <2>1, <2>3
      <3> QED BY <1>1, <1>2, <2>3, <3>1
    <2> QED BY <2>2, <2>3
  <1>4. ASSUME NEW p \in Page, p >= l PROVE Trimmed(file, l)[p] = Blank
    <2>1. p \in Nat /\ ~(p < l)
      BY <1>1, <1>4
    <2> QED BY <1>2, <2>1
  <1> QED BY <1>2, <1>3, <1>4

\* ROLLBACK keeps the invariant.
LEMMA RollbackInv ==
  ASSUME Inv, Rollback
  PROVE  Inv'
  <1>0. TypeOK /\ Marks /\ Phases /\ Sizes /\ Spans /\ Fresh /\ Cached /\ OnDisk /\ Based /\ Growing
    BY DEF Inv
  <1> DEFINE v == pager'
             b == pager.txn
             R == Restored(pager)
  <1>1. /\ stage = "idle" /\ InTxn(pager) /\ risk' = {} /\ scars' = scars \cup Trims
        /\ mode' = mode /\ stage' = "idle" /\ todo' = todo /\ auto' = auto
        /\ committed' = committed /\ hdr' = hdr /\ saved' = saved /\ writes' = writes
    BY DEF Rollback
  <1>2. /\ v \in Handle /\ v.mem = R /\ Header(v) = b /\ v.n = b.n /\ v.cut = 0 /\ ~InTxn(v)
        /\ v.zero = pager.zero /\ v.map = pager.map /\ b \in Headers
        /\ v.dirty = {p \in pager.dirty \cup {q \in Page : pager.undo[q] # None} : p < b.n}
    BY RollbackIs
  <1>3. /\ len' \in 1..MaxPages /\ len' <= len /\ len' <= b.n /\ (len' = len \/ len' = b.n)
        /\ file' = Trimmed(file, len')
    BY RollbackIs
  <1>4. /\ pager \in Handle /\ R \in Pages /\ file \in Pages /\ hdr \in Headers /\ Page \subseteq Nat
        /\ b.n \in Nat /\ hdr.n \in Nat /\ len \in Nat /\ MaxPages \in Nat /\ pager.n \in Nat
    BY <1>0, Types, RestoredIs
  <1>5. len' \in Nat /\ (len' = len \/ len' >= b.n)
    BY <1>3, <1>4
  <1> HIDE DEF v, b, R
  <1>6. /\ file' \in Pages /\ \A p \in Page : p < b.n => file'[p] = file[p]
        /\ \A p \in Page : p >= len' => file'[p] = Blank
    BY <1>0, <1>3, <1>4, <1>5, TrimKeeps
  <1>7. todo = {} /\ Unwritten' = v.dirty /\ Unwritten = pager.dirty /\ Past' = scars'
    BY <1>0, <1>1 DEF Phases, Unwritten, Past, v
  <1>8. /\ Trims \subseteq {"trimmed"} /\ scars \subseteq scars'
        /\ ("trimmed" \notin scars' => ~(b.n < hdr.n))
    BY <1>1 DEF Trims, b
  <1>9. (Benign' => Benign) /\ ("torn" \in scars' <=> "torn" \in scars) /\ (Unbroken' <=> Unbroken)
    BY <1>1, <1>8, BenignBack DEF Unbroken
  <1>10. mode = "delete" /\ Unbroken => committed = hdr.n /\ committed = b.n
    BY <1>0, <1>1 DEF Spans, b
  <1>11. TypeOK'
    <2>1. v.cut <= v.n
      BY <1>2, <1>4
    <2>2. auto' \in BOOLEAN /\ committed' \in 1..MaxPages
      BY <1>0, <1>1 DEF TypeOK
    <2>3. todo' \subseteq v.dirty
      BY <1>1, <1>7
    <2> QED BY <1>1, <1>2, <1>3, <1>4, <1>6, <2>1, <2>2, <2>3 DEF TypeOK, v, Pages
  <1>12. Marks'
    <2>1. mode = "delete" /\ "trimmed" \in scars' => "failed_commit" \in scars'
      <3>1. ASSUME mode = "delete", "trimmed" \in scars', "failed_commit" \notin scars' PROVE FALSE
        <4>1. Unbroken /\ "trimmed" \notin scars
          BY <1>0, <1>8, <3>1 DEF Marks, Unbroken
        <4>2. b.n < hdr.n
          BY <1>1, <3>1, <4>1 DEF Trims, b
        <4> QED BY <1>4, <1>10, <3>1, <4>1, <4>2
      <3> QED BY <3>1
    <2>2. "torn" \notin scars' => scars' \subseteq {"trimmed", "early_fold", "regrown", "unlinked"}
      BY <1>0, <1>1, <1>8 DEF Marks
    <2>3. mode = "delete" => "early_fold" \notin scars'
      BY <1>0, <1>1, <1>8 DEF Marks
    <2> QED BY <1>0, <1>1, <2>1, <2>2, <2>3 DEF Marks
  <1>13. Phases'
    BY <1>0, <1>1, <1>2, <1>7 DEF Phases, v
  <1>14. Sizes'
    <2>1. Root < b.n /\ Root < hdr.n /\ Root < pager.zero.n
      BY <1>0, <1>1 DEF Sizes, b
    <2>2. mode = "wal" => pager.zero = b
      BY <1>0, <1>1 DEF Sizes, b
    <2>3. ASSUME scars' \cap {"regrown", "trimmed", "failed_commit"} = {} PROVE len' >= hdr.n
      <3>1. len >= hdr.n
        BY <1>0, <1>8, <2>3 DEF Sizes
      <3>2. ~(b.n < hdr.n)
        BY <1>8, <2>3
      <3> QED BY <1>3, <1>4, <3>1, <3>2
    <2> QED BY <1>1, <1>2, <2>1, <2>2, <2>3 DEF Sizes, v
  <1>15. Spans'
    <2>1. SUFFICES ASSUME mode = "delete", Unbroken
                   PROVE  /\ committed = hdr.n /\ committed = b.n
                          /\ \A p \in committed..b.n-1 : p < len' \/ p \in v.dirty
      BY <1>1, <1>2, <1>7, <1>9 DEF Spans, v
    <2>2. committed = hdr.n /\ committed = b.n
      BY <1>10, <2>1
    <2>3. \A p \in committed..b.n-1 : FALSE
      BY <1>4, <2>2
    <2> QED BY <2>2, <2>3
  <1>16. Fresh'
    <2>1. SUFFICES ASSUME scars' \cap {"regrown", "failed_commit"} = {}, NEW p \in Page, p < b.n,
                          p \notin v.dirty, R[p] # Blank
                   PROVE  R[p] = IF pager.map[p] # None THEN pager.map[p] ELSE file'[p]
      BY <1>1, <1>2, <1>7 DEF Fresh, Stored, v
    <2>2. p \notin pager.dirty /\ pager.undo[p] = None
      BY <1>2, <2>1
    <2>3. ~(p >= b.n)
      BY <1>4, <2>1
    <2>4. R[p] = pager.mem[p]
      BY <1>4, <2>2, <2>3, RestoredIs DEF R, b
    <2>5. p < pager.n
      <3>1. b.n <= pager.n
        BY <1>0, <1>1 DEF Sizes, b
      <3>2. p \in Nat
        BY <1>4
      <3> QED BY <1>4, <2>1, <3>1, <3>2
    <2>6. pager.mem[p] \in {Stored(pager, p), Blank}
      BY <1>0, <1>1, <1>7, <1>8, <2>1, <2>2, <2>5 DEF Fresh, b
    <2> QED BY <1>6, <2>1, <2>4, <2>6 DEF Stored
  <1>17. ASSUME Benign PROVE Good(b, R) /\ Base = View(b, R) /\ Acc(b, R)
    BY <1>1, <1>17, BaseIs DEF b, R, Good
  <1>18. Cached'
    BY <1>1, <1>2, <1>9, <1>17 DEF Cached, Good, v
  <1>19. ASSUME mode = "delete", Benign'
         PROVE  /\ Acc(hdr, file') /\ ("torn" \notin scars => Cover(hdr, file'))
                /\ View(hdr, file') = View(hdr, file)
    <2>1. Benign /\ Unbroken
      BY <1>0, <1>9, <1>19, BenignIs
    <2>2. Acc(hdr, file) /\ ("torn" \notin scars => Cover(hdr, file))
      BY <1>0, <1>1, <1>19, <2>1 DEF OnDisk
    <2>3. hdr.n = b.n
      BY <1>10, <1>19, <2>1
    <2>4. ASSUME NEW p \in Reach(hdr, file) PROVE file'[p] = file[p]
      <3>1. p \in Page /\ p < hdr.n
        BY <1>4, <2>2, <2>4, AccReach
      <3> QED BY <1>6, <2>3, <3>1
    <2> QED BY <1>4, <1>6, <2>2, <2>4, ViewFrame
  <1>20. OnDisk'
    BY <1>1, <1>9, <1>19 DEF OnDisk
  <1>21. Base' = View(b, R)
    BY <1>2 DEF Base, Live, v
  <1>22. Based'
    <2>1. ASSUME mode = "delete", Benign' PROVE Base' = View(hdr, file')
      <3>1. Base = View(hdr, file)
        BY <1>0, <1>1, <1>9, <2>1 DEF Based
      <3> QED BY <1>9, <1>17, <1>19, <1>21, <2>1, <3>1
    <2>2. ASSUME scars' \cap {"torn", "regrown", "unlinked"} = {} PROVE Base' = saved
      <3>1. scars \cap {"torn", "regrown", "unlinked"} = {} /\ Benign
        BY <1>8, <2>2 DEF Benign
      <3>2. Base = saved
        BY <1>0, <1>1, <3>1 DEF Based
      <3> QED BY <1>17, <1>21, <3>1, <3>2
    <2>3. ASSUME mode = "wal", scars' \subseteq {"trimmed"} PROVE View(pager.zero, StoredPages') = saved
      <3>1. /\ pager.zero \in Headers /\ View(pager.zero, StoredPages) = saved
            /\ \A p \in Reach(pager.zero, StoredPages) : p \in Page /\ p < pager.zero.n
        BY <1>1, <1>8, <2>3, ZeroReach
      <3>2. pager.zero = b
        BY <1>0, <1>1, <2>3 DEF Sizes, b
      <3>3. StoredPages \in Pages
        BY <1>0, StoredIs
      <3>4. StoredPages' \in Pages
        <4>1. pager.map \in Undo
          BY <1>4, HandleIs
        <4> QED BY <1>2, <1>6, <4>1 DEF StoredPages, Stored, Undo, Pages, v
      <3>5. ASSUME NEW p \in Reach(pager.zero, StoredPages) PROVE StoredPages'[p] = StoredPages[p]
        <4>1. p \in Page /\ p < b.n
          BY <3>1, <3>2, <3>5
        <4> QED BY <1>2, <1>6, <4>1 DEF StoredPages, Stored, v
      <3>6. View(pager.zero, StoredPages') = View(pager.zero, StoredPages)
        BY <3>1, <3>3, <3>4, <3>5, ViewFrame
      <3> QED BY <3>1, <3>6
    <2> QED BY <1>1, <1>2, <2>1, <2>2, <2>3 DEF Based, v
  <1>23. Growing'
    <2>1. SUFFICES ASSUME mode = "delete", Benign'
                   PROVE  /\ v.head = hdr.head /\ v.count = hdr.count
                          /\ \A t \in ToSet(Chain(hdr.head, file')) : v.mem[t] = file'[t]
                          /\ file'[Root].kids \subseteq v.mem[Root].kids
                          /\ \A c \in v.mem[Root].kids : file'[c].kind = "leaf"
      BY <1>1 DEF Growing, Growth, Kids, FileKids, v
    <2>2. Base' = View(hdr, file') /\ Acc(hdr, file')
      BY <1>1, <1>19, <1>22, <2>1 DEF Based
    <2>3. View(Header(v), v.mem) = View(hdr, file')
      BY <1>2, <1>21, <2>2
    <2> QED BY <1>2, <1>4, <1>6, <2>2, <2>3, SameDb
  <1> QED BY <1>11, <1>12, <1>13, <1>14, <1>15, <1>16, <1>18, <1>20, <1>22, <1>23 DEF Inv

-----------------------------------------------------------------------------
(* The flush in DELETE mode, and the commit and the fold in WAL mode. *)

\* One page of a flush is written.
LEMMA WritePageIs ==
  ASSUME TypeOK, NEW p \in todo, WritePage(p)
  PROVE  /\ p \in Page /\ file' \in Pages /\ file'[p] = pager.mem[p]
         /\ \A q \in Page : q # p => file'[q] = file[q]
         /\ len' \in 1..MaxPages /\ len' \in Nat /\ len' >= len /\ p < len' /\ todo' = todo \ {p}
         /\ pager' = pager /\ mode' = mode /\ auto' = auto /\ committed' = committed /\ hdr' = hdr
         /\ risk' = risk /\ scars' = scars /\ saved' = saved
  <1>1. p \in Page /\ file \in Pages /\ pager.mem \in Pages /\ len \in Nat /\ len \in 1..MaxPages /\ MaxPages \in Nat
    BY Types
  <1>2. /\ file' = [file EXCEPT ![p] = pager.mem[p]] /\ len' = Max({len, p + 1}) /\ todo' = todo \ {p}
        /\ pager' = pager /\ mode' = mode /\ auto' = auto /\ committed' = committed /\ hdr' = hdr
        /\ risk' = risk /\ scars' = scars /\ saved' = saved
    BY DEF WritePage
  <1>3. /\ file' \in Pages /\ file'[p] = pager.mem[p] /\ \A q \in Page : q # p => file'[q] = file[q]
    BY <1>1, <1>2 DEF Pages
  <1>4. p \in Nat /\ p + 1 \in Nat /\ p < MaxPages
    BY <1>1 DEF Page
  <1> DEFINE k == p + 1
  <1>5. k \in Nat /\ len' = Max({len, k})
    BY <1>2, <1>4
  <1> HIDE DEF k
  <1>6. len' = IF len >= k THEN len ELSE k
    BY <1>1, <1>5, MaxTwo
  <1>7. len' \in 1..MaxPages /\ len' \in Nat /\ len' >= len /\ p < len'
    BY <1>1, <1>4, <1>6 DEF k
  <1> QED BY <1>1, <1>2, <1>3, <1>7

\* A page written in place of one that the file lacked or had no use for.
LEMMA WriteKeeps ==
  ASSUME Inv, Flushing, NEW p \in todo, WritePage(p), stage' = stage
  PROVE  TypeOK' /\ Marks' /\ Phases' /\ Sizes' /\ Spans' /\ Fresh' /\ Cached' /\ Based'
  <1>0. TypeOK /\ Marks /\ Phases /\ Sizes /\ Spans /\ Fresh /\ Cached
    BY DEF Inv
  <1>1. mode = "delete" /\ stage \in {"new", "old"} /\ stage' \in {"new", "old"}
    BY DEF Flushing
  <1>2. /\ p \in Page /\ file' \in Pages /\ file'[p] = pager.mem[p]
        /\ \A q \in Page : q # p => file'[q] = file[q]
        /\ len' \in 1..MaxPages /\ len' \in Nat /\ len' >= len /\ p < len' /\ todo' = todo \ {p}
        /\ pager' = pager /\ mode' = mode /\ auto' = auto /\ committed' = committed /\ hdr' = hdr
        /\ risk' = risk /\ scars' = scars /\ saved' = saved
    BY <1>0, WritePageIs
  <1>3. len \in Nat /\ Page \subseteq Nat /\ hdr.n \in Nat
    BY <1>0, Types
  <1>4. Unwritten' = todo \ {p} /\ Unwritten = todo /\ Past' = Past
    BY <1>1, <1>2 DEF Unwritten, Past
  <1>5. TypeOK'
    <2>1. ASSUME NEW q \in Page, q >= len' PROVE file'[q] = Blank
      <3>1. q # p /\ q >= len
        BY <1>2, <1>3, <2>1
      <3> QED BY <1>0, <1>2, <3>1 DEF TypeOK
    <2>2. todo' \subseteq pager'.dirty
      BY <1>0, <1>2 DEF TypeOK
    <2> QED BY <1>0, <1>2, <2>1, <2>2 DEF TypeOK, Pages
  <1>6. Marks'
    BY <1>0, <1>2 DEF Marks
  <1>7. Phases'
    BY <1>0, <1>1, <1>2 DEF Phases
  <1>8. Sizes'
    <2>1. scars \cap {"regrown", "trimmed", "failed_commit"} = {} => len' >= hdr.n
      <3>1. scars \cap {"regrown", "trimmed", "failed_commit"} = {} => len >= hdr.n
        BY <1>0 DEF Sizes
      <3> QED BY <1>2, <1>3, <3>1
    <2>2. stage = "old" => hdr = Header(pager) /\ \A q \in todo' : q < committed
      BY <1>0, <1>2 DEF Sizes
    <2> QED BY <1>0, <1>1, <1>2, <1>4, <2>1, <2>2 DEF Sizes
  <1>9. Spans'
    <2>1. SUFFICES ASSUME Unbroken, stage = "new"
                   PROVE  /\ committed = hdr.n
                          /\ \A q \in committed..pager.n-1 : q < len' \/ q \in todo'
      BY <1>1, <1>2, <1>4 DEF Spans, Unbroken
    <2>2. committed = hdr.n /\ \A q \in committed..pager.n-1 : q < len \/ q \in todo
      BY <1>0, <1>1, <1>4, <2>1 DEF Spans
    <2>3. ASSUME NEW q \in committed..pager.n-1 PROVE q < len' \/ q \in todo'
      <3>1. q < len \/ q \in todo
        BY <2>2
      <3>2. q \in Int
        OBVIOUS
      <3> QED BY <1>2, <1>3, <3>1, <3>2
    <2> QED BY <2>2, <2>3
  <1>10. Fresh'
    <2>1. SUFFICES ASSUME scars \cap {"regrown", "failed_commit"} = {}, NEW q \in Page, q < pager.n,
                          q \notin todo \ {p},
                          "regrown" \notin risk \/ (InTxn(pager) /\ q < pager.txn.n)
                   PROVE  pager.mem[q] \in {IF pager.map[q] # None THEN pager.map[q] ELSE file'[q], Blank}
      BY <1>2, <1>4 DEF Fresh, Stored
    <2>2. pager.map[q] = None
      BY <1>0, <1>1 DEF Phases
    <2>3. CASE q = p
      BY <1>2, <2>2, <2>3
    <2>4. CASE q # p
      <3>1. pager.mem[q] \in {Stored(pager, q), Blank}
        BY <1>0, <1>1, <1>4, <2>1, <2>4 DEF Fresh
      <3> QED BY <1>2, <2>2, <2>4, <3>1 DEF Stored
    <2> QED BY <2>3, <2>4
  <1>11. Cached'
    BY <1>0, <1>1, <1>2 DEF Cached, Good, Benign
  <1>12. Based'
    BY <1>1 DEF Based
  <1> QED BY <1>5, <1>6, <1>7, <1>8, <1>9, <1>10, <1>11, <1>12

\* The first phase of the flush leaves the database of the old header alone.
LEMMA WriteNewInv ==
  ASSUME Inv, WriteNew
  PROVE  Inv'
  <1>0. TypeOK /\ Marks /\ Sizes /\ Spans /\ OnDisk /\ Growing
    BY DEF Inv
  <1> DEFINE p == Max(NewPages)
  <1>1. Flushing /\ stage = "new" /\ NewPages # {} /\ WritePage(p) /\ stage' = stage
    BY DEF WriteNew
  <1>2. mode = "delete"
    BY <1>1 DEF Flushing
  <1>3. p \in todo /\ p >= committed
    <2>1. NewPages \subseteq 0..MaxPages /\ MaxPages \in Nat
      BY <1>0, Types DEF NewPages, Page
    <2>2. p \in NewPages
      BY <1>1, <2>1, MaxIs
    <2> QED BY <2>2 DEF NewPages
  <1> HIDE DEF p
  <1>4. TypeOK' /\ Marks' /\ Phases' /\ Sizes' /\ Spans' /\ Fresh' /\ Cached' /\ Based'
    BY <1>1, <1>3, WriteKeeps
  <1>5. /\ p \in Page /\ file' \in Pages /\ \A q \in Page : q # p => file'[q] = file[q]
        /\ pager' = pager /\ mode' = mode /\ committed' = committed /\ hdr' = hdr
        /\ risk' = risk /\ scars' = scars
    BY <1>0, <1>1, <1>3, WritePageIs
  <1>6. Benign' <=> Benign
    BY <1>5 DEF Benign
  <1>7. ASSUME Benign
        PROVE  /\ Acc(hdr, file') /\ ("torn" \notin scars => Cover(hdr, file'))
               /\ Chain(hdr.head, file') = Chain(hdr.head, file) /\ Acc(hdr, file)
               /\ \A q \in Reach(hdr, file) : file'[q] = file[q]
               /\ committed = hdr.n
    <2>1. committed = hdr.n
      BY <1>0, <1>1, <1>2, <1>7, BenignIs DEF Spans
    <2>2. Acc(hdr, file) /\ ("torn" \notin scars => Cover(hdr, file))
      BY <1>0, <1>1, <1>2, <1>7 DEF OnDisk
    <2>3. file \in Pages /\ hdr \in Headers /\ hdr.n \in Nat /\ Page \subseteq Nat
      BY <1>0, Types
    <2>4. ASSUME NEW q \in Reach(hdr, file) PROVE file'[q] = file[q]
      <3>1. q \in Page /\ q < hdr.n
        BY <2>2, <2>3, <2>4, AccReach
      <3>2. q # p
        BY <1>3, <1>5, <2>1, <2>3, <3>1
      <3> QED BY <1>5, <3>1, <3>2
    <2>5. /\ Chain(hdr.head, file') = Chain(hdr.head, file) /\ Acc(hdr, file')
          /\ (Cover(hdr, file) => Cover(hdr, file'))
      BY <1>5, <2>2, <2>3, <2>4, ViewFrame
    <2> QED BY <2>1, <2>2, <2>4, <2>5
  <1>8. OnDisk'
    BY <1>1, <1>2, <1>5, <1>6, <1>7 DEF OnDisk
  <1>9. Growing'
    <2>1. SUFFICES ASSUME Benign, risk \subseteq {"grown"}
                   PROVE  /\ pager.head = hdr.head /\ pager.count = hdr.count
                          /\ \A t \in ToSet(Chain(hdr.head, file')) : pager.mem[t] = file'[t]
                          /\ file'[Root].kids \subseteq pager.mem[Root].kids
                          /\ \A c \in pager.mem[Root].kids : c < committed => file'[c].kind = "leaf"
      BY <1>5, <1>6 DEF Growing, Growth, Kids, FileKids
    <2>2. /\ pager.head = hdr.head /\ pager.count = hdr.count
          /\ \A t \in ToSet(Chain(hdr.head, file)) : pager.mem[t] = file[t]
          /\ file[Root].kids \subseteq pager.mem[Root].kids
          /\ \A c \in pager.mem[Root].kids : c < committed => file[c].kind = "leaf"
      BY <1>1, <1>0, <1>2, <2>1 DEF Growing, Growth, Kids, FileKids
    <2>3. file \in Pages /\ hdr \in Headers /\ committed \in Nat /\ Page \subseteq Nat /\ pager \in Handle
      BY <1>0, Types
    <2>4. Root \in Reach(hdr, file) /\ ToSet(Chain(hdr.head, file)) \subseteq Reach(hdr, file)
      BY <2>3, ReachIs
    <2>5. file'[Root] = file[Root]
      BY <1>7, <2>1, <2>4
    <2>6. \A t \in ToSet(Chain(hdr.head, file)) : file'[t] = file[t]
      BY <1>7, <2>1, <2>4
    <2>7. pager.mem[Root].kids \subseteq Page
      <3>1. Good(Header(pager), pager.mem)
        BY <1>1, <2>1 DEF Inv, Cached
      <3> QED BY <2>3, <3>1, AccReach, HeaderIs, HandleIs DEF Good
    <2>8. ASSUME NEW c \in pager.mem[Root].kids, c < committed PROVE file'[c].kind = "leaf"
      <3>1. c \in Page /\ c # p
        BY <1>3, <1>5, <2>3, <2>7, <2>8
      <3> QED BY <1>5, <2>2, <2>8, <3>1
    <2> QED BY <1>7, <2>1, <2>2, <2>5, <2>6, <2>8
  <1> QED BY <1>4, <1>8, <1>9 DEF Inv

\* Pages that have the freelist of the cache and part of its tree are in order.
LEMMA MixedAcc ==
  ASSUME NEW w \in Handle, Acc(Header(w), w.mem), NEW m \in Pages,
         \A t \in ToSet(Chain(w.head, w.mem)) : m[t] = w.mem[t],
         m[Root].kind = "node", m[Root].kids \subseteq w.mem[Root].kids,
         \A c \in m[Root].kids : m[c].kind = "leaf"
  PROVE  Acc(Header(w), m) /\ Chain(w.head, m) = Chain(w.head, w.mem)
  <1> DEFINE c == Chain(w.head, w.mem)
             h == Header(w)
  <1>1. w.mem \in Pages /\ w.head \in PageNo /\ h.head = w.head
    BY HandleIs, HeaderIs
  <1>2. Chain(w.head, m) = c
    <2>1. \A t \in ToSet(c) : Alike(m[t], w.mem[t])
      BY DEF Alike
    <2> QED BY <1>1, <2>1, ChainFrame
  <1>3. /\ Links(c, 0, w.head, w.mem) /\ Books(ToSet(c), w.mem) /\ Tall(h.n, w.mem)
        /\ Free(ToSet(c), w.mem) \subseteq 1..h.n-1 /\ Free(ToSet(c), w.mem) \cap Tree(w.mem) = {}
        /\ h.count = Cardinality(Free(ToSet(c), w.mem))
        /\ (Acc(h, m) <=> AccBy(h, m, c))
    BY <1>1, <1>2 DEF Acc, AccBy
  <1>4. \A t \in ToSet(c) : m[t] = w.mem[t]
    OBVIOUS
  <1> HIDE DEF c, h
  <1>5. Links(c, 0, w.head, m)
    <2>1. \A t \in ToSet(c) : Alike(m[t], w.mem[t])
      BY <1>4 DEF Alike
    <2> QED BY <1>3, <2>1, LinksFrame
  <1>6. Books(ToSet(c), m)
    BY <1>3, <1>4 DEF Books
  <1>7. Free(ToSet(c), m) = Free(ToSet(c), w.mem)
    BY <1>4 DEF Free
  <1>8. Tall(h.n, m) /\ Tree(m) \subseteq Tree(w.mem)
    BY <1>3 DEF Tall, Tree
  <1>9. AccBy(h, m, c)
    BY <1>1, <1>3, <1>5, <1>6, <1>7, <1>8 DEF AccBy
  <1> QED BY <1>2, <1>3, <1>9 DEF c, h

\* The header: from here on the new page count is durable.
LEMMA WriteHeaderInv ==
  ASSUME Inv, WriteHeader
  PROVE  Inv'
  <1>0. TypeOK /\ Marks /\ Phases /\ Sizes /\ Spans /\ Fresh /\ Cached /\ OnDisk /\ Based /\ Growing
    BY DEF Inv
  <1> DEFINE v == pager'
             h == Header(pager)
  <1>1. /\ mode = "delete" /\ stage = "new" /\ NewPages = {} /\ hdr' = h /\ v = [pager EXCEPT !.zero = h]
        /\ stage' = "old" /\ mode' = mode /\ todo' = todo /\ auto' = auto /\ committed' = committed
        /\ file' = file /\ len' = len /\ risk' = risk /\ scars' = scars /\ saved' = saved
    BY DEF WriteHeader, Flushing
  <1>2. /\ pager \in Handle /\ pager.mem \in Pages /\ h \in Headers /\ h.n = pager.n /\ h.head = pager.head
        /\ h.count = pager.count /\ pager.n \in Nat /\ Page \subseteq Nat /\ len \in Nat
        /\ committed \in Nat /\ hdr.n \in Nat /\ file \in Pages /\ hdr \in Headers /\ todo \subseteq Page
    BY <1>0, Types, HeaderIs
  <1> HIDE DEF v, h
  <1>3. /\ v \in Handle /\ v.txn = pager.txn /\ v.undo = pager.undo /\ v.n = pager.n /\ v.head = pager.head
        /\ v.count = pager.count /\ v.zero = h /\ v.mem = pager.mem /\ v.dirty = pager.dirty
        /\ v.map = pager.map /\ v.cut = pager.cut
    BY <1>1, <1>2 DEF Handle
  <1>4. (InTxn(v) <=> InTxn(pager)) /\ Header(v) = h
    BY <1>3 DEF InTxn, Header, h
  <1>5. Unwritten' = todo /\ Unwritten = todo /\ Past' = Past /\ (Benign' <=> Benign)
    BY <1>1 DEF Unwritten, Past, Benign
  <1>6. \A p \in todo : p < committed
    BY <1>1, <1>2 DEF NewPages
  <1>7. TypeOK'
    BY <1>0, <1>1, <1>2, <1>3 DEF TypeOK, v
  <1>8. Marks'
    BY <1>0, <1>1 DEF Marks
  <1>9. Phases'
    BY <1>0, <1>1, <1>3, <1>4 DEF Phases, v
  <1>10. Sizes'
    <2>1. ASSUME scars \cap {"regrown", "trimmed", "failed_commit"} = {} PROVE len >= pager.n
      <3>1. /\ committed = hdr.n /\ len >= hdr.n
            /\ \A p \in committed..pager.n-1 : p < len \/ p \in todo
        BY <1>0, <1>1, <1>5, <2>1 DEF Spans, Sizes, Unbroken
      <3>2. CASE pager.n <= committed
        BY <1>2, <3>1, <3>2
      <3>3. CASE ~(pager.n <= committed)
        <4>1. pager.n - 1 \in committed..pager.n-1 /\ ~(pager.n - 1 < committed)
          BY <1>2, <3>3
        <4>2. pager.n - 1 < len
          BY <1>6, <3>1, <4>1
        <4> QED BY <1>2, <4>2
      <3> QED BY <3>2, <3>3
    <2>2. /\ Root < pager.n /\ ~InTxn(pager)
          /\ (pager.cut # 0 /\ pager.cut < pager.n => "regrown" \in Past)
      BY <1>0, <1>1 DEF Sizes, Phases
    <2> QED BY <1>1, <1>2, <1>3, <1>4, <1>5, <1>6, <2>1, <2>2 DEF Sizes, v
  <1>11. Spans'
    BY <1>1 DEF Spans
  <1>12. Fresh'
    <2>1. SUFFICES ASSUME scars \cap {"regrown", "failed_commit"} = {}, NEW p \in Page, p < pager.n,
                          p \notin todo, "regrown" \notin risk \/ (InTxn(pager) /\ p < pager.txn.n)
                   PROVE  pager.mem[p] \in {Stored(pager, p), Blank}
      BY <1>1, <1>3, <1>4, <1>5 DEF Fresh, Stored, v
    <2> QED BY <1>0, <1>1, <1>5, <2>1 DEF Fresh
  <1>13. Cached'
    <2>1. Benign /\ "unlinked" \notin risk => Good(h, pager.mem)
      BY <1>0, <1>1 DEF Cached, h
    <2> QED BY <1>1, <1>3, <1>4, <1>5, <2>1 DEF Cached, Good, v
  <1>14. ASSUME Benign, risk \subseteq {"grown"}
         PROVE  /\ pager.head = hdr.head /\ pager.count = hdr.count
                /\ \A t \in ToSet(Chain(hdr.head, file)) : pager.mem[t] = file[t]
                /\ file[Root].kids \subseteq pager.mem[Root].kids
                /\ \A c \in pager.mem[Root].kids : c < committed => file[c].kind = "leaf"
    BY <1>0, <1>1, <1>14 DEF Growing, Growth, Kids, FileKids
  <1>15. OnDisk'
    <2>1. SUFFICES ASSUME Benign, risk \subseteq {"grown"} PROVE Acc(h, file)
      BY <1>1, <1>5 DEF OnDisk
    <2>2. Acc(hdr, file)
      BY <1>0, <1>1, <2>1 DEF OnDisk
    <2>3. Acc(h, pager.mem)
      BY <1>0, <1>1, <2>1 DEF Cached, Good, h
    <2>4. Chain(pager.head, pager.mem) = Chain(hdr.head, file)
      <3>1. \A t \in ToSet(Chain(hdr.head, file)) : Alike(pager.mem[t], file[t])
        BY <1>14, <2>1 DEF Alike
      <3> QED BY <1>2, <1>14, <2>1, <3>1, ChainFrame, HeadersAre
    <2>5. \A t \in ToSet(Chain(pager.head, pager.mem)) : file[t] = pager.mem[t]
      BY <1>14, <2>1, <2>4
    <2>6. file[Root].kind = "node" /\ \A c \in file[Root].kids : file[c].kind = "leaf"
      BY <2>2 DEF Acc, AccBy, Tall
    <2> QED BY <1>2, <1>14, <2>1, <2>3, <2>5, <2>6, MixedAcc DEF h
  <1>16. Based'
    BY <1>1 DEF Based
  <1>17. Growing'
    BY <1>1, <1>2, <1>3, <1>5, <1>14 DEF Growing, Growth, Kids, FileKids, v
  <1> QED BY <1>7, <1>8, <1>9, <1>10, <1>11, <1>12, <1>13, <1>15, <1>16, <1>17 DEF Inv

\* The last phase: pages that the old header counted already.
LEMMA WriteOldInv ==
  ASSUME Inv, WriteOld
  PROVE  Inv'
  <1>0. TypeOK /\ Marks /\ Phases /\ Sizes /\ Fresh /\ Cached /\ OnDisk /\ Growing
    BY DEF Inv
  <1> DEFINE p == Max(todo)
  <1>1. Flushing /\ stage = "old" /\ todo # {} /\ WritePage(p) /\ stage' = stage
    BY DEF WriteOld
  <1>2. mode = "delete"
    BY <1>1 DEF Flushing
  <1>3. p \in todo
    <2>1. todo \subseteq 0..MaxPages /\ MaxPages \in Nat
      BY <1>0, Types DEF Page
    <2> QED BY <1>1, <2>1, MaxIs
  <1> HIDE DEF p
  <1>4. TypeOK' /\ Marks' /\ Phases' /\ Sizes' /\ Spans' /\ Fresh' /\ Cached' /\ Based'
    BY <1>1, <1>3, WriteKeeps
  <1>5. /\ p \in Page /\ file' \in Pages /\ file'[p] = pager.mem[p]
        /\ \A q \in Page : q # p => file'[q] = file[q]
        /\ pager' = pager /\ mode' = mode /\ committed' = committed /\ hdr' = hdr
        /\ risk' = risk /\ scars' = scars
    BY <1>0, <1>1, <1>3, WritePageIs
  <1>6. (Benign' <=> Benign) /\ hdr = Header(pager)
    BY <1>0, <1>1, <1>5 DEF Benign, Sizes
  <1>7. ASSUME Benign, risk \subseteq {"grown"}
        PROVE  /\ Acc(hdr, file') /\ pager.head = hdr.head /\ pager.count = hdr.count
               /\ \A t \in ToSet(Chain(hdr.head, file')) : pager.mem[t] = file'[t]
               /\ file'[Root].kids \subseteq pager.mem[Root].kids
               /\ \A c \in pager.mem[Root].kids : c < committed => file'[c].kind = "leaf"
    <2>1. /\ pager.head = hdr.head /\ pager.count = hdr.count
          /\ \A t \in ToSet(Chain(hdr.head, file)) : pager.mem[t] = file[t]
          /\ file[Root].kids \subseteq pager.mem[Root].kids
          /\ \A c \in pager.mem[Root].kids : c < committed => file[c].kind = "leaf"
      BY <1>0, <1>1, <1>2, <1>7 DEF Growing, Growth, Kids, FileKids
    <2>2. Acc(hdr, file) /\ Acc(hdr, pager.mem)
      BY <1>0, <1>1, <1>2, <1>6, <1>7 DEF OnDisk, Cached, Good
    <2>3. /\ file \in Pages /\ pager.mem \in Pages /\ hdr \in Headers /\ pager \in Handle /\ hdr.n = pager.n
          /\ committed \in Nat /\ Page \subseteq Nat
      BY <1>0, <1>6, Types, HeaderIs
    <2>4. Chain(hdr.head, pager.mem) = Chain(hdr.head, file)
      <3>1. \A t \in ToSet(Chain(hdr.head, file)) : Alike(pager.mem[t], file[t])
        BY <2>1 DEF Alike
      <3> QED BY <2>3, <3>1, ChainFrame, HeadersAre
    <2>5. /\ file[Root].kind = "node" /\ pager.mem[Root].kind = "node"
          /\ (\A c \in file[Root].kids : file[c].kind = "leaf")
          /\ \A c \in pager.mem[Root].kids : c < pager.n /\ pager.mem[c].kind = "leaf"
      BY <2>2, <2>3 DEF Acc, AccBy, Tall
    <2>6. pager.mem[Root].kids \subseteq Page /\ Root \in Page
      BY <2>2, <2>3, AccReach, PageIs
    <2>7. \A t \in ToSet(Chain(hdr.head, pager.mem)) : t \in Page
      BY <2>3, ChainPages, HeadersAre
    <2>8. \A t \in ToSet(Chain(pager.head, pager.mem)) : file'[t] = pager.mem[t]
      BY <1>5, <2>1, <2>4, <2>7
    <2>9. ASSUME NEW c \in pager.mem[Root].kids, c < committed PROVE file'[c].kind = "leaf"
      BY <1>5, <2>1, <2>5, <2>6, <2>9
    <2>10. ASSUME NEW c \in pager.mem[Root].kids, ~(c < committed) PROVE file[c].kind = "leaf"
      <3>1. c \notin todo /\ c \in Page /\ c < pager.n
        BY <1>0, <1>1, <2>5, <2>6, <2>10 DEF Sizes
      <3>2. c \notin Unwritten /\ "regrown" \notin risk /\ scars \cap {"regrown", "failed_commit"} = {}
        BY <1>0, <1>1, <1>7, <3>1, BenignIs DEF Unwritten
      <3>3. pager.mem[c] \in {Stored(pager, c), Blank}
        BY <1>0, <1>1, <3>1, <3>2 DEF Fresh
      <3>4. Stored(pager, c) = file[c]
        BY <1>0, <1>2, <3>1 DEF Phases, Stored
      <3>5. Blank.kind = "blank" /\ pager.mem[c].kind = "leaf"
        BY <2>5 DEF Blank
      <3> QED BY <3>3, <3>4, <3>5
    <2>11. \A c \in pager.mem[Root].kids : c # p => (~(c < committed) => file'[c].kind = "leaf")
      BY <1>5, <2>6, <2>10
    <2>12. p < committed
      BY <1>0, <1>1, <1>3 DEF Sizes
    <2>13. \A c \in pager.mem[Root].kids : file'[c].kind = "leaf"
      BY <2>9, <2>11, <2>12
    <2>14. file'[Root].kind = "node" /\ file'[Root].kids \subseteq pager.mem[Root].kids
      BY <1>5, <2>1, <2>5, <2>6
    <2>15. Acc(hdr, file') /\ Chain(hdr.head, file') = Chain(hdr.head, pager.mem)
      <3>1. \A c \in file'[Root].kids : file'[c].kind = "leaf"
        BY <2>13, <2>14
      <3>2. Acc(Header(pager), file') /\ Chain(pager.head, file') = Chain(pager.head, pager.mem)
        BY <1>5, <1>6, <2>2, <2>3, <2>8, <2>14, <3>1, MixedAcc
      <3> QED BY <1>6, <2>1, <3>2
    <2> QED BY <2>1, <2>8, <2>9, <2>14, <2>15
  <1>8. OnDisk'
    BY <1>1, <1>2, <1>5, <1>6, <1>7 DEF OnDisk
  <1>9. Growing'
    BY <1>5, <1>6, <1>7 DEF Growing, Growth, Kids, FileKids
  <1> QED BY <1>4, <1>8, <1>9 DEF Inv

\* Pages that hold what the cache holds below the page count hold its database.
LEMMA FlushedView ==
  ASSUME NEW w \in Handle, Acc(Header(w), w.mem), NEW m \in Pages,
         \A p \in Page : p < w.n /\ w.mem[p] # Blank => m[p] = w.mem[p]
  PROVE  /\ View(Header(w), m) = View(Header(w), w.mem) /\ Acc(Header(w), m)
         /\ Cover(Header(w), w.mem) => Cover(Header(w), m)
  <1>1. Header(w) \in Headers /\ Header(w).n = w.n /\ w.mem \in Pages
    BY HeaderIs, HandleIs
  <1>2. \A p \in Reach(Header(w), w.mem) : m[p] = w.mem[p]
    BY <1>1, AccReach
  <1> QED BY <1>1, <1>2, ViewFrame

\* The end of the flush: the file is cut.
LEMMA FinishIs ==
  ASSUME Inv, Finish
  PROVE  /\ pager' \in Handle /\ pager'.mem = pager.mem /\ Header(pager') = Header(pager)
         /\ pager'.n = pager.n /\ pager'.cut = 0 /\ pager'.dirty = {} /\ ~InTxn(pager')
         /\ pager'.zero = pager.zero /\ pager'.map = pager.map
         /\ len' \in 1..MaxPages /\ len' \in Nat /\ file' = Trimmed(file, len')
         /\ pager.cut = 0 \/ pager.cut >= pager.n => len' = len \/ len' >= pager.n
         /\ pager.cut = 0 \/ pager.cut >= pager.n => (len >= pager.n => len' >= pager.n)
  <1>1. TypeOK /\ Phases /\ stage = "old"
    BY DEF Inv, Finish
  <1>2. /\ pager \in Handle /\ len \in 1..MaxPages /\ len \in Nat /\ MaxPages \in Nat /\ pager.cut \in Nat
        /\ pager.n \in Nat
    BY <1>1, Types
  <1> DEFINE v == pager'
  <1>3. v = [pager EXCEPT !.dirty = {}, !.cut = 0]
    BY DEF Finish
  <1> HIDE DEF v
  <1>4. /\ v \in Handle /\ v.txn = pager.txn /\ v.n = pager.n /\ v.head = pager.head
        /\ v.count = pager.count /\ v.zero = pager.zero /\ v.mem = pager.mem /\ v.dirty = {}
        /\ v.map = pager.map /\ v.cut = 0
    <2>1. /\ v.txn = pager.txn /\ v.n = pager.n /\ v.head = pager.head /\ v.undo = pager.undo
          /\ v.count = pager.count /\ v.zero = pager.zero /\ v.mem = pager.mem /\ v.dirty = {}
          /\ v.map = pager.map /\ v.cut = 0
      BY <1>2, <1>3 DEF Handle
    <2>2. 0 \in 0..MaxPages
      BY <1>2
    <2>3. v \in Handle
      BY <1>2, <1>3, <2>2 DEF Handle
    <2> QED BY <2>1, <2>3
  <1>5. Header(v) = Header(pager) /\ ~InTxn(v)
    BY <1>1, <1>4 DEF Header, InTxn, Phases
  <1>6. len' = (IF pager.cut = 0 THEN len ELSE Min({len, pager.cut})) /\ file' = Trimmed(file, len')
    BY DEF Finish
  <1>7. len' = IF pager.cut = 0 \/ len <= pager.cut THEN len ELSE pager.cut
    BY <1>2, <1>6, MinTwo
  <1>8. len' \in 1..MaxPages /\ len' \in Nat
    BY <1>2, <1>7
  <1>9. pager.cut = 0 \/ pager.cut >= pager.n => len' = len \/ len' >= pager.n
    BY <1>2, <1>7
  <1>10. pager.cut = 0 \/ pager.cut >= pager.n => (len >= pager.n => len' >= pager.n)
    BY <1>2, <1>7
  <1> QED BY <1>4, <1>5, <1>6, <1>8, <1>9, <1>10 DEF v

\* The end of the flush keeps the invariant.
LEMMA FinishInv ==
  ASSUME Inv, Finish
  PROVE  Inv'
  <1>0. TypeOK /\ Marks /\ Phases /\ Sizes /\ Fresh /\ Cached
    BY DEF Inv
  <1> DEFINE v == pager'
             h == Header(pager)
  <1>1. /\ mode = "delete" /\ stage = "old" /\ todo = {} /\ committed' = pager.n /\ stage' = "idle"
        /\ auto' = FALSE /\ risk' = {} /\ scars' = scars \cup (risk \cap {"regrown", "unlinked"})
        /\ saved' = Live(pager) /\ mode' = mode /\ todo' = todo /\ hdr' = hdr
    BY DEF Finish, Flushing
  <1>2. /\ v \in Handle /\ v.mem = pager.mem /\ Header(v) = h /\ v.n = pager.n /\ v.cut = 0
        /\ v.dirty = {} /\ ~InTxn(v) /\ v.zero = pager.zero /\ v.map = pager.map
    BY FinishIs
  <1>3. len' \in 1..MaxPages /\ len' \in Nat /\ file' = Trimmed(file, len')
    BY FinishIs
  <1>4. /\ pager \in Handle /\ pager.mem \in Pages /\ file \in Pages /\ hdr \in Headers /\ h \in Headers
        /\ h.n = pager.n /\ pager.n \in 1..MaxPages /\ pager.n \in Nat /\ Page \subseteq Nat /\ pager.cut \in Nat /\ len \in Nat
    BY <1>0, Types, HeaderIs
  <1>5. hdr = h
    BY <1>0, <1>1 DEF Sizes, h
  <1>6. Unwritten' = {} /\ Unwritten = {} /\ scars \subseteq scars'
    BY <1>1, <1>2 DEF Unwritten, v
  <1>7. (Benign' => Benign /\ risk \cap {"regrown", "unlinked"} = {}) /\ ("torn" \in scars' <=> "torn" \in scars)
    <2>1. Benign' => Benign
      BY <1>6, BenignBack
    <2>2. Benign' => risk \cap {"regrown", "unlinked"} = {}
      BY <1>1 DEF Benign
    <2> QED BY <1>1, <2>1, <2>2
  <1>8. "regrown" \notin scars' => pager.cut = 0 \/ pager.cut >= pager.n
    BY <1>0, <1>1, <1>4 DEF Sizes, Past
  <1> HIDE DEF v, h
  <1>9. file' \in Pages /\ \A p \in Page : p >= len' => file'[p] = Blank
    BY <1>3, <1>4, TrimmedIs
  <1>10. ASSUME "regrown" \notin scars', NEW p \in Page, p < pager.n PROVE file'[p] = file[p]
    <2>1. len' = len \/ len' >= pager.n
      BY <1>8, <1>10, FinishIs
    <2> QED BY <1>0, <1>3, <1>4, <1>10, <2>1, TrimKeeps
  <1>11. ASSUME scars' \cap {"regrown", "failed_commit"} = {}, NEW p \in Page, p < pager.n
         PROVE  pager.mem[p] \in {file'[p], Blank}
    <2>1. scars \cap {"regrown", "failed_commit"} = {} /\ "regrown" \notin risk
      BY <1>1, <1>11
    <2>2. pager.mem[p] \in {Stored(pager, p), Blank}
      BY <1>0, <1>1, <1>6, <1>11, <2>1 DEF Fresh
    <2>3. Stored(pager, p) = file[p]
      BY <1>0, <1>1 DEF Phases, Stored
    <2> QED BY <1>10, <1>11, <2>2, <2>3
  <1>12. TypeOK'
    <2>1. v.cut <= v.n /\ todo' \subseteq v.dirty
      BY <1>1, <1>2, <1>4
    <2>2. /\ file' \in [Page -> Content] /\ hdr' \in Headers /\ committed' \in 1..MaxPages
          /\ stage' \in {"idle", "new", "old", "killed"}
      BY <1>1, <1>4, <1>9 DEF Pages
    <2>3. auto' \in BOOLEAN
      BY <1>1
    <2> QED BY <1>2, <1>3, <1>9, <2>1, <2>2, <2>3 DEF TypeOK, v
  <1>13. Marks'
    BY <1>0, <1>1 DEF Marks
  <1>14. Phases'
    BY <1>0, <1>1, <1>2 DEF Phases, v
  <1>15. Sizes'
    <2>1. ASSUME scars' \cap {"regrown", "trimmed", "failed_commit"} = {} PROVE len' >= hdr.n
      <3>1. len >= pager.n
        BY <1>0, <1>4, <1>5, <1>6, <2>1 DEF Sizes
      <3>2. pager.cut = 0 \/ pager.cut >= pager.n
        BY <1>8, <2>1
      <3> QED BY <1>4, <1>5, <3>1, <3>2, FinishIs
    <2>2. Root < pager.n /\ Root < hdr.n /\ Root < pager.zero.n
      BY <1>0 DEF Sizes
    <2> QED BY <1>1, <1>2, <2>1, <2>2 DEF Sizes, v
  <1>16. Spans'
    <2>1. \A p \in pager.n..pager.n-1 : FALSE
      BY <1>4
    <2>2. pager.n = hdr.n
      BY <1>4, <1>5
    <2> QED BY <1>1, <1>2, <2>1, <2>2 DEF Spans, v
  <1>17. Fresh'
    <2>1. ASSUME NEW p \in Page PROVE pager.map[p] = None
      BY <1>0, <1>1 DEF Phases
    <2>2. SUFFICES ASSUME scars' \cap {"regrown", "failed_commit"} = {}, NEW p \in Page, p < pager.n
                   PROVE  pager.mem[p] \in {file'[p], Blank}
      BY <1>2, <2>1 DEF Fresh, Stored, v
    <2> QED BY <1>11, <2>2
  <1>18. ASSUME Benign'
         PROVE  /\ Good(h, pager.mem) /\ View(h, file') = View(h, pager.mem) /\ Acc(h, file')
                /\ ("torn" \notin scars => Cover(h, file'))
    <2>1. Benign /\ "unlinked" \notin risk /\ scars' \cap {"regrown", "failed_commit"} = {}
      <3>1. Benign /\ "unlinked" \notin risk
        BY <1>7, <1>18
      <3>2. scars \cap {"regrown", "failed_commit"} = {}
        BY <1>0, <3>1, BenignIs
      <3> QED BY <1>1, <1>7, <1>18, <3>1, <3>2
    <2>2. Good(h, pager.mem)
      BY <1>0, <1>1, <2>1 DEF Cached, h
    <2>3. \A p \in Page : p < pager.n /\ pager.mem[p] # Blank => file'[p] = pager.mem[p]
      BY <1>11, <2>1
    <2>4. /\ View(h, file') = View(h, pager.mem) /\ Acc(h, file')
          /\ (Cover(h, pager.mem) => Cover(h, file'))
      BY <1>4, <1>9, <2>2, <2>3, FlushedView DEF Good, h
    <2> QED BY <2>2, <2>4 DEF Good
  <1>19. Cached'
    BY <1>1, <1>2, <1>7, <1>18 DEF Cached, Good, v
  <1>20. OnDisk'
    BY <1>1, <1>5, <1>7, <1>18 DEF OnDisk
  <1>21. Base' = View(h, pager.mem)
    BY <1>2 DEF Base, Live, v
  <1>22. Based'
    <2>1. saved' = View(h, pager.mem)
      BY <1>1 DEF Live, h
    <2> QED BY <1>1, <1>5, <1>18, <1>21, <2>1 DEF Based
  <1>23. Growing'
    <2>1. SUFFICES ASSUME Benign'
                   PROVE  /\ v.head = hdr.head /\ v.count = hdr.count
                          /\ \A t \in ToSet(Chain(hdr.head, file')) : v.mem[t] = file'[t]
                          /\ file'[Root].kids \subseteq v.mem[Root].kids
                          /\ \A c \in v.mem[Root].kids : file'[c].kind = "leaf"
      BY <1>1 DEF Growing, Growth, Kids, FileKids, v
    <2>2. View(Header(v), v.mem) = View(hdr, file') /\ Acc(hdr, file')
      BY <1>2, <1>5, <1>18, <2>1
    <2> QED BY <1>2, <1>4, <1>9, <2>2, SameDb
  <1> QED BY <1>12, <1>13, <1>14, <1>15, <1>16, <1>17, <1>19, <1>20, <1>22, <1>23 DEF Inv

\* The commit in WAL mode.
LEMMA AppendFramesInv ==
  ASSUME Inv, AppendFrames
  PROVE  Inv'
  <1>0. TypeOK /\ Marks /\ Phases /\ Sizes /\ Fresh /\ Cached
    BY DEF Inv
  <1> DEFINE v == pager'
             h == Header(pager)
             mm == [p \in Page |-> IF p \in todo THEN pager.mem[p] ELSE pager.map[p]]
  <1>1. /\ mode = "wal" /\ stage = "new" /\ v = [pager EXCEPT !.dirty = {}, !.zero = h, !.map = mm]
        /\ committed' = pager.n /\ stage' = "idle" /\ todo' = {} /\ auto' = FALSE /\ risk' = {}
        /\ scars' = scars \cup (risk \cap {"regrown", "unlinked"})
        /\ saved' = Live(pager) /\ mode' = mode /\ hdr' = hdr /\ file' = file /\ len' = len
    BY DEF AppendFrames
  <1>2. /\ pager \in Handle /\ pager.mem \in Pages /\ file \in Pages /\ h \in Headers /\ h.n = pager.n
        /\ pager.n \in 1..MaxPages /\ pager.n \in Nat
    BY <1>0, Types, HeaderIs
  <1>3. mm \in [Page -> Content \cup {None}] /\ \A p \in Page : pager.mem[p] # None
    <2>1. pager.map \in Undo
      BY <1>2, HandleIs
    <2> QED BY <1>2, <2>1, ContentIs DEF Undo, Pages
  <1>4. \A p \in Page : mm[p] = IF p \in todo THEN pager.mem[p] ELSE pager.map[p]
    OBVIOUS
  <1> HIDE DEF v, h, mm
  <1>5. /\ v \in Handle /\ v.txn = pager.txn /\ v.n = pager.n /\ v.head = pager.head
        /\ v.count = pager.count /\ v.zero = h /\ v.mem = pager.mem /\ v.dirty = {}
        /\ v.map = mm /\ v.cut = pager.cut
    BY <1>1, <1>2, <1>3 DEF Handle
  <1>6. Header(v) = h /\ ~InTxn(v) /\ ~InTxn(pager)
    BY <1>0, <1>1, <1>5 DEF Header, InTxn, Phases, h
  <1>7. Unwritten' = {} /\ Unwritten = todo /\ scars \subseteq scars'
    BY <1>1, <1>5 DEF Unwritten, v
  <1>8. (Benign' => Benign /\ risk \cap {"regrown", "unlinked"} = {}) /\ ("torn" \in scars' <=> "torn" \in scars)
    <2>1. Benign' => Benign
      BY <1>7, BenignBack
    <2>2. Benign' => risk \cap {"regrown", "unlinked"} = {}
      BY <1>1 DEF Benign
    <2> QED BY <1>1, <2>1, <2>2
  <1>9. \A p \in Page : StoredPages'[p] = IF p \in todo THEN pager.mem[p] ELSE Stored(pager, p)
    BY <1>1, <1>3, <1>4, <1>5 DEF StoredPages, Stored, v
  <1>10. ASSUME scars' \cap {"regrown", "failed_commit"} = {}, NEW p \in Page, p < pager.n
         PROVE  pager.mem[p] \in {StoredPages'[p], Blank}
    <2>1. scars \cap {"regrown", "failed_commit"} = {} /\ "regrown" \notin risk
      BY <1>1, <1>10
    <2>2. p \in todo \/ pager.mem[p] \in {Stored(pager, p), Blank}
      BY <1>0, <1>1, <1>7, <1>10, <2>1 DEF Fresh
    <2> QED BY <1>9, <2>2
  <1>11. TypeOK'
    <2>1. v.cut <= v.n
      BY <1>0, <1>5 DEF TypeOK
    <2> QED BY <1>0, <1>1, <1>2, <1>5, <2>1 DEF TypeOK, v
  <1>12. Marks'
    BY <1>0, <1>1 DEF Marks
  <1>13. Phases'
    BY <1>0, <1>1, <1>5, <1>6 DEF Phases, v
  <1>14. Sizes'
    <2>1. pager.cut # 0 /\ pager.cut < pager.n => "regrown" \in Past'
      BY <1>0, <1>1 DEF Sizes, Past
    <2>2. Root < pager.n /\ Root < hdr.n
      BY <1>0 DEF Sizes
    <2>3. scars' \cap {"regrown", "trimmed", "failed_commit"} = {} => len >= hdr.n
      BY <1>0, <1>7 DEF Sizes
    <2> QED BY <1>1, <1>2, <1>5, <1>6, <2>1, <2>2, <2>3 DEF Sizes, v
  <1>15. Spans'
    BY <1>1 DEF Spans
  <1>16. Fresh'
    <2>1. \A p \in Page : StoredPages'[p] = IF v.map[p] # None THEN v.map[p] ELSE file'[p]
      BY DEF StoredPages, Stored, v
    <2>2. SUFFICES ASSUME scars' \cap {"regrown", "failed_commit"} = {}, NEW p \in Page, p < pager.n
                   PROVE  pager.mem[p] \in {StoredPages'[p], Blank}
      BY <1>5, <2>1 DEF Fresh, Stored, v
    <2> QED BY <1>10, <2>2
  <1>17. ASSUME Benign'
         PROVE  Good(h, pager.mem) /\ View(h, StoredPages') = View(h, pager.mem)
    <2>1. Benign /\ "unlinked" \notin risk /\ scars' \cap {"regrown", "failed_commit"} = {}
      <3>1. Benign /\ "unlinked" \notin risk
        BY <1>8, <1>17
      <3>2. scars \cap {"regrown", "failed_commit"} = {}
        BY <1>0, <3>1, BenignIs
      <3> QED BY <1>1, <1>8, <1>17, <3>1, <3>2
    <2>2. Good(h, pager.mem)
      BY <1>0, <1>1, <2>1 DEF Cached, h
    <2>3. \A p \in Page : p < pager.n /\ pager.mem[p] # Blank => StoredPages'[p] = pager.mem[p]
      BY <1>10, <2>1
    <2>4. StoredPages' \in Pages
      BY <1>1, <1>2, <1>3, <1>5 DEF StoredPages, Stored, Pages, v
    <2>5. View(h, StoredPages') = View(h, pager.mem)
      BY <1>2, <2>2, <2>3, <2>4, FlushedView DEF Good, h
    <2> QED BY <2>2, <2>5
  <1>18. Cached'
    BY <1>1, <1>5, <1>6, <1>8, <1>17 DEF Cached, Good, v
  <1>19. OnDisk' /\ Growing'
    BY <1>1 DEF OnDisk, Growing
  <1>20. Base' = View(h, pager.mem)
    BY <1>5, <1>6 DEF Base, Live, v
  <1>21. Based'
    <2>1. saved' = View(h, pager.mem)
      BY <1>1 DEF Live, h
    <2>2. scars' \subseteq {"trimmed"} => Benign'
      BY DEF Benign
    <2> QED BY <1>1, <1>5, <1>17, <1>20, <2>1, <2>2 DEF Based, v
  <1> QED BY <1>11, <1>12, <1>13, <1>14, <1>15, <1>16, <1>18, <1>19, <1>21 DEF Inv

\* What a checkpoint leaves: the file is as long as the page count, and a frame
\* below the cut has given its page the bytes of the cache.
LEMMA CheckpointIs ==
  ASSUME Inv, Checkpoint
  PROVE  /\ pager' \in Handle /\ pager'.mem = pager.mem /\ Header(pager') = Header(pager)
         /\ pager'.n = pager.n /\ pager'.cut = 0 /\ pager'.dirty = pager.dirty
         /\ pager'.txn = pager.txn /\ pager'.undo = pager.undo /\ pager'.zero = pager.zero
         /\ (InTxn(pager') <=> InTxn(pager)) /\ Restored(pager') = Restored(pager)
         /\ \A p \in Page : pager'.map[p] = None
         /\ len' = pager.n /\ pager.zero.n <= pager.n
         /\ file' \in Pages
         /\ \A p \in Page : file'[p] = IF p >= pager.n THEN Blank
                                       ELSE IF p \in Folded THEN pager.mem[p] ELSE file[p]
  <1>1. TypeOK /\ Sizes /\ mode = "wal" /\ stage = "idle"
    BY DEF Inv, Checkpoint
  <1>2. /\ pager \in Handle /\ MaxPages \in Nat /\ pager.n \in Nat /\ pager.txn.n \in Nat /\ Page \subseteq Nat
        /\ file \in Pages /\ pager.mem \in Pages
    BY <1>1, Types
  <1>3. pager.zero \in Headers /\ pager.zero.n \in Nat
    BY <1>2, HandleIs, HeadersAre
  <1> DEFINE v == pager'
             u == [p \in Page |-> None]
             ff == [p \in Page |-> IF p \in Folded THEN pager.mem[p] ELSE file[p]]
  <1>4. v = [pager EXCEPT !.cut = 0, !.map = u] /\ file' = Trimmed(ff, len')
    BY DEF Checkpoint
  <1>5. u \in [Page -> Content \cup {None}] /\ \A p \in Page : u[p] = None
    OBVIOUS
  <1>6. ff \in Pages /\ \A p \in Page : ff[p] = IF p \in Folded THEN pager.mem[p] ELSE file[p]
    BY <1>2 DEF Pages
  <1> HIDE DEF v, u, ff
  <1>7. /\ v.txn = pager.txn /\ v.n = pager.n /\ v.head = pager.head /\ v.undo = pager.undo
        /\ v.count = pager.count /\ v.zero = pager.zero /\ v.mem = pager.mem /\ v.dirty = pager.dirty
        /\ v.map = u /\ v.cut = 0
    BY <1>2, <1>4 DEF Handle
  <1>8. v \in Handle
    <2>1. 0 \in 0..MaxPages
      BY <1>2
    <2> QED BY <1>2, <1>4, <1>5, <2>1 DEF Handle
  <1>9. Header(v) = Header(pager) /\ (InTxn(v) <=> InTxn(pager)) /\ Restored(v) = Restored(pager)
    BY <1>7 DEF Header, InTxn, Restored
  <1>10. pager.zero.n <= pager.n
    <2>1. CASE InTxn(pager)
      BY <1>1, <2>1 DEF Sizes
    <2>2. CASE ~InTxn(pager)
      <3>1. pager.zero = Header(pager)
        BY <1>1, <2>2 DEF Sizes
      <3>2. pager.zero.n = pager.n
        BY <1>2, <3>1, HeaderIs
      <3> QED BY <1>2, <3>2
    <2> QED BY <2>1, <2>2
  <1>11. len' = pager.n
    <2> DEFINE k == IF pager.cut = 0 THEN pager.zero.n ELSE 0
    <2>1. len' = Max({pager.n, k})
      BY DEF Checkpoint
    <2>2. k \in Nat /\ pager.n >= k
      BY <1>2, <1>3, <1>10
    <2> HIDE DEF k
    <2> QED BY <1>2, <2>1, <2>2, MaxTwo
  <1>12. file' \in Pages /\ \A p \in Page : file'[p] = IF p < pager.n THEN ff[p] ELSE Blank
    BY <1>4, <1>6, <1>11, TrimmedIs
  <1>13. \A p \in Page : p >= pager.n <=> ~(p < pager.n)
    BY <1>2
  <1>14. \A p \in Page : file'[p] = IF p >= pager.n THEN Blank
                                    ELSE IF p \in Folded THEN pager.mem[p] ELSE file[p]
    BY <1>6, <1>12, <1>13
  <1> QED BY <1>5, <1>7, <1>8, <1>9, <1>10, <1>11, <1>12, <1>14 DEF v

\* A frame that a checkpoint leaves out lies at or above the cut, where nothing
\* that was there at the last commit lies.
LEMMA LeftOut ==
  ASSUME Inv, Checkpoint, "regrown" \notin scars, NEW p \in Page, p \notin Folded, pager.map[p] # None
  PROVE  /\ p >= pager.zero.n
         /\ p < pager.n => "regrown" \in risk /\ ~(InTxn(pager) /\ p < pager.txn.n)
  <1>1. TypeOK /\ Sizes /\ Phases /\ mode = "wal" /\ stage = "idle"
    BY DEF Inv, Checkpoint
  <1>2. pager.cut # 0 /\ ~(p < pager.cut)
    BY DEF Folded
  <1>3. /\ pager.n \in Nat /\ pager.txn.n \in Nat /\ pager.cut \in Nat /\ p \in Nat /\ pager \in Handle
    BY <1>1, Types
  <1>4. ASSUME InTxn(pager) PROVE pager.cut >= pager.txn.n
    BY <1>1, <1>2, <1>4 DEF Sizes
  <1>5. ASSUME p < pager.n PROVE "regrown" \in risk
    <2>1. pager.cut < pager.n
      BY <1>2, <1>3, <1>5
    <2> QED BY <1>1, <1>2, <2>1 DEF Sizes, Past
  <1>6. ~(InTxn(pager) /\ p < pager.txn.n)
    BY <1>2, <1>3, <1>4
  <1>7. p >= pager.zero.n
    <2>1. CASE InTxn(pager)
      <3>1. pager.zero = pager.txn
        BY <1>1, <2>1 DEF Sizes
      <3> QED BY <1>3, <1>6, <2>1, <3>1
    <2>2. CASE ~InTxn(pager)
      <3>1. pager.zero = Header(pager) /\ risk = {}
        BY <1>1, <2>2 DEF Sizes, Phases
      <3>2. pager.zero.n = pager.n
        BY <1>3, <3>1, HeaderIs
      <3>3. ~(p < pager.n)
        BY <1>5, <3>1
      <3> QED BY <1>3, <3>2, <3>3
    <2> QED BY <2>1, <2>2
  <1> QED BY <1>5, <1>6, <1>7

\* The checkpoint keeps what the log and the file hold together.
LEMMA FoldKeeps ==
  ASSUME Inv, Checkpoint, scars' \subseteq {"trimmed"}
  PROVE  View(pager.zero, file') = saved
  <1>1. TypeOK /\ Sizes /\ mode = "wal" /\ stage = "idle" /\ scars' = scars \cup EarlyFold
    BY DEF Inv, Checkpoint
  <1>2. scars \subseteq {"trimmed"} /\ EarlyFold \subseteq {"trimmed"} /\ Benign
    BY <1>1 DEF Benign
  <1>3. ASSUME InTxn(pager), NEW p \in Folded PROVE pager.mem[p] = pager.map[p]
    BY <1>2, <1>3 DEF EarlyFold
  <1>4. /\ pager.zero \in Headers /\ Base = saved /\ View(pager.zero, StoredPages) = saved
        /\ \A p \in Reach(pager.zero, StoredPages) : p \in Page /\ p < pager.zero.n
    BY <1>1, <1>2, ZeroReach
  <1>5. /\ file' \in Pages /\ pager.zero.n <= pager.n
        /\ \A p \in Page : file'[p] = IF p >= pager.n THEN Blank
                                      ELSE IF p \in Folded THEN pager.mem[p] ELSE file[p]
    BY CheckpointIs
  <1>6. /\ StoredPages \in Pages /\ pager.n \in Nat /\ pager.zero.n \in Nat /\ Page \subseteq Nat
    <2>1. pager.zero.n \in 1..MaxPages
      BY <1>4, HeadersAre
    <2> QED BY <1>1, <2>1, Types, StoredIs
  <1>7. ASSUME NEW p \in Reach(pager.zero, StoredPages) PROVE file'[p] = StoredPages[p]
    <2>1. p \in Page /\ p < pager.zero.n /\ ~(p >= pager.n) /\ ~(p >= pager.zero.n)
      <3>1. p \in Page /\ p < pager.zero.n
        BY <1>4, <1>7
      <3>2. p \in Nat
        BY <1>6, <3>1
      <3> QED BY <1>5, <1>6, <3>1, <3>2
    <2>2. StoredPages[p] = IF pager.map[p] # None THEN pager.map[p] ELSE file[p]
      BY <2>1 DEF StoredPages, Stored
    <2>3. CASE p \in Folded /\ InTxn(pager)
      <3>1. pager.map[p] # None /\ pager.mem[p] = pager.map[p]
        BY <1>3, <2>3 DEF Folded
      <3> QED BY <1>5, <2>1, <2>2, <2>3, <3>1
    <2>4. CASE p \in Folded /\ ~InTxn(pager)
      <3>1. View(pager.zero, StoredPages) = View(Header(pager), pager.mem)
        BY <1>4, <2>4 DEF Base, Live
      <3>2. pager.mem[p] = StoredPages[p]
        BY <1>7, <3>1, ViewSame
      <3> QED BY <1>5, <2>1, <2>4, <3>2
    <2>5. CASE p \notin Folded
      <3>1. "regrown" \notin scars
        BY <1>2
      <3>2. pager.map[p] = None
        BY <2>1, <2>5, <3>1, LeftOut
      <3> QED BY <1>5, <2>1, <2>2, <2>5, <3>2
    <2> QED BY <2>3, <2>4, <2>5
  <1>8. View(pager.zero, file') = View(pager.zero, StoredPages)
    BY <1>4, <1>5, <1>6, <1>7, ViewFrame
  <1> QED BY <1>4, <1>8

\* The checkpoint of the log.
LEMMA CheckpointInv ==
  ASSUME Inv, Checkpoint
  PROVE  Inv'
  <1>0. TypeOK /\ Marks /\ Phases /\ Sizes /\ Fresh /\ Cached /\ Based
    BY DEF Inv
  <1> DEFINE v == pager'
  <1>1. /\ mode = "wal" /\ stage = "idle" /\ hdr' = pager.zero /\ scars' = scars \cup EarlyFold
        /\ mode' = mode /\ stage' = stage /\ todo' = todo /\ auto' = auto /\ committed' = committed
        /\ risk' = risk /\ saved' = saved
    BY DEF Checkpoint
  <1>2. /\ v \in Handle /\ v.mem = pager.mem /\ Header(v) = Header(pager)
        /\ v.n = pager.n /\ v.cut = 0 /\ v.dirty = pager.dirty /\ v.txn = pager.txn /\ v.undo = pager.undo
        /\ v.zero = pager.zero /\ (InTxn(v) <=> InTxn(pager)) /\ Restored(v) = Restored(pager)
        /\ \A p \in Page : v.map[p] = None
    BY CheckpointIs
  <1>3. /\ len' = pager.n /\ pager.zero.n <= pager.n /\ file' \in Pages
        /\ \A p \in Page : file'[p] = IF p >= pager.n THEN Blank
                                      ELSE IF p \in Folded THEN pager.mem[p] ELSE file[p]
    BY CheckpointIs
  <1>4. EarlyFold \subseteq {"early_fold"} /\ scars \subseteq scars' /\ (Benign' => Benign)
    <2>1. EarlyFold \subseteq {"early_fold"}
      BY DEF EarlyFold
    <2> QED BY <1>1, <2>1, BenignBack
  <1>5. ("torn" \in scars' <=> "torn" \in scars) /\ ("regrown" \in scars' <=> "regrown" \in scars)
    BY <1>1, <1>4
  <1>6. /\ pager \in Handle /\ pager.n \in Nat /\ pager.n \in 1..MaxPages /\ Page \subseteq Nat /\ todo = {}
        /\ pager.zero \in Headers
    BY <1>0, <1>1, Types, HandleIs DEF Phases
  <1> HIDE DEF v
  <1>7. TypeOK'
    <2>1. v.cut <= v.n /\ todo' \subseteq v.dirty
      BY <1>1, <1>2, <1>6
    <2>2. file' \in [Page -> Content] /\ hdr' \in Headers /\ len' \in 1..MaxPages /\ committed' \in 1..MaxPages
      BY <1>0, <1>1, <1>3, <1>6 DEF Pages, TypeOK
    <2>3. auto' \in BOOLEAN /\ stage' \in {"idle", "new", "old", "killed"}
      BY <1>0, <1>1 DEF TypeOK
    <2>4. \A p \in Page : p >= len' => file'[p] = Blank
      BY <1>3
    <2> QED BY <1>2, <2>1, <2>2, <2>3, <2>4 DEF TypeOK, v
  <1>8. Marks'
    BY <1>0, <1>1, <1>4 DEF Marks
  <1>9. Phases'
    <2>1. Header(v) = Header(pager)
      BY <1>2
    <2> QED BY <1>0, <1>1, <1>2, <1>6, <2>1 DEF Phases, v
  <1>10. Sizes'
    <2>1. /\ Root < pager.n /\ Root < pager.zero.n
          /\ (InTxn(pager) => Root < pager.txn.n /\ pager.txn.n <= pager.n)
          /\ pager.zero = IF InTxn(pager) THEN pager.txn ELSE Header(pager)
      BY <1>0, <1>1 DEF Sizes
    <2>2. len' >= hdr'.n
      <3>1. pager.zero.n \in 1..MaxPages
        BY <1>6, HeadersAre
      <3> QED BY <1>1, <1>3, <1>6, <3>1
    <2> QED BY <1>1, <1>2, <2>1, <2>2 DEF Sizes, v
  <1>11. Spans' /\ OnDisk' /\ Growing'
    BY <1>1 DEF Spans, OnDisk, Growing
  <1>12. Fresh'
    <2>1. Unwritten' = pager.dirty /\ Unwritten = pager.dirty
      BY <1>1, <1>2 DEF Unwritten, v
    <2>2. SUFFICES ASSUME scars' \cap {"regrown", "failed_commit"} = {}, NEW p \in Page, p < pager.n,
                          p \notin pager.dirty,
                          "regrown" \notin risk \/ (InTxn(pager) /\ p < pager.txn.n)
                   PROVE  pager.mem[p] \in {file'[p], Blank}
      BY <1>1, <1>2, <2>1 DEF Fresh, Stored, v
    <2>3. ~(p >= pager.n)
      BY <1>6, <2>2
    <2>4. CASE p \in Folded
      BY <1>3, <2>3, <2>4
    <2>5. CASE p \notin Folded
      <3>1. scars \cap {"regrown", "failed_commit"} = {}
        BY <1>4, <2>2
      <3>2. pager.map[p] = None
        BY <2>2, <2>5, <3>1, LeftOut
      <3>3. pager.mem[p] \in {Stored(pager, p), Blank}
        BY <1>0, <1>1, <2>1, <2>2, <3>1 DEF Fresh
      <3>4. Stored(pager, p) = file[p]
        BY <3>2 DEF Stored
      <3> QED BY <1>3, <2>3, <2>5, <3>3, <3>4
    <2> QED BY <2>4, <2>5
  <1>13. Cached'
    <2>1. Benign /\ "unlinked" \notin risk => Good(Header(pager), pager.mem)
      BY <1>0, <1>1 DEF Cached
    <2>2. Benign /\ InTxn(pager) => Good(pager.txn, Restored(pager))
      BY <1>0, <1>1 DEF Cached
    <2> QED BY <1>1, <1>2, <1>4, <1>5, <2>1, <2>2 DEF Cached, Good, v
  <1>14. Based'
    <2>1. Base' = Base
      BY <1>2 DEF Base, Live, v
    <2>2. scars' \cap {"torn", "regrown", "unlinked"} = {} => Base = saved
      BY <1>0, <1>1, <1>4 DEF Based
    <2>3. StoredPages' = file'
      <3>1. \A p \in Page : Stored(pager, p)' = file'[p]
        BY <1>2 DEF Stored, v
      <3> QED BY <1>3, <3>1 DEF StoredPages, Pages
    <2>4. scars' \subseteq {"trimmed"} => View(pager.zero, file') = saved
      BY FoldKeeps
    <2> QED BY <1>1, <1>2, <2>1, <2>2, <2>3, <2>4 DEF Based, v
  <1> QED BY <1>7, <1>8, <1>9, <1>10, <1>11, <1>12, <1>13, <1>14 DEF Inv

-----------------------------------------------------------------------------
(* Faults. *)

\* A handle that is opened on a header and pages.
LEMMA OpenIs ==
  ASSUME NEW h \in Headers, NEW m \in Pages, NEW w, w = OpenPager(h, m)
  PROVE  /\ w \in Handle /\ Header(w) = h /\ w.n = h.n /\ w.zero = h /\ w.mem = m /\ w.dirty = {}
         /\ w.cut = 0 /\ ~InTxn(w) /\ \A p \in Page : w.map[p] = None
  <1> DEFINE u == [p \in Page |-> None]
  <1>1. h.n \in 1..MaxPages /\ h.head \in 0..MaxPages-1 /\ h.count \in Nat /\ h = [n |-> h.n, head |-> h.head, count |-> h.count]
    BY DEF Headers
  <1>2. u \in [Page -> Content \cup {None}] /\ \A p \in Page : u[p] = None
    OBVIOUS
  <1>3. 0 \in 0..MaxPages
    BY PageIs
  <1>4. w = [n |-> h.n, head |-> h.head, count |-> h.count, zero |-> h, mem |-> m,
             dirty |-> {}, map |-> u, cut |-> 0, txn |-> NoTxn, undo |-> u]
    BY DEF OpenPager
  <1> HIDE DEF u
  <1>5. /\ w.n = h.n /\ w.head = h.head /\ w.count = h.count /\ w.zero = h /\ w.mem = m /\ w.dirty = {}
        /\ w.cut = 0 /\ w.txn = NoTxn /\ w.map = u
    BY <1>4
  <1>6. w \in Handle
    BY <1>1, <1>2, <1>3, <1>4 DEF Handle, Pages
  <1>7. Header(w) = h
    BY <1>1, <1>5 DEF Header
  <1> QED BY <1>2, <1>5, <1>6, <1>7 DEF InTxn

\* A handle that was just opened on the file keeps the invariant, if the file
\* is in order as far as the history lets it.
LEMMA OpenInv ==
  ASSUME NEW h \in Headers, NEW m \in Pages, TypeOK', Marks', Root < hdr'.n, h.n = hdr'.n,
         mode' = "delete", stage' = "idle", todo' = {}, risk' = {}, hdr' \in Headers,
         pager' = OpenPager(h, m), file' = m, committed' = hdr'.n,
         scars' \cap {"regrown", "trimmed", "failed_commit"} = {} => len' >= hdr'.n,
         Benign' => h = hdr' /\ Acc(h, m) /\ ("torn" \notin scars' => Cover(h, m)),
         scars' \cap {"torn", "regrown", "unlinked"} = {} => View(h, m) = saved'
  PROVE  Inv'
  <1> DEFINE v == pager'
  <1>1. /\ v \in Handle /\ Header(v) = h /\ v.n = h.n /\ v.zero = h /\ v.mem = m /\ v.dirty = {}
        /\ v.cut = 0 /\ ~InTxn(v) /\ \A p \in Page : v.map[p] = None
    BY OpenIs
  <1>2. h.n \in Nat
    BY HeadersAre, PageIs
  <1> HIDE DEF v
  <1>3. Phases'
    BY <1>1 DEF Phases, v
  <1>4. Sizes'
    BY <1>1 DEF Sizes, v
  <1>5. Spans'
    <2>1. \A p \in h.n..h.n-1 : FALSE
      BY <1>2
    <2> QED BY <1>1, <2>1 DEF Spans, v
  <1>6. Fresh'
    BY <1>1 DEF Fresh, Stored, v
  <1>7. Cached'
    BY <1>1 DEF Cached, Good, v
  <1>8. OnDisk'
    BY DEF OnDisk
  <1>9. Base' = View(h, m)
    BY <1>1 DEF Base, Live, v
  <1>10. Based'
    BY <1>9 DEF Based
  <1>11. Growing'
    <2>1. SUFFICES ASSUME Benign'
                   PROVE  /\ v.head = hdr'.head /\ v.count = hdr'.count
                          /\ \A t \in ToSet(Chain(hdr'.head, m)) : v.mem[t] = m[t]
                          /\ m[Root].kids \subseteq v.mem[Root].kids
                          /\ \A c \in v.mem[Root].kids : m[c].kind = "leaf"
      BY DEF Growing, Growth, Kids, FileKids, v
    <2>2. View(Header(v), v.mem) = View(h, m) /\ Acc(h, m) /\ h = hdr'
      BY <1>1, <2>1
    <2> QED BY <1>1, <2>2, SameDb
  <1> QED BY <1>3, <1>4, <1>5, <1>6, <1>7, <1>8, <1>10, <1>11 DEF Inv

\* A failed statement of autocommit: the handle goes back to the file.
LEMMA StatementFailsInv ==
  ASSUME Inv, StatementFails
  PROVE  Inv'
  <1>0. TypeOK /\ Marks /\ Phases /\ Sizes /\ OnDisk
    BY DEF Inv
  <1>1. /\ mode = "delete" /\ pager' = OpenPager(hdr, Trimmed(file, hdr.n)) /\ len' = Min({len, hdr.n})
        /\ file' = Trimmed(file, len') /\ committed' = hdr.n /\ stage' = "idle" /\ todo' = {} /\ auto' = FALSE
        /\ risk' = {} /\ scars' = scars \cup (risk \cup {"torn"}) /\ mode' = mode /\ hdr' = hdr /\ saved' = saved
    BY DEF StatementFails, Flushing, Torn
  <1>2. /\ file \in Pages /\ hdr \in Headers /\ hdr.n \in Nat /\ hdr.n \in 1..MaxPages /\ len \in Nat
        /\ len \in 1..MaxPages /\ Page \subseteq Nat
    BY <1>0, Types, HeadersAre
  <1>3. len' = IF len <= hdr.n THEN len ELSE hdr.n
    BY <1>1, <1>2, MinTwo
  <1>4. len' \in 1..MaxPages /\ len' \in Nat
    BY <1>2, <1>3
  <1>5. file' \in Pages /\ \A p \in Page : file'[p] = IF p < len' THEN file[p] ELSE Blank
    BY <1>1, <1>2, TrimmedIs
  <1>6. \A p \in Page : p >= len => file[p] = Blank
    BY <1>0 DEF TypeOK
  <1>7. ASSUME NEW p \in Page PROVE file'[p] = IF p < hdr.n THEN file[p] ELSE Blank
    <2>1. CASE len <= hdr.n
      <3>1. p < len' \/ p >= len
        BY <1>2, <1>3, <2>1
      <3>2. p < len' => p < hdr.n
        BY <1>2, <1>3, <2>1
      <3> QED BY <1>5, <1>6, <3>1, <3>2
    <2>2. CASE ~(len <= hdr.n)
      BY <1>3, <1>5, <2>2
    <2> QED BY <2>1, <2>2
  <1>8. Trimmed(file, hdr.n) = file'
    <2>1. Trimmed(file, hdr.n) \in Pages /\ \A p \in Page : Trimmed(file, hdr.n)[p] = IF p < hdr.n THEN file[p] ELSE Blank
      BY <1>2, TrimmedIs
    <2> QED BY <1>5, <1>7, <2>1 DEF Pages
  <1>9. pager' = OpenPager(hdr, file')
    BY <1>1, <1>8
  <1>10. TypeOK'
    <2> DEFINE v == pager'
    <2>1. v \in Handle /\ v.n = hdr.n /\ v.dirty = {} /\ v.cut = 0
      BY <1>2, <1>5, <1>9, OpenIs
    <2> HIDE DEF v
    <2>2. v.cut <= v.n
      BY <1>2, <2>1
    <2>3. \A p \in Page : p >= len' => file'[p] = Blank
      <3>1. \A p \in Page : p >= len' => ~(p < len')
        BY <1>2, <1>4
      <3> QED BY <1>5, <3>1
    <2>4. /\ file' \in [Page -> Content] /\ hdr' \in Headers /\ committed' \in 1..MaxPages
          /\ stage' \in {"idle", "new", "old", "killed"} /\ todo' \subseteq v.dirty
      BY <1>1, <1>2, <1>5 DEF Pages
    <2>5. auto' \in BOOLEAN
      BY <1>1
    <2> QED BY <1>4, <2>1, <2>2, <2>3, <2>4, <2>5 DEF TypeOK, v
  <1>11. Marks'
    BY <1>0, <1>1 DEF Marks
  <1>12. ASSUME scars' \cap {"regrown", "trimmed", "failed_commit"} = {} PROVE len' >= hdr.n
    <2>1. len >= hdr.n
      BY <1>0, <1>1, <1>12 DEF Sizes
    <2> QED BY <1>2, <1>3, <2>1
  <1>13. ASSUME Benign' PROVE Acc(hdr, file')
    <2>1. risk \subseteq {"grown"}
      BY <1>0, <1>1, <1>13 DEF Benign, Marks
    <2>2. Benign
      BY <1>1, <1>13, BenignBack
    <2>3. Acc(hdr, file)
      BY <1>0, <1>1, <2>1, <2>2 DEF OnDisk
    <2>4. \A p \in Reach(hdr, file) : file'[p] = file[p]
      BY <1>2, <1>7, <2>3, AccReach
    <2> QED BY <1>2, <1>5, <2>3, <2>4, ViewFrame
  <1>14. "torn" \in scars' /\ Root < hdr.n
    BY <1>0, <1>1 DEF Sizes
  <1> QED BY <1>1, <1>2, <1>5, <1>9, <1>10, <1>11, <1>12, <1>13, <1>14, OpenInv

\* A failed COMMIT: what is in the cache is no longer known to be dirty.
LEMMA CommitFailsInv ==
  ASSUME Inv, CommitFails
  PROVE  Inv'
  <1>0. TypeOK /\ Marks /\ Phases /\ Sizes
    BY DEF Inv
  <1> DEFINE v == pager'
  <1>1. /\ mode = "delete" /\ stage \in {"new", "old"} /\ v = [pager EXCEPT !.dirty = {}]
        /\ stage' = "idle" /\ todo' = {} /\ risk' = {} /\ scars' = scars \cup (risk \cup {"torn"}) \cup {"failed_commit"}
        /\ mode' = mode /\ auto' = auto /\ committed' = committed /\ file' = file /\ len' = len /\ hdr' = hdr
        /\ saved' = saved
    BY DEF CommitFails, Flushing, Torn
  <1>2. pager \in Handle
    BY <1>0, Types
  <1> HIDE DEF v
  <1>3. /\ v \in Handle /\ v.txn = pager.txn /\ v.n = pager.n /\ v.head = pager.head
        /\ v.count = pager.count /\ v.zero = pager.zero /\ v.mem = pager.mem /\ v.dirty = {}
        /\ v.map = pager.map /\ v.cut = pager.cut
    BY <1>1, <1>2 DEF Handle
  <1>4. ~InTxn(v)
    BY <1>0, <1>1, <1>3 DEF Phases, InTxn
  <1>5. ~Benign' /\ ~Unbroken'
    BY <1>1 DEF Benign, Unbroken
  <1>6. TypeOK'
    <2>1. v.cut <= v.n
      BY <1>0, <1>3 DEF TypeOK
    <2>2. auto' \in BOOLEAN /\ stage' \in {"idle", "new", "old", "killed"}
      BY <1>0, <1>1 DEF TypeOK
    <2>3. /\ file' \in [Page -> Content] /\ hdr' \in Headers /\ len' \in 1..MaxPages /\ committed' \in 1..MaxPages
          /\ \A p \in Page : p >= len' => file'[p] = Blank
      BY <1>0, <1>1 DEF TypeOK
    <2> QED BY <1>1, <1>3, <2>1, <2>2, <2>3 DEF TypeOK, v
  <1>7. Marks'
    BY <1>0, <1>1 DEF Marks
  <1>8. Phases'
    BY <1>0, <1>1, <1>3, <1>4 DEF Phases, v
  <1>9. Sizes'
    <2>1. pager.cut # 0 /\ pager.cut < pager.n => "regrown" \in Past'
      BY <1>0, <1>1 DEF Sizes, Past
    <2>2. Root < pager.n /\ Root < hdr.n /\ Root < pager.zero.n
      BY <1>0 DEF Sizes
    <2> QED BY <1>1, <1>3, <1>4, <2>1, <2>2 DEF Sizes, v
  <1>10. Spans' /\ Fresh' /\ Cached' /\ OnDisk' /\ Growing'
    BY <1>1, <1>5 DEF Spans, Fresh, Cached, OnDisk, Growing
  <1>11. Based'
    BY <1>1, <1>5 DEF Based
  <1> QED BY <1>6, <1>7, <1>8, <1>9, <1>10, <1>11 DEF Inv

\* The process is killed.
LEMMA KillInv ==
  ASSUME Inv, Kill
  PROVE  Inv'
  <1>0. TypeOK /\ Marks /\ Phases /\ Sizes /\ OnDisk /\ Based
    BY DEF Inv
  <1>1. /\ mode = "delete" /\ stage # "killed" /\ stage' = "killed" /\ todo' = {} /\ auto' = FALSE /\ risk' = {}
        /\ mode' = mode /\ pager' = pager /\ committed' = committed /\ file' = file /\ len' = len /\ hdr' = hdr
        /\ saved' = saved
    BY DEF Kill
  <1>2. \/ stage \in {"new", "old"} /\ scars' = scars \cup (risk \cup {"torn"})
        \/ stage = "idle" /\ scars' = scars
    BY <1>0, <1>1 DEF Kill, Torn, Flushing, TypeOK
  <1>3. scars \subseteq scars'
    BY <1>2
  <1>4. TypeOK'
    <2>1. auto' \in BOOLEAN /\ stage' \in {"idle", "new", "old", "killed"} /\ todo' \subseteq pager.dirty
      BY <1>1
    <2> QED BY <1>0, <1>1, <2>1 DEF TypeOK
  <1>5. Marks'
    BY <1>0, <1>1, <1>2 DEF Marks
  <1>6. Phases'
    BY <1>0, <1>1 DEF Phases
  <1>7. Sizes'
    BY <1>0, <1>1, <1>3 DEF Sizes
  <1>8. Spans' /\ Fresh' /\ Cached' /\ Growing'
    BY <1>1 DEF Spans, Fresh, Cached, Growing
  <1>9. OnDisk'
    <2>1. ASSUME Benign' PROVE Acc(hdr, file) /\ ("torn" \notin scars' => Cover(hdr, file))
      <3>1. Benign /\ ("torn" \notin scars' => "torn" \notin scars)
        BY <1>3, <2>1, BenignBack
      <3>2. CASE stage = "idle"
        BY <1>0, <1>1, <3>1, <3>2 DEF OnDisk
      <3>3. CASE stage \in {"new", "old"}
        <4>1. "torn" \in scars' /\ risk \subseteq {"grown"}
          BY <1>0, <1>2, <2>1, <3>3 DEF Benign, Marks
        <4> QED BY <1>0, <1>1, <3>1, <4>1 DEF OnDisk
      <3> QED BY <1>2, <3>2, <3>3
    <2> QED BY <1>1, <2>1 DEF OnDisk
  <1>10. Based'
    <2>1. ASSUME scars' = {} PROVE View(hdr, file) = saved
      <3>1. stage = "idle" /\ scars = {}
        BY <1>2, <2>1
      <3>2. Benign
        BY <3>1 DEF Benign
      <3> QED BY <1>0, <1>1, <3>1, <3>2 DEF Based
    <2> QED BY <1>1, <2>1 DEF Based
  <1> QED BY <1>4, <1>5, <1>6, <1>7, <1>8, <1>9, <1>10 DEF Inv

\* The recount of a freelist in order changes nothing.
LEMMA RecountIs ==
  ASSUME TypeOK
  PROVE  /\ Recount(hdr) \in Headers /\ Recount(hdr).n = hdr.n
         /\ Acc(hdr, file) => Recount(hdr) = hdr
  <1>1. file \in Pages /\ hdr \in Headers
    BY Types
  <1> DEFINE c == Chain(hdr.head, file)
  <1>2. /\ c \in Seq(Page) /\ ToSet(c) \subseteq Page /\ DOMAIN c = 1..Len(c)
        /\ ToSet(c) = {c[i] : i \in 1..Len(c)}
    BY <1>1, HeadersAre, ChainPages
  <1>3. hdr.head \in 0..MaxPages-1 /\ hdr.n \in 1..MaxPages /\ hdr = [n |-> hdr.n, head |-> hdr.head, count |-> hdr.count]
    BY <1>1 DEF Headers
  <1>4. Recount(hdr) = IF \A i \in DOMAIN c : c[i] < hdr.n /\ file[c[i]].kind = "trunk"
                       THEN [hdr EXCEPT !.count = Len(FreeList(c, file))] ELSE hdr
    BY DEF Recount
  <1>5. Acc(hdr, file) => /\ Links(c, 0, hdr.head, file) /\ Books(ToSet(c), file)
                          /\ hdr.count = Cardinality(Free(ToSet(c), file))
    BY DEF Acc, AccBy
  <1> HIDE DEF c
  <1>6. CASE \A i \in DOMAIN c : c[i] < hdr.n /\ file[c[i]].kind = "trunk"
    <2>1. Trunks(ToSet(c), file)
      BY <1>2, <1>6 DEF Trunks
    <2>2. /\ Len(FreeList(c, file)) \in Nat
          /\ Once(c) /\ Books(ToSet(c), file) => Len(FreeList(c, file)) = Cardinality(Free(ToSet(c), file))
      BY <1>1, <1>2, <2>1, FreeListIs
    <2>3. Acc(hdr, file) => Len(FreeList(c, file)) = hdr.count
      BY <1>5, <2>2, LinksTrunks
    <2> DEFINE k == Len(FreeList(c, file))
    <2>4. Recount(hdr) = [hdr EXCEPT !.count = k]
      BY <1>4, <1>6
    <2> HIDE DEF k
    <2>5. [hdr EXCEPT !.count = k] = [n |-> hdr.n, head |-> hdr.head, count |-> k]
      BY <1>3
    <2>6. k \in Nat /\ (Acc(hdr, file) => k = hdr.count)
      BY <2>2, <2>3 DEF k
    <2> QED BY <1>3, <2>4, <2>5, <2>6 DEF Headers
  <1>7. CASE ~ \A i \in DOMAIN c : c[i] < hdr.n /\ file[c[i]].kind = "trunk"
    BY <1>1, <1>4, <1>7
  <1> QED BY <1>6, <1>7

\* The next process opens the file.
LEMMA ReopenInv ==
  ASSUME Inv, Reopen
  PROVE  Inv'
  <1>0. TypeOK /\ Marks /\ Phases /\ Sizes /\ OnDisk /\ Based
    BY DEF Inv
  <1>1. /\ stage = "killed" /\ len >= hdr.n /\ stage' = "idle" /\ pager' = OpenPager(Recount(hdr), file)
        /\ committed' = hdr.n /\ mode' = mode /\ todo' = todo /\ auto' = auto /\ file' = file /\ len' = len
        /\ hdr' = hdr /\ risk' = risk /\ scars' = scars /\ saved' = saved
    BY DEF Reopen
  <1>2. mode = "delete" /\ todo = {} /\ risk = {} /\ Root < hdr.n
    BY <1>0, <1>1 DEF Phases, Sizes
  <1>3. file \in Pages /\ hdr \in Headers /\ hdr.n \in Nat /\ hdr.n \in 1..MaxPages
    BY <1>0, Types, HeadersAre
  <1> DEFINE h == Recount(hdr)
  <1>4. h \in Headers /\ h.n = hdr.n /\ (Acc(hdr, file) => h = hdr)
    BY <1>0, RecountIs
  <1>5. pager' = OpenPager(h, file)
    BY <1>1
  <1> HIDE DEF h
  <1>6. TypeOK'
    <2> DEFINE v == pager'
    <2>1. v \in Handle /\ v.n = hdr.n /\ v.dirty = {} /\ v.cut = 0
      BY <1>3, <1>4, <1>5, OpenIs
    <2> HIDE DEF v
    <2>2. v.cut <= v.n
      BY <1>3, <2>1
    <2>3. auto' \in BOOLEAN /\ stage' \in {"idle", "new", "old", "killed"} /\ todo' \subseteq v.dirty
      BY <1>0, <1>1, <1>2 DEF TypeOK
    <2>4. /\ file' \in [Page -> Content] /\ hdr' \in Headers /\ len' \in 1..MaxPages /\ committed' \in 1..MaxPages
          /\ \A p \in Page : p >= len' => file'[p] = Blank
      BY <1>0, <1>1, <1>3 DEF TypeOK
    <2> QED BY <2>1, <2>2, <2>3, <2>4 DEF TypeOK, v
  <1>7. Marks'
    BY <1>0, <1>1 DEF Marks
  <1>8. Benign' <=> Benign
    BY <1>1 DEF Benign
  <1>9. ASSUME Benign PROVE h = hdr /\ Acc(hdr, file) /\ ("torn" \notin scars => Cover(hdr, file))
    BY <1>0, <1>1, <1>2, <1>4, <1>9 DEF OnDisk
  <1>10. ASSUME scars \cap {"torn", "regrown", "unlinked"} = {} PROVE View(h, file) = saved
    <2>1. scars = {}
      BY <1>0, <1>2, <1>10 DEF Marks
    <2>2. View(hdr, file) = saved
      BY <1>0, <1>1, <2>1 DEF Based
    <2>3. Benign
      BY <2>1 DEF Benign
    <2> QED BY <1>9, <2>2, <2>3
  <1>11. /\ Root < hdr'.n /\ h.n = hdr'.n /\ mode' = "delete" /\ todo' = {} /\ risk' = {} /\ hdr' \in Headers
         /\ committed' = hdr'.n /\ len' >= hdr'.n /\ file' = file
    BY <1>1, <1>2, <1>3, <1>4
  <1>12. Benign' => h = hdr' /\ Acc(h, file) /\ ("torn" \notin scars' => Cover(h, file))
    BY <1>1, <1>8, <1>9
  <1>13. scars' \cap {"torn", "regrown", "unlinked"} = {} => View(h, file) = saved'
    BY <1>1, <1>10
  <1> QED BY <1>1, <1>3, <1>4, <1>5, <1>6, <1>7, <1>11, <1>12, <1>13, OpenInv

-----------------------------------------------------------------------------
(* The theorems. *)

\* The file a database starts from.
LEMMA FirstIs ==
  /\ FirstHeader \in Headers /\ FirstHeader.n = FirstPages /\ FirstImage \in Pages /\ Root < FirstPages
  /\ FirstPages \in 1..MaxPages /\ FirstPages \in Nat
  /\ \A p \in Page : p >= FirstPages => FirstImage[p] = Blank
  /\ Acc(FirstHeader, FirstImage) /\ Cover(FirstHeader, FirstImage)
  <1>1. /\ FirstPages \in 1..MaxPages /\ FirstPages \in Nat /\ Root \in 1..FirstPages-1 /\ Root < FirstPages
        /\ MaxPages \in Nat /\ 0 \in 0..MaxPages-1
    BY PagerAssumption
  <1> DEFINE K == 1..FirstPages-1 \ {Root}
             m == FirstImage
             h == FirstHeader
  <1>2. K \in SUBSET Page /\ Root \notin K /\ {Root} \cup K = 1..FirstPages-1 /\ \A p \in K : p < FirstPages /\ p # Root
    BY <1>1 DEF Page
  <1>3. h \in Headers /\ h.n = FirstPages /\ h.head = 0 /\ h.count = 0
    BY <1>1 DEF FirstHeader, Headers
  <1>4. \A p \in Page : m[p] = IF p = Root THEN Node(K) ELSE IF p < FirstPages THEN Leaf(0) ELSE Blank
    BY DEF FirstImage
  <1>5. m \in Pages
    <2>1. Node(K) \in Content /\ Leaf(0) \in Content /\ Blank \in Content
      BY <1>2, MakesContent
    <2> HIDE DEF K
    <2> QED BY <2>1 DEF FirstImage, Pages, K
  <1>6. Node(K).kind = "node" /\ Node(K).kids = K /\ Leaf(0).kind = "leaf"
    BY <1>2, MakesContent
  <1> HIDE DEF K, m, h
  <1>7. Root \in Page /\ m[Root] = Node(K)
    BY <1>4, PageIs
  <1>8. Tall(h.n, m)
    <2>1. \A p \in K : m[p] = Leaf(0)
      BY <1>2, <1>4
    <2> QED BY <1>1, <1>2, <1>3, <1>6, <1>7, <2>1 DEF Tall
  <1>9. Chain(h.head, m) = <<>> /\ ToSet(<<>>) = {}
    <2>1. 0 \in PageNo
      BY PageIs
    <2> QED BY <1>3, <1>5, <2>1, ChainPages DEF ToSet
  <1>10. Free({}, m) = {} /\ Books({}, m)
    BY DEF Free, Books
  <1>11. Links(<<>>, 0, 0, m)
    BY DEF Links, Once, Follow
  <1>12. Tree(m) = 1..FirstPages-1
    BY <1>2, <1>6, <1>7 DEF Tree
  <1>13. Cardinality({}) = 0
    BY FS_EmptySet
  <1>14. AccBy(h, m, <<>>)
    BY <1>3, <1>8, <1>9, <1>10, <1>11, <1>13 DEF AccBy
  <1>15. Acc(h, m) /\ Cover(h, m)
    BY <1>3, <1>9, <1>10, <1>12, <1>14 DEF Acc, Cover
  <1>16. ASSUME NEW p \in Page, p >= FirstPages PROVE m[p] = Blank
    <2>1. p # Root /\ ~(p < FirstPages)
      BY <1>1, <1>16, PageIs
    <2> QED BY <1>4, <2>1
  <1> QED BY <1>1, <1>3, <1>5, <1>15, <1>16 DEF m, h

\* The first state is one of the invariant.
LEMMA InitInv == Init => Inv
  <1> SUFFICES ASSUME Init PROVE Inv
    OBVIOUS
  <1> DEFINE h == FirstHeader
             m == FirstImage
  <1>1. /\ mode \in {"delete", "wal"} /\ pager = OpenPager(h, m) /\ stage = "idle" /\ todo = {} /\ auto = FALSE
        /\ committed = FirstPages /\ file = m /\ len = FirstPages /\ hdr = h /\ risk = {} /\ scars = {}
        /\ saved = Live(pager)
    BY PagerAssumption DEF Init
  <1>2. /\ h \in Headers /\ h.n = FirstPages /\ m \in Pages /\ Root < FirstPages
        /\ FirstPages \in 1..MaxPages /\ FirstPages \in Nat /\ \A p \in Page : p >= FirstPages => m[p] = Blank
        /\ Acc(h, m) /\ Cover(h, m)
    BY FirstIs
  <1>3. /\ pager \in Handle /\ Header(pager) = h /\ pager.n = h.n /\ pager.zero = h /\ pager.mem = m
        /\ pager.dirty = {} /\ pager.cut = 0 /\ ~InTxn(pager) /\ \A p \in Page : pager.map[p] = None
    BY <1>1, <1>2, OpenIs
  <1> HIDE DEF h, m
  <1>4. TypeOK
    <2>1. pager.cut <= pager.n
      BY <1>2, <1>3
    <2>2. auto \in BOOLEAN
      BY <1>1
    <2>3. file \in [Page -> Content] /\ todo \subseteq pager.dirty
      BY <1>1, <1>2 DEF Pages
    <2> QED BY <1>1, <1>2, <1>3, <2>1, <2>2, <2>3 DEF TypeOK
  <1>5. Marks
    BY <1>1 DEF Marks
  <1>6. Phases
    BY <1>1, <1>3 DEF Phases
  <1>7. Sizes
    <2>1. len >= hdr.n
      BY <1>1, <1>2
    <2> QED BY <1>1, <1>2, <1>3, <2>1 DEF Sizes
  <1>8. Spans
    <2>1. \A p \in h.n..h.n-1 : FALSE
      BY <1>2
    <2> QED BY <1>1, <1>2, <1>3, <2>1 DEF Spans
  <1>9. Fresh
    BY <1>1, <1>3 DEF Fresh, Stored
  <1>10. Good(h, m)
    BY <1>2 DEF Good
  <1>11. Cached
    BY <1>1, <1>3, <1>10 DEF Cached
  <1>12. OnDisk
    BY <1>1, <1>2 DEF OnDisk
  <1>13. Base = View(h, m) /\ saved = View(h, m)
    BY <1>1, <1>3 DEF Base, Live
  <1>14. Based
    <2>1. StoredPages = m
      <3>1. \A p \in Page : Stored(pager, p) = m[p]
        BY <1>1, <1>3 DEF Stored
      <3> QED BY <1>2, <3>1 DEF StoredPages, Pages
    <2> QED BY <1>1, <1>3, <1>13, <2>1 DEF Based
  <1>15. Growing
    <2>1. View(Header(pager), pager.mem) = View(h, m)
      BY <1>3
    <2>2. /\ pager.head = h.head /\ pager.count = h.count
          /\ \A t \in ToSet(Chain(h.head, m)) : pager.mem[t] = m[t]
          /\ m[Root].kids \subseteq pager.mem[Root].kids
          /\ \A c \in pager.mem[Root].kids : m[c].kind = "leaf"
      BY <1>2, <1>3, <2>1, SameDb
    <2> QED BY <1>1, <2>2 DEF Growing, Growth, Kids, FileKids
  <1> QED BY <1>4, <1>5, <1>6, <1>7, <1>8, <1>9, <1>11, <1>12, <1>14, <1>15 DEF Inv

\* A step that changes nothing.
LEMMA StutterInv ==
  ASSUME Inv, UNCHANGED vars
  PROVE  Inv'
  <1>0. /\ mode' = mode /\ pager' = pager /\ stage' = stage /\ todo' = todo /\ auto' = auto
        /\ committed' = committed /\ file' = file /\ len' = len /\ hdr' = hdr /\ risk' = risk
        /\ scars' = scars /\ saved' = saved
    BY DEF vars
  <1>1. TypeOK'
    BY <1>0 DEF Inv, TypeOK
  <1>2. Marks' /\ Phases'
    BY <1>0 DEF Inv, Marks, Phases
  <1>3. Sizes' /\ Spans'
    BY <1>0 DEF Inv, Sizes, Spans, Past, Unbroken, Unwritten
  <1>4. Fresh'
    BY <1>0 DEF Inv, Fresh, Stored, Unwritten
  <1>5. Benign' = Benign /\ Base' = Base /\ StoredPages' = StoredPages
    BY <1>0 DEF Benign, Base, StoredPages, Stored
  <1>6. Cached' /\ OnDisk'
    BY <1>0, <1>5 DEF Inv, Cached, OnDisk, Good
  <1>7. Based'
    BY <1>0, <1>5 DEF Inv, Based
  <1>8. Growing'
    BY <1>0, <1>5 DEF Inv, Growing, Growth, Kids, FileKids
  <1> QED BY <1>1, <1>2, <1>3, <1>4, <1>6, <1>7, <1>8 DEF Inv

\* Every step keeps the invariant: one step of the proof per action.
LEMMA NextInv == Inv /\ [Next]_vars => Inv'
  <1> SUFFICES ASSUME Inv, [Next]_vars PROVE Inv'
    OBVIOUS
  <1>1. CASE Insert
    BY <1>1, InsertInv
  <1>2. ASSUME NEW c \in Page, Update(c) PROVE Inv'
    BY <1>2, UpdateInv
  <1>3. ASSUME NEW c \in Page, Delete(c) PROVE Inv'
    BY <1>3, DeleteInv
  <1>4. ASSUME NEW K \in (SUBSET Kids) \ {{}}, NEW s \in MassDeletes[K], MassDelete(s) PROVE Inv'
    BY <1>4, MassDeleteInv
  <1>5. CASE Begin
    BY <1>5, BeginInv
  <1>6. CASE Commit
    BY <1>6, CommitInv
  <1>7. CASE Rollback
    BY <1>7, RollbackInv
  <1>8. CASE WriteNew
    BY <1>8, WriteNewInv
  <1>9. CASE WriteHeader
    BY <1>9, WriteHeaderInv
  <1>10. CASE WriteOld
    BY <1>10, WriteOldInv
  <1>11. CASE Finish
    BY <1>11, FinishInv
  <1>12. CASE AppendFrames
    BY <1>12, AppendFramesInv
  <1>13. CASE Checkpoint
    BY <1>13, CheckpointInv
  <1>14. CASE StatementFails
    BY <1>14, StatementFailsInv
  <1>15. CASE CommitFails
    BY <1>15, CommitFailsInv
  <1>16. CASE Kill
    BY <1>16, KillInv
  <1>17. CASE Reopen
    BY <1>17, ReopenInv
  <1>18. CASE UNCHANGED vars
    BY <1>18, StutterInv
  <1> QED
    BY <1>1, <1>2, <1>3, <1>4, <1>5, <1>6, <1>7, <1>8, <1>9, <1>10, <1>11, <1>12, <1>13, <1>14, <1>15, <1>16,
       <1>17, <1>18 DEF Next

\* The inductive invariant of the pager holds in every state: statements,
\* transactions, the three-phase flush, the log, its checkpoint, kills, failed
\* writes and reopenings all keep it.
THEOREM Invariant == Spec => []Inv
  BY InitInv, NextInv, PTL DEF Spec

\* The handle, the flush and the file keep their shape (Pager, flush_inner_delete,
\* checkpoint_wal_locked, restore on a failed write): a cut is never armed above the
\* page count, a flush writes only what is dirty, nothing lies behind the end of
\* the file.
THEOREM TypesHold == Spec => []TypeOK
  <1>1. Inv => TypeOK
    BY DEF Inv
  <1> QED BY <1>1, Invariant, PTL

\* The ordering contract of flush_inner_delete: the main file is as long as its
\* header claims, at every moment of a flush, after a kill and after a failed write.
THEOREM HeaderIsCovered == Spec => []FileCoversHeader
  <1>1. Inv => FileCoversHeader
    <2>1. Past \cap {"regrown", "trimmed", "failed_commit"} = {} => scars \cap {"regrown", "trimmed", "failed_commit"} = {}
      BY DEF Past
    <2> QED BY <2>1 DEF Inv, Sizes, FileCoversHeader
  <1> QED BY <1>1, Invariant, PTL

\* The invariant gives a readable tree: a kill in the first phase leaves the file
\* of the last commit, one in the third a file that only misses old bodies.
LEMMA InvTree ==
  ASSUME Inv
  PROVE  TreeReadable
  <1>0. TypeOK /\ OnDisk
    BY DEF Inv
  <1> SUFFICES ASSUME mode = "delete", Past \subseteq {"grown", "torn"}, NEW p \in FileKids
               PROVE  p < hdr.n /\ p < len /\ file[p].kind = "leaf"
    BY DEF TreeReadable
  <1>1. Benign /\ risk \subseteq {"grown", "torn"}
    BY DEF Past, Benign
  <1>2. risk \subseteq {"grown"}
    BY <1>1 DEF Inv, Marks
  <1>3. Acc(hdr, file)
    BY <1>0, <1>1, <1>2 DEF OnDisk
  <1>4. file \in Pages /\ hdr \in Headers /\ len \in Nat /\ Page \subseteq Nat
    BY <1>0, Types
  <1>5. Tall(hdr.n, file) /\ file[Root].kids \subseteq Page
    BY <1>3, <1>4, AccReach
  <1>6. p \in Page /\ p < hdr.n /\ file[p].kind = "leaf"
    BY <1>5 DEF Tall, FileKids
  <1>7. file[p] # Blank
    BY <1>6, MakesContent
  <1>8. ~(p >= len)
    BY <1>0, <1>6, <1>7 DEF TypeOK
  <1> QED BY <1>4, <1>6, <1>8

\* The three-phase schedule of flush_inner_delete: whatever a kill or a failed write
\* leaves of a unit of work that only grew the file, the children of its node are
\* leaves that the header counts and the file holds.
THEOREM TreeStaysReadable == Spec => []TreeReadable
  <1>1. Inv => TreeReadable
    BY InvTree
  <1> QED BY <1>1, Invariant, PTL

\* The accounts of the cache, read off the freelist of the handle.
LEMMA InvAccounts ==
  ASSUME Inv
  PROVE  PagesAccounted
  <1>0. TypeOK /\ Cached /\ Marks
    BY DEF Inv
  <1> DEFINE c == TrunkPages(pager)
             f == FreeList(c, pager.mem)
  <1> SUFFICES ASSUME stage = "idle", Past \cap {"unlinked", "torn"} = {}, "regrown" \notin scars
               PROVE  /\ Sound(pager) /\ IsInjective(f) /\ Len(f) = pager.count
                      /\ ToSet(f) \cap ({Root} \cup Kids) = {}
                      /\ ToSet(f) \cup {Root} \cup Kids = 1..pager.n-1
    BY DEF PagesAccounted, FreePages
  <1>1. Benign /\ "unlinked" \notin risk /\ "torn" \notin scars
    BY DEF Past, Benign
  <1>2. Acc(Header(pager), pager.mem) /\ Cover(Header(pager), pager.mem)
    BY <1>0, <1>1 DEF Cached, Good
  <1>3. /\ pager \in Handle /\ pager.mem \in Pages /\ pager.n \in Nat /\ Page \subseteq Nat
    BY <1>0, Types
  <1>4. /\ Links(c, 0, pager.head, pager.mem) /\ Books(ToSet(c), pager.mem) /\ Tall(pager.n, pager.mem)
        /\ Free(ToSet(c), pager.mem) \subseteq 1..pager.n-1
        /\ Free(ToSet(c), pager.mem) \cap Tree(pager.mem) = {}
        /\ pager.count = Cardinality(Free(ToSet(c), pager.mem))
        /\ Free(ToSet(c), pager.mem) \cup Tree(pager.mem) = 1..pager.n-1
    BY <1>2 DEF Acc, AccBy, Cover, Header, TrunkPages
  <1> HIDE DEF c
  <1>5. /\ Trunks(ToSet(c), pager.mem) /\ c \in Seq(Page) /\ Once(c)
    BY <1>4, LinksTrunks
  <1>6. /\ f \in Seq(Page) /\ ToSet(f) = Free(ToSet(c), pager.mem) /\ Once(f) /\ Len(f) = pager.count
    BY <1>3, <1>4, <1>5, FreeListIs
  <1> HIDE DEF f
  <1>7. IsInjective(f)
    <2>1. DOMAIN f = 1..Len(f)
      BY <1>6
    <2> QED BY <1>6, <2>1 DEF IsInjective, Once
  <1>8. Tree(pager.mem) = {Root} \cup Kids
    BY <1>4 DEF Tree, Tall, Kids
  <1>9. Sound(pager)
    <2>1. pager.mem[Root].kind = "node" /\ \A p \in pager.mem[Root].kids : p < pager.n /\ pager.mem[p].kind = "leaf"
      BY <1>4 DEF Tall
    <2>2. ASSUME NEW i \in DOMAIN c PROVE c[i] < pager.n /\ pager.mem[c[i]].kind = "trunk"
      <3>1. c[i] \in ToSet(c)
        BY <1>5, <2>2, ToSetIs
      <3>2. c[i] \in 1..pager.n-1
        BY <1>4, <3>1 DEF Free
      <3> QED BY <1>3, <1>5, <3>1, <3>2 DEF Trunks
    <2> QED BY <2>1, <2>2 DEF Sound, c
  <1> QED BY <1>4, <1>6, <1>7, <1>8, <1>9

\* allocate_page, free_page and truncate_tail never lose a page, list one twice or
\* leave one both free and in the tree, and freelist_count is exact.
THEOREM EveryPageAccounted == Spec => []PagesAccounted
  <1>1. Inv => PagesAccounted
    BY InvAccounts
  <1> QED BY <1>1, Invariant, PTL

\* The committed database is the one that the media hold.
LEMMA InvStored ==
  ASSUME Inv
  PROVE  CommittedIsStored
  <1>0. TypeOK /\ Marks /\ Phases /\ OnDisk /\ Based
    BY DEF Inv
  <1> SUFFICES ASSUME stage \in {"idle", "killed"}, scars \subseteq {"trimmed"}
               PROVE  Holds
    BY DEF CommittedIsStored
  <1>1. StoredPages \in Pages /\ file \in Pages /\ hdr \in Headers /\ len \in Nat /\ Page \subseteq Nat
    BY <1>0, Types, StoredIs
  <1>2. ASSUME NEW h \in Headers, Acc(h, StoredPages), View(h, StoredPages) = saved,
               NEW p \in DOMAIN saved.pages, pager.map[p] = None
        PROVE  p < len
    <2>1. DOMAIN saved.pages = Reach(h, StoredPages)
      BY <1>2 DEF View
    <2>2. p \in Page /\ StoredPages[p] # Blank
      BY <1>1, <1>2, <2>1, AccReach
    <2>3. file[p] # Blank
      BY <1>2, <2>2 DEF StoredPages, Stored
    <2>4. ~(p >= len)
      BY <1>0, <2>2, <2>3 DEF TypeOK
    <2> QED BY <1>1, <2>2, <2>4
  <1>3. CASE mode = "wal"
    <2>1. stage = "idle"
      BY <1>0, <1>3 DEF Phases
    <2>2. pager.zero \in Headers /\ Acc(pager.zero, StoredPages) /\ View(pager.zero, StoredPages) = saved
      BY <1>3, <2>1, ZeroReach
    <2>3. StoredHeader = pager.zero
      BY <1>3 DEF StoredHeader
    <2> QED BY <1>2, <2>2, <2>3 DEF Holds
  <1>4. CASE mode = "delete"
    <2>1. scars = {}
      BY <1>0, <1>4 DEF Marks
    <2>2. Benign
      BY <2>1 DEF Benign
    <2>3. Acc(hdr, file)
      BY <1>0, <1>4, <2>2 DEF OnDisk
    <2>4. View(hdr, file) = saved
      BY <1>0, <1>4, <2>1, <2>2 DEF Based
    <2>5. StoredPages = file
      <3>1. \A p \in Page : Stored(pager, p) = file[p]
        BY <1>0, <1>4 DEF Phases, Stored
      <3> QED BY <1>1, <3>1 DEF StoredPages, Pages
    <2>6. StoredHeader = hdr
      BY <1>4 DEF StoredHeader
    <2> QED BY <1>1, <1>2, <2>3, <2>4, <2>5, <2>6 DEF Holds
  <1> QED BY <1>0, <1>3, <1>4 DEF Marks

\* What was committed is in the log or in the file: through later transactions,
\* checkpoints under a transaction, rollbacks, kills between flushes and reopenings.
THEOREM CommitsAreStored == Spec => []CommittedIsStored
  <1>1. Inv => CommittedIsStored
    BY InvStored
  <1> QED BY <1>1, Invariant, PTL

\* What a rollback leaves is the base, which is the last database committed.
LEMMA InvRollback ==
  ASSUME Inv, Rollback, scars \cap {"torn", "regrown", "unlinked"} = {}
  PROVE  Live(pager') = saved
  <1>1. stage = "idle" /\ InTxn(pager)
    BY DEF Rollback
  <1>2. Base = saved
    BY <1>1 DEF Inv, Based
  <1>3. Header(pager') = pager.txn /\ pager'.mem = Restored(pager)
    BY RollbackIs
  <1> QED BY <1>1, <1>2, <1>3 DEF Base, Live

\* rollback_transaction gives back the last database committed, whatever the
\* statements of the transaction allocated, freed, reused or cut off.
THEOREM RollbackGivesBack == Spec => RollbackRestores
  <1>1. Inv /\ [Next]_vars =>
          [Rollback /\ scars \cap {"torn", "regrown", "unlinked"} = {} => Live(pager') = saved]_vars
    BY InvRollback
  <1> QED BY <1>1, Invariant, PTL DEF Spec, RollbackRestores
=============================================================================
