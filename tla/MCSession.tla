----------------------------- MODULE MCSession -----------------------------
EXTENDS Session

CONSTANTS k1, k2, c, d, v, w

\* d is NULL or w; c may be v too.
Rows == {r \in [{c, d} -> {Null, v, w}] : r[d] # v}
\* One row, (v, NULL), or a second one as well, (NULL, w).
Row1 == [x \in {c, d} |-> IF x = c THEN v ELSE Null]
Row2 == [x \in {c, d} |-> IF x = c THEN Null ELSE w]
Tables == {[k \in {k1, k2} |-> IF k = k1 THEN Row1 ELSE Absent],
           [k \in {k1, k2} |-> IF k = k1 THEN Row1 ELSE Row2]}
DeclaredUnique == {{}, {d}}
Statements == [n \in Node |-> IF n = "local" THEN 1 ELSE 2]
=============================================================================
