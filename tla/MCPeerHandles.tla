--------------------------- MODULE MCPeerHandles ---------------------------
EXTENDS PeerHandles, TLC

Symmetry == Permutations(Handle)

\* What is left in a variable that is set again before it is read tells no
\* states apart: the statement of an idle handle, the pre-image of a page
\* without a mark, the pages of a flush that is over.
View ==
    <<sharedVars, pc, guard, cursor, own, seen, cache, dirty, busy, wrote, inTxn,
      [h \in Handle |->
          IF pc[h] = "idle" THEN <<>>
          ELSE <<op[h], IF op[h] \in {"write", "step"} THEN marked[h] ELSE 0>>],
      [h \in Handle |-> [p \in dirty[h] |-> pre[h][p]]],
      [h \in Handle |-> IF pc[h] \in {"commit", "wait", "check", "body", "alone"}
                        THEN todo[h] ELSE {}]>>
=============================================================================
