--------------------------- MODULE MCPagerCommit ---------------------------
(* TLC instance of PagerCommit: a file of few pages.                       *)
EXTENDS PagerCommit

\* Once nothing is promised of a database it is not followed further.
Promising == scars \subseteq {"torn", "grown", "trimmed"}
=============================================================================
