----------------------------- MODULE MCPlainDml -----------------------------
(* Symmetry for the model checking of PlainDml. *)
EXTENDS PlainDml, TLC

Symmetry == Permutations(Thread)
=============================================================================
