--------------------------- MODULE MCApifoxImport ---------------------------
(* Symmetry for the model checker: callbacks are interchangeable. *)
EXTENDS ApifoxImport, TLC

Symmetry == Permutations(Callbacks)
=============================================================================
