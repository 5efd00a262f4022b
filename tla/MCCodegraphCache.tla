-------------------------- MODULE MCCodegraphCache --------------------------
(* Two queries of two builds of a commit, for the model checker. *)
EXTENDS CodegraphCache, TLC

Symmetry == Permutations(Queries)
=============================================================================
