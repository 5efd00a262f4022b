------------------------- MODULE MCRequirementTree -------------------------
(* Three requirements of one version, for the model checker. *)
EXTENDS RequirementTree, TLC

CONSTANTS w1, w2, w3

\* The second demand of w2 has a blank title; the category of w3 is refused.
Plans == (w1 :> <<"demand", "task">>) @@ (w2 :> <<"demand", "demand">>) @@ (w3 :> <<"demand">>)
Blanks == (w1 :> {}) @@ (w2 :> {2}) @@ (w3 :> {})

Symmetry == Permutations(Threads) \cup Permutations(Sprints)
=============================================================================
