-------------------------- MODULE MCDingTalkConfig --------------------------
(* Symmetries for the model checker. *)
EXTENDS DingTalkConfig, TLC

Symmetry ==
    Permutations(Apps \ {DefaultApp}) \cup Permutations(Configs) \cup Permutations(Keys)
    \cup Permutations(Operators) \cup Permutations(Threads)
=============================================================================
