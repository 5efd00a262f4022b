--------------------------- MODULE MCYunxiaoClose ---------------------------
(* A tree and its symmetries for the model checker. *)
EXTENDS YunxiaoClose, TLC

CONSTANTS t1, t2, d1, d2

\* Two demands with one task each.
Tree == (t1 :> d1) @@ (t2 :> d2)

\* Attempts are interchangeable, and so are the two demands with their tasks.
Symmetry == Permutations(Attempts)
            \cup {(t1 :> t2) @@ (t2 :> t1) @@ (d1 :> d2) @@ (d2 :> d1)}
=============================================================================
