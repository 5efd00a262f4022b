--------------------------- MODULE MCAdapterTasks ---------------------------
(* Two tasks and two requests at a time, for the model checker. *)
EXTENDS AdapterTasks, TLC

Symmetry == Permutations(Tasks) \cup Permutations(Threads)
=============================================================================
