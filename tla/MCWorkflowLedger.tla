-------------------------- MODULE MCWorkflowLedger --------------------------
(* Symmetries and workloads for the model checker. *)
EXTENDS WorkflowLedger, TLC

\* Requests are interchangeable, and so are builds and items: sound for safety.
Symmetry == Permutations(Requests) \cup Permutations(Builds) \cup Permutations(Items)

\* The main line and its callbacks, without the two recovery interfaces.
ForwardKinds == AllKinds \ {"retry", "resolve"}
=============================================================================
