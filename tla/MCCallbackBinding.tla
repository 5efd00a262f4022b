------------------------- MODULE MCCallbackBinding -------------------------
(* Three workflows and the callbacks of their builds, for the model checker. *)
EXTENDS CallbackBinding, TLC

CONSTANTS w1, w2, w3, gone, i1, i2, i3, parent, other, b1, b2, both, c1, c2

\* w1 and w2 stand below one parent demand; w3 only waits.
Task == (w1 :> i1) @@ (w2 :> i2) @@ (w3 :> i3)
Tree == (w1 :> {parent}) @@ (w2 :> {parent}) @@ (w3 :> {})

\* A commit, and a build of it, for each of the two; a build for both at once.
Code == (b1 :> {w1}) @@ (c1 :> {w1}) @@ (b2 :> {w2}) @@ (c2 :> {w2}) @@ (both :> {w1, w2})

\* Named by id in parameters or message, by item, by parent, by an item nobody
\* has, by build, or by a commit alone.
Nothing == [kind |-> "success", id |-> None, param |-> None, msgId |-> None,
            message |-> <<>>, build |-> Unknown, commit |-> None]

Sample ==
    {[Nothing EXCEPT !.commit = c2],
     [Nothing EXCEPT !.id = w1, !.kind = "failure"],
     [Nothing EXCEPT !.id = gone, !.commit = c2],
     [Nothing EXCEPT !.build = b2, !.commit = c2],
     [Nothing EXCEPT !.msgId = w2, !.build = b2, !.commit = c2, !.kind = "running"],
     [Nothing EXCEPT !.param = other, !.build = b1, !.commit = c1],
     [Nothing EXCEPT !.param = parent, !.build = both],
     [Nothing EXCEPT !.message = <<other, i2>>, !.commit = c2, !.kind = "failure"]}

Symmetry == Permutations(Threads)
=============================================================================
