---------------------------- MODULE TaskClosing ----------------------------
(***************************************************************************)
(* What closing the tasks of a workflow promises, seen in Yunxiao and in   *)
(* the workflow's record: which items it may touch, in which order, and    *)
(* what a closed workflow stands for.  There are no attempts, requests or  *)
(* snapshots here; YunxiaoClose is shown to implement it.                  *)
(*                                                                         *)
(* An implementation may repeat, overlap or abandon what it does, and may  *)
(* come late: changes may follow the close.  It may not touch a task that  *)
(* nobody named, complete one that carries no comment, set back a task or  *)
(* a demand that was done before, or close for tasks it saw open.          *)
(***************************************************************************)
EXTENDS Naturals

CONSTANTS Tasks, Demands, Parent, None

VARIABLES phase,     \* the status of the workflow
          status,    \* the status of each work item in Yunxiao
          comments,  \* how many delivery comments each work item carries
          before,    \* what status was at first
          named,     \* the tasks that deliveries named
          unread,    \* completed tasks whose status could not be read back
          reported   \* the tasks the workflow was closed for

items == <<status, comments>>
record == <<phase, before, named, reported>>
vars == <<items, record, unread>>

Init == /\ phase = "APIFOX_SYNCED"
        /\ status \in [Tasks \cup Demands -> {"open", "done"}]
        /\ comments = [w \in Tasks \cup Demands |-> 0]
        /\ before = status
        /\ named = {} /\ unread = {} /\ reported = {}

\* A delivery names tasks as long as the workflow waits for it.
Name == /\ phase = "APIFOX_SYNCED"
        /\ \E more \in SUBSET Tasks : more # {} /\ named' = named \cup more
        /\ UNCHANGED <<items, phase, before, reported, unread>>

Comment(t) == /\ comments' = [comments EXCEPT ![t] = @ + 1]
              /\ UNCHANGED <<status, record, unread>>

\* Yunxiao may complete the parent demand with the task.
Complete(t) ==
    /\ comments[t] > 0
    /\ \E also \in SUBSET ({Parent[t]} \ {None}) :
          status' = [w \in DOMAIN status |->
                        IF w \in {t} \cup also THEN "done" ELSE status[w]]
    /\ UNCHANGED <<comments, record, unread>>

Overlook(t) == /\ comments[t] > 0
               /\ unread' = unread \cup {t}
               /\ UNCHANGED <<items, record>>

\* Only demands go back, and only those that were open before the workflow.
Reopen(d) == /\ before[d] = "open"
             /\ status' = [status EXCEPT ![d] = "open"]
             /\ UNCHANGED <<comments, record, unread>>

Close == /\ phase = "APIFOX_SYNCED"
         /\ phase' = "YUNXIAO_TASK_CLOSED"
         /\ reported' \in (SUBSET named) \ {{}}
         /\ \A t \in reported' \ unread : status[t] = "done"
         /\ UNCHANGED <<items, before, named, unread>>

Escalate == /\ phase = "APIFOX_SYNCED"
            /\ phase' = "NEEDS_HUMAN"
            /\ UNCHANGED <<items, before, named, reported, unread>>

Resolve == /\ phase = "NEEDS_HUMAN"
           /\ phase' = "APIFOX_SYNCED"
           /\ UNCHANGED <<items, before, named, reported, unread>>

Next == \/ Name \/ Close \/ Escalate \/ Resolve
        \/ \E t \in named : Comment(t) \/ Complete(t) \/ Overlook(t)
        \/ \E d \in Demands : Reopen(d)

Spec == Init /\ [][Next]_vars
=============================================================================
