------------------------- MODULE DeliveryLifecycle -------------------------
(***************************************************************************)
(* What the adapter promises about one delivery workflow, seen from        *)
(* outside: which status may follow which, what it costs in attempts, and  *)
(* what must have happened before the work item is closed.  There are no   *)
(* requests, rows or calls here; WorkflowLedger is shown to implement it.  *)
(*                                                                         *)
(* An implementation may stutter as long as it likes, may split a step     *)
(* into any number of internal ones, and may lose requests.  It may not    *)
(* jump along an edge that is not listed, charge an attempt for anything   *)
(* but a fault, an escalation or a retry, or close a workflow whose work   *)
(* item was never filed or whose interfaces were never imported.           *)
(***************************************************************************)
EXTENDS Integers

VARIABLES status,    \* the main status of the workflow
          attempts,  \* faults, escalations and retries charged so far
          filed,     \* a Yunxiao work item has been bound to the workflow
          imported   \* Apifox has reported an import for the workflow

vars == <<status, attempts, filed, imported>>

Statuses ==
    {"CREATED", "DOC_READ", "REQUIREMENT_PARSED", "YUNXIAO_TASK_CREATED",
     "CODING_REQUESTED", "CODE_SUBMITTED", "PIPELINE_RUNNING",
     "PIPELINE_SUCCESS", "PIPELINE_FAILED", "APIFOX_SYNCED",
     "YUNXIAO_TASK_CLOSED", "NEEDS_HUMAN", "FAILED"}

\* The statuses in which a finished build may be reported.
AwaitingPipeline == {"CODING_REQUESTED", "CODE_SUBMITTED", "PIPELINE_RUNNING"}

\* The edges of the main line that need nothing but the status.
MainLine ==
    {<<"CREATED", "DOC_READ">>,
     <<"DOC_READ", "REQUIREMENT_PARSED">>,
     <<"YUNXIAO_TASK_CREATED", "CODING_REQUESTED">>,
     <<"REQUIREMENT_PARSED", "CODE_SUBMITTED">>,
     <<"CODING_REQUESTED", "CODE_SUBMITTED">>,
     <<"CODE_SUBMITTED", "PIPELINE_RUNNING">>}
        \cup (AwaitingPipeline \X {"PIPELINE_SUCCESS", "PIPELINE_FAILED"})
        \cup {<<"PIPELINE_SUCCESS", "PIPELINE_FAILED">>}

\* Where a person may send a workflow that waits for one.
ResolveTargets ==
    {"APIFOX_SYNCED", "PIPELINE_SUCCESS", "CODING_REQUESTED", "REQUIREMENT_PARSED"}

Init == /\ status = "CREATED"
        /\ attempts = 0
        /\ filed = FALSE
        /\ imported = FALSE

Advance == /\ \E edge \in MainLine : status = edge[1] /\ status' = edge[2]
           /\ UNCHANGED <<attempts, filed, imported>>

File == /\ status = "REQUIREMENT_PARSED"
        /\ status' = "YUNXIAO_TASK_CREATED"
        /\ filed' = TRUE
        /\ UNCHANGED <<attempts, imported>>

\* Apifox answers on its own time: the import is known before it is recorded.
Import == /\ imported' = TRUE
          /\ UNCHANGED <<status, attempts, filed>>

Sync == /\ status = "PIPELINE_SUCCESS"
        /\ imported
        /\ status' = "APIFOX_SYNCED"
        /\ UNCHANGED <<attempts, filed, imported>>

Close == /\ status = "APIFOX_SYNCED"
         /\ filed
         /\ imported
         /\ status' = "YUNXIAO_TASK_CLOSED"
         /\ UNCHANGED <<attempts, filed, imported>>

Escalate == /\ status \in {"DOC_READ", "APIFOX_SYNCED"}
            /\ status' = "NEEDS_HUMAN"
            /\ attempts' = attempts + 1
            /\ UNCHANGED <<filed, imported>>

Resolve == /\ status = "NEEDS_HUMAN"
           /\ status' \in ResolveTargets
           /\ UNCHANGED <<attempts, filed, imported>>

Retry == /\ status = "PIPELINE_FAILED"
         /\ status' = "CODING_REQUESTED"
         /\ attempts' = attempts + 1
         /\ UNCHANGED <<filed, imported>>

Fault == /\ status \in {"CREATED", "REQUIREMENT_PARSED"}
         /\ attempts' = attempts + 1
         /\ UNCHANGED <<status, filed, imported>>

Next == Advance \/ File \/ Import \/ Sync \/ Close \/ Escalate \/ Resolve \/ Retry \/ Fault

Spec == Init /\ [][Next]_vars
=============================================================================
