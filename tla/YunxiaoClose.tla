---------------------------- MODULE YunxiaoClose ----------------------------
(* Closing the tasks of a workflow in Yunxiao: close_yunxiao_workitem in     *)
(* app/yunxiao.py and the step of app/workflow.py that calls it.             *)
(*                                                                           *)
(* WorkflowLedger takes the whole of it as one call.  Here every request to  *)
(* Yunxiao is a step of its own, because Yunxiao reacts: when a task is done *)
(* it may complete the parent demand too, which the adapter undoes from a    *)
(* snapshot it took first.  Attempts may overlap, each may stop half-way,    *)
(* and the next one starts from what is left.                                *)
EXTENDS Naturals

CONSTANTS
    Tasks,      \* child tasks, or the one work item of a workflow without tree
    Demands,    \* the demands of the requirement tree, {} without one
    Parent,     \* the demand a task belongs to
    Attempts,   \* threads that can close this workflow at the same time
    Troubles,   \* what may go wrong with a request to Yunxiao
    MaxCalls,   \* bound: attempts in all
    None

AllTroubles == {"error",      \* answered with an error, which the code expects
                "lost",       \* the answer or the process is lost
                "ignored",    \* a change is answered with success and not made
                "blank"}      \* an item is answered without a status

ASSUME ItemsAreDisjoint == Tasks \cap Demands = {}
ASSUME NoneIsNoItem == None \notin Tasks \cup Demands
ASSUME ParentIsDemand == Parent \in [Tasks -> Demands \cup {None}]
ASSUME TroublesAreKnown == Troubles \subseteq AllTroubles
ASSUME MaxCallsIsNat == MaxCalls \in Nat

Workitems == Tasks \cup Demands

VARIABLES
    phase,      \* the status column of the workflow, from APIFOX_SYNCED on
    status,     \* the status of each work item in Yunxiao
    comments,   \* how many delivery comments each work item carries
    run,        \* what each thread is doing
    calls,      \* how many attempts there were
    \* history
    before,     \* what status was before the first attempt
    referenced, \* the tasks that the references of all attempts named
    broken,     \* how many attempts stopped while at each item
    unread,     \* tasks whose verification was answered without a status
    reported,   \* the tasks of the attempt that closed the workflow
    oddities    \* whether attempts overlapped, and answers had no status

remote == <<status, comments>>
ledger == <<phase, calls, before, referenced, reported>>
vars == <<remote, ledger, run, broken, unread, oddities>>

Phases == {"APIFOX_SYNCED", "NEEDS_HUMAN", "YUNXIAO_TASK_CLOSED"}

\* After each request the attempt is at the next one it will make; the last two
\* are the records it makes of its outcome.
Pcs == {"idle", "snapshot", "read", "comment", "update", "verify",
        "restore", "reopen", "check", "closed", "failed"}

\* plan: the matched tasks; todo: those not visited yet; tree: the demands this
\* loop has left; open: the demands the snapshot found open; item: what the
\* steps from comment to verify, or reopen and check, are about.
Runs == [pc : Pcs, plan : SUBSET Tasks, todo : SUBSET Tasks,
         tree : SUBSET Demands, open : SUBSET Demands,
         item : Workitems \cup {None}]

Idle == [pc |-> "idle", plan |-> {}, todo |-> {}, tree |-> {}, open |-> {},
         item |-> None]

Quiet == \A a \in Attempts : run[a].pc = "idle"

-----------------------------------------------------------------------------
(* What a request to Yunxiao does. *)

\* The status GET may give of an item.
Said(w) == {status[w]} \cup (IF "blank" \in Troubles THEN {"none"} ELSE {})

Heard(s) == oddities' = oddities \cup (IF s = "none" THEN {"blank"} ELSE {})

\* A task is completed, and its parent perhaps with it.
Completed(t) ==
    {[status EXCEPT ![t] = "done"]}
    \cup {[status EXCEPT ![t] = "done", ![d] = "done"] : d \in {Parent[t]} \ {None}}

Reopened(d) == {[status EXCEPT ![d] = "open"]}

\* A change that is answered with success.
Accepted(changed) ==
    changed \cup (IF "ignored" \in Troubles THEN {status} ELSE {})

\* The request ends the attempt: with YunxiaoError, which will be recorded, or
\* with an exception or a death that leaves no record.
Stops(a) ==
    /\ \/ /\ "error" \in Troubles
          /\ run' = [run EXCEPT ![a].pc = "failed"]
       \/ /\ "lost" \in Troubles
          /\ run' = [run EXCEPT ![a] = Idle]
    /\ broken' = [broken EXCEPT ![run[a].item] = @ + 1]
    /\ UNCHANGED oddities

-----------------------------------------------------------------------------
(* An attempt. *)

\* Mutation: without a match, all tasks of the tree are closed.
MatchedOrAll(refs) == IF refs \cap Tasks = {} THEN Tasks ELSE refs \cap Tasks

\* Only tasks are matched; a reference to a demand or to nothing is passed over.
Matched(refs) == refs \cap Tasks

\* With no reference or no match the attempt is skipped before any request.
\* The guard on the plan and the configuration may refuse it.  Tasks are
\* visited in the order of the references, which is any order; the snapshot
\* leaves demands out that are in the plan themselves, which Matched excludes.
Begin(a) ==
    /\ phase = "APIFOX_SYNCED"
    /\ run[a].pc = "idle"
    /\ calls < MaxCalls
    /\ \E refs \in SUBSET Workitems :
          /\ Matched(refs) # {}
          /\ \E pc \in {"snapshot"} \cup ({"error"} \cap Troubles) :
                run' = [run EXCEPT ![a] =
                          [pc |-> IF pc = "error" THEN "failed" ELSE pc,
                           plan |-> Matched(refs), todo |-> Matched(refs),
                           tree |-> Demands, open |-> {}, item |-> None]]
          /\ referenced' = referenced \cup (refs \cap Tasks)
    /\ oddities' = oddities \cup (IF Quiet THEN {} ELSE {"overlap"})
    /\ calls' = calls + 1
    /\ UNCHANGED <<remote, phase, before, reported, broken, unread>>

\* Mutation: the snapshot keeps the demands without their status.
SnapshotDemandAll(a) ==
    /\ run[a].pc = "snapshot"
    /\ run' = [run EXCEPT ![a].pc = "read", ![a].open = Demands, ![a].tree = {}]
    /\ UNCHANGED <<remote, ledger, broken, unread, oddities>>

\* A demand that is done already, or has no status, will not be restored.
SnapshotDemand(a) ==
    /\ run[a].pc = "snapshot"
    /\ \/ \E d \in run[a].tree : \E s \in Said(d) :
             /\ run' = [run EXCEPT ![a].tree = @ \ {d},
                                   ![a].open = @ \cup (IF s = "open" THEN {d} ELSE {})]
             /\ UNCHANGED broken /\ Heard(s)
       \/ run[a].tree # {} /\ Stops(a)
       \/ /\ run[a].tree = {}
          /\ run' = [run EXCEPT ![a].pc = "read"]
          /\ UNCHANGED <<broken, oddities>>
    /\ UNCHANGED <<remote, ledger, unread>>

\* Mutation: tasks that are done are not passed over.
ReadTaskAgain(a) ==
    /\ run[a].pc = "read"
    /\ \/ \E t \in run[a].todo :
             run' = [run EXCEPT ![a].todo = @ \ {t}, ![a].item = t, ![a].pc = "comment"]
       \/ /\ run[a].todo = {}
          /\ run' = [run EXCEPT ![a].pc = "restore", ![a].tree = run[a].open]
    /\ UNCHANGED <<remote, ledger, broken, unread, oddities>>

\* A task that is done is passed over.  After the last one the demands follow.
ReadTask(a) ==
    /\ run[a].pc = "read"
    /\ \/ \E t \in run[a].todo : \E s \in Said(t) :
             /\ run' = IF s = "done"
                       THEN [run EXCEPT ![a].todo = @ \ {t}]
                       ELSE [run EXCEPT ![a].todo = @ \ {t}, ![a].item = t,
                                        ![a].pc = "comment"]
             /\ UNCHANGED broken /\ Heard(s)
       \/ run[a].todo # {} /\ Stops(a)
       \/ /\ run[a].todo = {}
          /\ run' = [run EXCEPT ![a].pc = "restore", ![a].tree = run[a].open]
          /\ UNCHANGED <<broken, oddities>>
    /\ UNCHANGED <<remote, ledger, unread>>

\* Mutation: a comment that fails does not end the attempt.
CommentTaskLenient(a) ==
    /\ run[a].pc = "comment"
    /\ comments' \in {comments, [comments EXCEPT ![run[a].item] = @ + 1]}
    /\ run' = [run EXCEPT ![a].pc = "update"]
    /\ UNCHANGED <<status, ledger, broken, unread, oddities>>

CommentTask(a) ==
    LET once == [comments EXCEPT ![run[a].item] = @ + 1] IN
    /\ run[a].pc = "comment"
    /\ \/ /\ comments' = once
          /\ run' = [run EXCEPT ![a].pc = "update"]
          /\ UNCHANGED <<broken, oddities>>
       \/ comments' \in {comments, once} /\ Stops(a)
    /\ UNCHANGED <<status, ledger, unread>>

UpdateTask(a) ==
    /\ run[a].pc = "update"
    /\ \/ /\ status' \in Accepted(Completed(run[a].item))
          /\ run' = [run EXCEPT ![a].pc = "verify"]
          /\ UNCHANGED <<broken, oddities>>
       \/ status' \in {status} \cup Completed(run[a].item) /\ Stops(a)
    /\ UNCHANGED <<comments, ledger, unread>>

\* Mutation: an answer of success is believed.
VerifyTaskTrusting(a) ==
    /\ run[a].pc = "verify"
    /\ run' = [run EXCEPT ![a].pc = "read", ![a].item = None]
    /\ UNCHANGED <<remote, ledger, broken, unread, oddities>>

\* An answer without a status is taken for success.
VerifyTask(a) ==
    /\ run[a].pc = "verify"
    /\ \/ \E s \in Said(run[a].item) :
          /\ Heard(s)
          /\ \/ /\ s # "open"
                /\ run' = [run EXCEPT ![a].pc = "read", ![a].item = None]
                /\ unread' = IF s = "none" THEN unread \cup {run[a].item} ELSE unread
                /\ UNCHANGED broken
             \/ /\ s = "open"
                /\ run' = [run EXCEPT ![a].pc = "failed"]
                /\ broken' = [broken EXCEPT ![run[a].item] = @ + 1]
                /\ UNCHANGED unread
       \/ Stops(a) /\ UNCHANGED unread
    /\ UNCHANGED <<remote, ledger>>

\* Mutation: the first demand that needs no restoring ends the loop.
RestoreDemandReturns(a) ==
    /\ run[a].pc = "restore"
    /\ \/ \E d \in run[a].tree :
             run' = IF status[d] = "done"
                    THEN [run EXCEPT ![a].tree = @ \ {d}, ![a].item = d,
                                     ![a].pc = "reopen"]
                    ELSE [run EXCEPT ![a].tree = {}]
       \/ /\ run[a].tree = {}
          /\ run' = [run EXCEPT ![a].pc = "closed"]
    /\ UNCHANGED <<remote, ledger, broken, unread, oddities>>

\* Only a demand that is done now is set back.
RestoreDemand(a) ==
    /\ run[a].pc = "restore"
    /\ \/ \E d \in run[a].tree : \E s \in Said(d) :
             /\ run' = IF s = "done"
                       THEN [run EXCEPT ![a].tree = @ \ {d}, ![a].item = d,
                                        ![a].pc = "reopen"]
                       ELSE [run EXCEPT ![a].tree = @ \ {d}]
             /\ UNCHANGED broken /\ Heard(s)
       \/ run[a].tree # {} /\ Stops(a)
       \/ /\ run[a].tree = {}
          /\ run' = [run EXCEPT ![a].pc = "closed"]
          /\ UNCHANGED <<broken, oddities>>
    /\ UNCHANGED <<remote, ledger, unread>>

ReopenDemand(a) ==
    /\ run[a].pc = "reopen"
    /\ \/ /\ status' \in Accepted(Reopened(run[a].item))
          /\ run' = [run EXCEPT ![a].pc = "check"]
          /\ UNCHANGED <<broken, oddities>>
       \/ status' \in {status} \cup Reopened(run[a].item) /\ Stops(a)
    /\ UNCHANGED <<comments, ledger, unread>>

\* Anything but the status of the snapshot is an error here.
CheckDemand(a) ==
    /\ run[a].pc = "check"
    /\ \/ \E s \in Said(run[a].item) :
          /\ Heard(s)
          /\ \/ /\ s = "open"
                /\ run' = [run EXCEPT ![a].pc = "restore", ![a].item = None]
                /\ UNCHANGED broken
             \/ /\ s # "open"
                /\ run' = [run EXCEPT ![a].pc = "failed"]
                /\ broken' = [broken EXCEPT ![run[a].item] = @ + 1]
       \/ Stops(a)
    /\ UNCHANGED <<remote, ledger, unread>>

\* The outcome is recorded if the workflow still waits for it.
RecordClosed(a) ==
    /\ run[a].pc = "closed"
    /\ \/ /\ phase = "APIFOX_SYNCED"
          /\ phase' = "YUNXIAO_TASK_CLOSED"
          /\ reported' = run[a].plan
       \/ /\ phase # "APIFOX_SYNCED" \/ "lost" \in Troubles
          /\ UNCHANGED <<phase, reported>>
    /\ run' = [run EXCEPT ![a] = Idle]
    /\ UNCHANGED <<remote, calls, before, referenced, broken, unread, oddities>>

RecordFailed(a) ==
    /\ run[a].pc = "failed"
    /\ phase' \in IF phase = "APIFOX_SYNCED"
                  THEN {"NEEDS_HUMAN"} \cup (IF "lost" \in Troubles THEN {phase} ELSE {})
                  ELSE {phase}
    /\ run' = [run EXCEPT ![a] = Idle]
    /\ UNCHANGED <<remote, calls, before, referenced, reported, broken, unread, oddities>>

\* A person has the closing repeated.
ResolveWorkflow ==
    /\ phase = "NEEDS_HUMAN"
    /\ phase' = "APIFOX_SYNCED"
    /\ UNCHANGED <<remote, run, calls, before, referenced, reported, broken, unread, oddities>>

Proceed(a) ==
    \/ SnapshotDemand(a) \/ ReadTask(a) \/ CommentTask(a) \/ UpdateTask(a)
    \/ VerifyTask(a) \/ RestoreDemand(a) \/ ReopenDemand(a) \/ CheckDemand(a)
    \/ RecordClosed(a) \/ RecordFailed(a)

Init ==
    /\ phase = "APIFOX_SYNCED"
    /\ status \in [Workitems -> {"open", "done"}]
    /\ comments = [w \in Workitems |-> 0]
    /\ run = [a \in Attempts |-> Idle]
    /\ calls = 0
    /\ before = status
    /\ referenced = {}
    /\ broken = [w \in Workitems \cup {None} |-> 0]
    /\ unread = {}
    /\ reported = {}
    /\ oddities = {}

Next ==
    \/ \E a \in Attempts : Begin(a) \/ Proceed(a)
    \/ ResolveWorkflow

Spec == Init /\ [][Next]_vars

-----------------------------------------------------------------------------
(* Properties. *)

TypeOK ==
    /\ phase \in Phases
    /\ status \in [Workitems -> {"open", "done"}]
    /\ comments \in [Workitems -> Nat]
    /\ run \in [Attempts -> Runs]
    /\ calls \in Nat
    /\ before \in [Workitems -> {"open", "done"}]
    /\ referenced \subseteq Tasks
    /\ broken \in [Workitems \cup {None} -> Nat]
    /\ unread \subseteq Tasks
    /\ reported \subseteq Tasks
    /\ oddities \subseteq {"overlap", "blank"}

\* A task changes, and a work item gets a comment, only if it is a task some
\* attempt's references name: the commit message is a white list, whatever the
\* tree holds and however attempts overlap.
OnlyReferencedChange ==
    /\ \A t \in Tasks : status[t] # before[t] => t \in referenced
    /\ \A w \in Workitems : comments[w] > 0 => w \in referenced

\* No task is done by the adapter without the record of its delivery: attempts
\* that stop after the comment or after the change leave no task without one.
WritebackBeforeDone ==
    \A t \in Tasks : status[t] # before[t] => comments[t] > 0

\* A closed workflow means that the tasks of the attempt that closed it are done,
\* though others ran, failed and restored demands meanwhile and changes may be
\* answered and not made; only an answer without a status hides that.
ClosedMeansDone ==
    phase = "YUNXIAO_TASK_CLOSED" =>
        \A t \in reported \ unread : status[t] = "done"

\* What an attempt knows at each step, whatever other attempts do meanwhile.
AttemptKnows(a) ==
    LET r == run[a] IN
    /\ r.todo \subseteq r.plan
    /\ r.plan \subseteq referenced
    /\ r.pc \in {"comment", "update", "verify"} => r.item \in r.plan
    /\ r.pc \in {"reopen", "check"} => r.item \in Demands
    /\ r.pc \in {"update", "verify"} => comments[r.item] > 0
    /\ r.pc \in {"restore", "reopen", "check", "closed"} => r.todo = {}
    /\ r.pc \notin {"idle", "failed"} =>
          \A t \in r.plan \ (r.todo \cup unread) :
              \/ status[t] = "done"
              \/ t = r.item /\ r.pc \in {"comment", "update", "verify"}

\* The inductive invariant: an attempt's tasks behind it are done, the one it is
\* about to change carries its comment, and only tasks can be in either place.
ClosingInv ==
    /\ OnlyReferencedChange
    /\ WritebackBeforeDone
    /\ ClosedMeansDone
    /\ \A a \in Attempts : AttemptKnows(a)

\* The demands that were open before the first attempt.
WasOpen == {d \in Demands : before[d] = "open"}

\* What an attempt will set back was open before the first attempt.
RestoresOwn(r) ==
    /\ r.pc # "idle" => r.plan # {}
    /\ r.open \subseteq WasOpen
    /\ r.pc \in {"restore", "reopen", "check"} => r.tree \subseteq WasOpen
    /\ r.pc \in {"reopen", "check"} => r.item \in WasOpen

\* A demand that was done stays done: no snapshot finds it open, none restores it.
ReopenInv == /\ \A d \in Demands \ WasOpen : status[d] = "done"
             /\ \A a \in Attempts : RestoresOwn(run[a])

\* However attempts overlap, fail and repeat, they implement what closing promises:
\* only named tasks change, after their comment and for good, only demands that
\* were open before are set back, and the workflow is closed at most once, for
\* tasks that are done.
Closing == INSTANCE TaskClosing WITH named <- referenced
ClosingSpec == Closing!Spec

\* As long as attempts come one at a time and items have a status, a task is
\* commented on again only after an attempt that stopped at this very task: what
\* was closed before a failure elsewhere is passed over by the next attempt.
CommentsAreEarned ==
    oddities = {} => \A t \in Tasks : comments[t] <= 1 + broken[t]

\* Likewise, and unless an attempt was broken off, Yunxiao's reaction to closed
\* tasks leaves no trace on the demands.
OnlyFailuresLeaveDemandsClosed ==
    oddities = {} /\ Quiet /\ (\A w \in Workitems \cup {None} : broken[w] = 0) =>
        \A d \in Demands : status[d] = before[d]

\* When the workflow is closed, closing its tasks has not completed a demand.
DemandsKeepTheirStatus ==
    Quiet /\ phase = "YUNXIAO_TASK_CLOSED" =>
        \A d \in Demands : status[d] = before[d]
=============================================================================
