--------------------------- MODULE WorkflowLedger ---------------------------
(***************************************************************************)
(* The ledger of one delivery workflow: its row of                         *)
(* adapter_workflow_instance, the requests that move it, and the events    *)
(* they append to adapter_workflow_event.                                  *)
(*                                                                         *)
(* Requests (HTTP calls of people and agents, pipeline callbacks) run      *)
(* concurrently in the server's thread pool.  A request loads the row and  *)
(* decides (one action), may call an external service (one action per      *)
(* answer), and then issues                                                *)
(*     UPDATE ... WHERE workflow_id = ? AND status = ?     and             *)
(*     INSERT INTO adapter_workflow_event                                  *)
(* as two statements of an autocommit connection: two transactions.        *)
(* Anything may happen in between, so each is an action of its own.        *)
(* Requests that the loaded status turns away change nothing and are not   *)
(* modelled.                                                               *)
(*                                                                         *)
(* Of context_json only the parts that relate to columns or to external    *)
(* state are kept; a build stands for (pipelineId, buildNumber), an item   *)
(* for what one creation call makes in Yunxiao (a work item or a tree).    *)
(***************************************************************************)
EXTENDS Integers, FiniteSets

CONSTANTS
    Requests,  \* the threads that serve requests for this workflow
    Builds,    \* pipeline runs that report back, in any order, repeatedly
    Items,     \* bound: work items that creation calls can make
    Limit,     \* the largest maxRetryCount a caller sends
    MaxFaults, \* bound: failures are answered while fewer were charged
    Kinds,     \* the kinds of request in the workload
    Faulty,    \* whether a request can die (process crash, lost connection)
    None       \* NULL, and a value that an UPDATE does not assign

AllKinds == {"advance", "requirement", "resolve", "coding", "retry",
             "running", "success", "failure"}

ASSUME SetsAreFinite == IsFiniteSet(Requests) /\ IsFiniteSet(Items)
ASSUME NoneIsNoValue == None \notin Items /\ None \notin Builds
ASSUME LimitsAreNatural == Limit \in Nat \ {0} /\ MaxFaults \in Nat
ASSUME WorkloadIsKnown == Kinds \subseteq AllKinds /\ Faulty \in BOOLEAN

VARIABLES
    row,      \* the row of adapter_workflow_instance
    req,      \* what each thread is doing
    made,     \* items of which a creation call may have made anything in Yunxiao
    closed,   \* items whose referenced tasks have been moved to done
    imported, \* history: Apifox has reported a successful import
    retries,  \* history: retries that were written to the row
    logged,   \* history: per status, events into it less events out of it
    lost      \* history: an UPDATE was committed whose event never will be

vars == <<row, req, made, closed, imported, retries, logged, lost>>
outside == <<made, closed, imported>>
history == <<retries, logged, lost>>

Statuses ==
    {"CREATED", "DOC_READ", "REQUIREMENT_PARSED", "YUNXIAO_TASK_CREATED",
     "CODING_REQUESTED", "CODE_SUBMITTED", "PIPELINE_RUNNING",
     "PIPELINE_SUCCESS", "PIPELINE_FAILED", "APIFOX_SYNCED",
     "YUNXIAO_TASK_CLOSED", "NEEDS_HUMAN", "FAILED"}

PIPELINE_SUCCESS_FROM_STATUSES ==
    {"CODING_REQUESTED", "CODE_SUBMITTED", "PIPELINE_RUNNING"}
PIPELINE_FAILURE_FROM_STATUSES ==
    PIPELINE_SUCCESS_FROM_STATUSES \cup {"PIPELINE_SUCCESS"}
PIPELINE_RUNNING_FROM_STATUSES == {"CODING_REQUESTED", "CODE_SUBMITTED"}
\* Mutation: a person may declare the work item closed.
ResolvableClosed ==
    {"APIFOX_SYNCED", "PIPELINE_SUCCESS", "CODING_REQUESTED", "YUNXIAO_TASK_CLOSED"}

RESOLVABLE_TARGET_STATUSES ==
    {"APIFOX_SYNCED", "PIPELINE_SUCCESS", "CODING_REQUESTED"}
CODING_RESULT_FROM_STATUSES == {"REQUIREMENT_PARSED", "CODING_REQUESTED"}

Contexts == [created  : Items \cup {None},   \* yunxiao.createResult
             pipeline : Builds \cup {None},  \* pipeline
             failure  : Builds \cup {None},  \* pipelineFailure
             close    : Items \cup {None}]   \* yunxiao.closeResult

ASSUME NoneIsNoContext == None \notin Contexts

Rows == [status   : Statuses,
         attempts : Nat,                  \* retry_count
         error    : BOOLEAN,              \* last_error IS NOT NULL
         taskId   : Items \cup {None},    \* yunxiao_task_id
         build    : Builds \cup {None},   \* yunxiao_pipeline_id, _build_number
         ctx      : Contexts]             \* context_json

\* What a request still uses of the row it loaded, once it calls out.
Snapshots == [status : Statuses, taskId : Items \cup {None}, ctx : Contexts]

\* One UPDATE of the row: its WHERE status and its SET clause.
Updates == [from : Statuses, to : Statuses,
            ctx : Contexts \cup {None},
            taskId : Items \cup {None},
            build : Builds \cup {None},
            error : {"keep", "set", "null"},
            bump : BOOLEAN]

Threads == [pc    : {"idle", "call", "import", "write", "log"},
            kind  : AllKinds \cup {None},
            build : Builds \cup {None},   \* the build a callback reports
            snap  : Snapshots \cup {None}, \* the row as the request loaded it
            upd   : Updates \cup {None}]  \* the UPDATE it has decided on

Idle == [pc |-> "idle", kind |-> None, build |-> None, snap |-> None, upd |-> None]

EmptyContext == [created |-> None, pipeline |-> None, failure |-> None, close |-> None]

-----------------------------------------------------------------------------
(* The UPDATEs of app/db.py. *)

\* _update_workflow_state: context is always assigned, other columns only
\* when the caller passes a value.
StateUpdate(from, to, ctx) ==
    [from |-> from, to |-> to, ctx |-> ctx, taskId |-> None, build |-> None,
     error |-> "null", bump |-> FALSE]

\* Mutation: reading the document skips the parsing of the requirement.
DocReadSkipsParsing(ctx) == StateUpdate("CREATED", "REQUIREMENT_PARSED", ctx)
\* Mutation: the second UPDATE expects the status before the first.
CodingRequestedEarly(ctx) == StateUpdate("REQUIREMENT_PARSED", "CODING_REQUESTED", ctx)
\* Mutation: the build number columns are not assigned.
PipelineSuccessNoBuild(from, build, ctx) == StateUpdate(from, "PIPELINE_SUCCESS", ctx)
PipelineFailedNoBuild(from, build, ctx) ==
    [StateUpdate(from, "PIPELINE_FAILED", ctx) EXCEPT !.error = "set"]

DocRead(ctx) == StateUpdate("CREATED", "DOC_READ", ctx)
RequirementParsed(ctx) == StateUpdate("DOC_READ", "REQUIREMENT_PARSED", ctx)
CodingResult(from, ctx) == StateUpdate(from, "CODE_SUBMITTED", ctx)
TaskCreated(item, ctx) ==
    [StateUpdate("REQUIREMENT_PARSED", "YUNXIAO_TASK_CREATED", ctx) EXCEPT !.taskId = item]
CodingRequested(ctx) == StateUpdate("YUNXIAO_TASK_CREATED", "CODING_REQUESTED", ctx)
PipelineRunning(build, ctx) ==
    [StateUpdate("CODE_SUBMITTED", "PIPELINE_RUNNING", ctx) EXCEPT !.build = build]
PipelineSuccess(from, build, ctx) ==
    [StateUpdate(from, "PIPELINE_SUCCESS", ctx) EXCEPT !.build = build]
PipelineFailed(from, build, ctx) ==
    [StateUpdate(from, "PIPELINE_FAILED", ctx) EXCEPT !.build = build, !.error = "set"]
ApifoxSynced(ctx) == StateUpdate("PIPELINE_SUCCESS", "APIFOX_SYNCED", ctx)
TaskClosed(ctx) == StateUpdate("APIFOX_SYNCED", "YUNXIAO_TASK_CLOSED", ctx)

\* Mutation: an import that did not finish moves the workflow on.
ApifoxResultSynced(ctx) == StateUpdate("PIPELINE_SUCCESS", "APIFOX_SYNCED", ctx)

\* record_workflow_apifox_result, record_workflow_context_event
ApifoxResult(ctx) ==
    [StateUpdate("PIPELINE_SUCCESS", "PIPELINE_SUCCESS", ctx) EXCEPT !.error = "set"]
ContextEvent(ctx) ==
    [StateUpdate("APIFOX_SYNCED", "APIFOX_SYNCED", ctx) EXCEPT !.error = "keep"]

\* mark_workflow_needs_human and resolve_workflow_needs_human leave the
\* context alone when they are given none.
NeedsHuman(from, ctx) ==
    [StateUpdate(from, "NEEDS_HUMAN", ctx) EXCEPT !.error = "set", !.bump = TRUE]
Resolved(target, ctx) == StateUpdate("NEEDS_HUMAN", target, ctx)

\* retry_workflow_from_pipeline_failed, record_workflow_error
Retried ==
    [StateUpdate("PIPELINE_FAILED", "CODING_REQUESTED", None) EXCEPT !.bump = TRUE]
RecordedError(status) ==
    [StateUpdate(status, status, None) EXCEPT !.error = "set", !.bump = TRUE]

\* The row after the UPDATE u of the row w.
Applied(u, w) ==
    [w EXCEPT
        !.status = u.to,
        !.ctx = IF u.ctx = None THEN @ ELSE u.ctx,
        !.taskId = IF u.taskId = None THEN @ ELSE u.taskId,
        !.build = IF u.build = None THEN @ ELSE u.build,
        !.error = IF u.error = "keep" THEN @ ELSE u.error = "set",
        !.attempts = IF u.bump THEN @ + 1 ELSE @]

-----------------------------------------------------------------------------
(* How a request proceeds. *)

Arrives(r, kind) == kind \in Kinds /\ req[r].pc = "idle"

\* The request knows its UPDATE and needs nothing more from outside.
Decides(r, kind, build, upd) ==
    req' = [req EXCEPT ![r] = [pc |-> "write", kind |-> kind, build |-> build,
                               snap |-> None, upd |-> upd]]

Snapshot == [status |-> row.status, taskId |-> row.taskId, ctx |-> row.ctx]

\* The request calls an external service and keeps the row it loaded.
CallsOut(r, pc, kind, build) ==
    req' = [req EXCEPT ![r] = [pc |-> pc, kind |-> kind, build |-> build,
                               snap |-> Snapshot, upd |-> None]]

Answers(r, upd) == Decides(r, req[r].kind, req[r].build, upd)

Ends(r) == req' = [req EXCEPT ![r] = Idle]

Calling(r, status) == req[r].pc = "call" /\ req[r].snap.status = status

\* Bound: external failures charged to the row so far.
MayFail == row.attempts - retries < MaxFaults

Absent == Items \ made
Creators == {r \in Requests : Calling(r, "REQUIREMENT_PARSED")}

-----------------------------------------------------------------------------
(* Requests that need no external call: load, check, decide. *)

SubmitRequirement(r) ==
    /\ Arrives(r, "requirement")
    /\ row.status = "DOC_READ"
    /\ \/ Decides(r, "requirement", None, RequirementParsed(row.ctx))
       \/ \* the document's project is not configured: ask a person to choose
          /\ MayFail
          /\ Decides(r, "requirement", None, NeedsHuman("DOC_READ", row.ctx))
    /\ UNCHANGED <<row, outside, history>>

\* The target is the caller's choice, whatever led to NEEDS_HUMAN.
ResolveWorkflow(r) ==
    /\ Arrives(r, "resolve")
    /\ row.status = "NEEDS_HUMAN"
    /\ \/ \E target \in RESOLVABLE_TARGET_STATUSES :
              Decides(r, "resolve", None, Resolved(target, None))
       \/ \* PROJECT_SELECTED
          Decides(r, "resolve", None, Resolved("REQUIREMENT_PARSED", row.ctx))
    /\ UNCHANGED <<row, outside, history>>

SubmitCodingResult(r) ==
    /\ Arrives(r, "coding")
    /\ row.status \in CODING_RESULT_FROM_STATUSES
    /\ Decides(r, "coding", None, CodingResult(row.status, row.ctx))
    /\ UNCHANGED <<row, outside, history>>

\* Mutation: the limit is off by one.
RetryWorkflowOffByOne(r) ==
    /\ Arrives(r, "retry")
    /\ row.status = "PIPELINE_FAILED"
    /\ row.attempts <= Limit
    /\ Decides(r, "retry", None, Retried)
    /\ UNCHANGED <<row, outside, history>>

\* The SELECT ... FOR UPDATE repeats the checks on the loaded row, and its lock
\* ends with its own autocommit transaction, before the UPDATE is issued.
RetryWorkflow(r) ==
    /\ Arrives(r, "retry")
    /\ row.status = "PIPELINE_FAILED"
    /\ row.attempts < Limit
    /\ Decides(r, "retry", None, Retried)
    /\ UNCHANGED <<row, outside, history>>

HandlePipelineRunning(r) ==
    /\ Arrives(r, "running")
    /\ row.status \in PIPELINE_RUNNING_FROM_STATUSES
    /\ \E b \in Builds :
          Decides(r, "running", b, PipelineRunning(b, [row.ctx EXCEPT !.pipeline = b]))
    /\ UNCHANGED <<row, outside, history>>

HandlePipelineFailure(r) ==
    /\ Arrives(r, "failure")
    /\ row.status \in PIPELINE_FAILURE_FROM_STATUSES
    /\ \E b \in Builds :
          Decides(r, "failure", b,
                  PipelineFailed(row.status, b,
                                 [row.ctx EXCEPT !.pipeline = b, !.failure = b]))
    /\ UNCHANGED <<row, outside, history>>

\* A success is marked first and imported afterwards; at PIPELINE_SUCCESS it is
\* imported again, at APIFOX_SYNCED only the context is refreshed.
HandlePipelineSuccess(r) ==
    /\ Arrives(r, "success")
    /\ \E b \in Builds :
          \/ /\ row.status \in PIPELINE_SUCCESS_FROM_STATUSES
             /\ Decides(r, "success", b,
                        PipelineSuccess(row.status, b, [row.ctx EXCEPT !.pipeline = b]))
          \/ /\ row.status = "PIPELINE_SUCCESS"
             /\ CallsOut(r, "import", "success", b)
          \/ /\ row.status = "APIFOX_SYNCED"
             /\ Decides(r, "success", b, ContextEvent([row.ctx EXCEPT !.pipeline = b]))
    /\ UNCHANGED <<row, outside, history>>

-----------------------------------------------------------------------------
(* advance_workflow and the external calls. *)

AdvanceWorkflow(r) ==
    /\ Arrives(r, "advance")
    /\ \/ row.status \in {"CREATED", "APIFOX_SYNCED"}
       \/ /\ row.status = "REQUIREMENT_PARSED"
          /\ row.taskId = None
          /\ Cardinality(Creators) < Cardinality(Absent)
    /\ CallsOut(r, "call", "advance", None)
    /\ UNCHANGED <<row, outside, history>>

\* In each call below, a socket that times out while the answer is read raises
\* an error that no handler expects: the request ends and records nothing.

ReadDoc(r) ==
    /\ Calling(r, "CREATED")
    /\ \/ Answers(r, DocRead(req[r].snap.ctx))
       \/ MayFail /\ Answers(r, RecordedError("CREATED"))
       \/ Ends(r)
    /\ UNCHANGED <<row, outside, history>>

\* Success means that all of it was made (RequirementTree has the single calls); a
\* creation that is not answered with success can have made nothing or any of it.
CreateWorkitem(r) ==
    /\ Calling(r, "REQUIREMENT_PARSED")
    /\ \E i \in Absent :
          \/ /\ made' = made \cup {i}
             /\ Answers(r, TaskCreated(i, [req[r].snap.ctx EXCEPT !.created = i]))
          \/ /\ made' \in {made, made \cup {i}}
             /\ \/ MayFail /\ Answers(r, RecordedError("REQUIREMENT_PARSED"))
                \/ Ends(r)
    /\ UNCHANGED <<row, closed, imported, history>>

\* A tree's tasks come from the context, a single work item from the column or,
\* failing that, from the context.
CloseTargets(w) == {w.taskId, w.ctx.created} \ {None}

CloseWorkitem(r) ==
    LET w == req[r].snap IN
    /\ Calling(r, "APIFOX_SYNCED")
    /\ \/ \E i \in CloseTargets(w) :
             /\ closed' = closed \cup {i}
             /\ Answers(r, TaskClosed([w.ctx EXCEPT !.close = i]))
       \/ \* no reference names a task of this workflow: skipped
          Ends(r) /\ UNCHANGED closed
       \/ \* refused, or failed on one of the tasks
          /\ closed' \in {closed} \cup {closed \cup {i} : i \in CloseTargets(w)}
          /\ \/ MayFail /\ Answers(r, NeedsHuman("APIFOX_SYNCED", None))
             \/ Ends(r)
    /\ UNCHANGED <<row, made, imported, history>>

ImportOpenapi(r) ==
    LET ctx == req[r].snap.ctx IN
    /\ req[r].pc = "import"
    /\ \/ imported' = TRUE /\ Answers(r, ApifoxSynced(ctx))
       \/ imported' = imported /\ Answers(r, ApifoxResult(ctx))
       \/ imported' \in {imported, TRUE} /\ Ends(r)
    /\ UNCHANGED <<row, made, closed, history>>

-----------------------------------------------------------------------------
(* The two statements, and what follows them. *)

\* Mutation: the UPDATE has no "AND status = ?".
UpdateRowUnguarded(r) ==
    /\ req[r].pc = "write"
    /\ row' = Applied(req[r].upd, row)
    /\ req' = [req EXCEPT ![r].pc = "log"]
    /\ UNCHANGED <<outside, history>>

\* cursor.rowcount counts changed rows: it is 0 when the status has moved, and
\* also when the UPDATE assigns what the row holds already.  The columns that
\* are not modelled may differ, so an identical row may or may not count.
UpdateRow(r) ==
    LET u == req[r].upd IN
    /\ req[r].pc = "write"
    /\ \/ /\ row.status = u.from
          /\ row' = Applied(u, row)
          /\ req' = [req EXCEPT ![r].pc = "log"]
          /\ retries' = IF req[r].kind = "retry" THEN retries + 1 ELSE retries
       \/ /\ row.status # u.from \/ Applied(u, row) = row
          /\ Ends(r)
          /\ UNCHANGED <<row, retries>>
    /\ UNCHANGED <<outside, logged, lost>>

\* The INSERT, the reload of the row, and the handler's continuation: a created
\* work item is followed by the coding request, a marked success by the import.
InsertEvent(r) ==
    LET u == req[r].upd IN
    /\ req[r].pc = "log"
    /\ logged' = IF lost THEN logged
                 ELSE [logged EXCEPT ![u.from] = @ - 1, ![u.to] = @ + 1]
    /\ IF u.to = "YUNXIAO_TASK_CREATED"
       THEN Decides(r, req[r].kind, None, CodingRequested(row.ctx))
       ELSE IF req[r].kind = "success" /\ u.to = "PIPELINE_SUCCESS" /\ u.from # u.to
            THEN CallsOut(r, "import", "success", req[r].build)
            ELSE Ends(r)
    /\ UNCHANGED <<row, outside, retries, lost>>

\* The process crashes or the connection drops between two steps.  Once an event
\* is lost the history of events says nothing any more and is given up.
Abort(r) ==
    /\ Faulty
    /\ req[r].pc # "idle"
    /\ Ends(r)
    /\ IF req[r].pc = "log"
       THEN lost' = TRUE /\ logged' = [s \in Statuses |-> 0]
       ELSE UNCHANGED <<lost, logged>>
    /\ UNCHANGED <<row, outside, retries>>

-----------------------------------------------------------------------------

\* start_workflow also stores a context its caller sends: assumed to have none of the
\* parts that are kept here, which later requests write.
Init == /\ row = [status |-> "CREATED", attempts |-> 0, error |-> FALSE,
                  taskId |-> None, build |-> None, ctx |-> EmptyContext]
        /\ req = [r \in Requests |-> Idle]
        /\ made = {}
        /\ closed = {}
        /\ imported = FALSE
        /\ retries = 0
        /\ logged = [s \in Statuses |-> IF s = "CREATED" THEN 1 ELSE 0]
        /\ lost = FALSE

Arrive(r) == \/ SubmitRequirement(r)
             \/ ResolveWorkflow(r)
             \/ SubmitCodingResult(r)
             \/ RetryWorkflow(r)
             \/ HandlePipelineRunning(r)
             \/ HandlePipelineFailure(r)
             \/ HandlePipelineSuccess(r)
             \/ AdvanceWorkflow(r)

Proceed(r) == \/ ReadDoc(r)
              \/ CreateWorkitem(r)
              \/ CloseWorkitem(r)
              \/ ImportOpenapi(r)
              \/ UpdateRow(r)
              \/ InsertEvent(r)

Next == \E r \in Requests : Arrive(r) \/ Proceed(r) \/ Abort(r)

Spec == Init /\ [][Next]_vars

\* Every call has a time-out and no step waits for another request, so a request
\* that has started goes on.  Nothing makes a request arrive.
FairSpec == Spec /\ \A r \in Requests : WF_vars(Proceed(r))

-----------------------------------------------------------------------------
(* Properties of every workload. *)

Started(r) == req[r].pc \in {"call", "import"}
Pending(r) == req[r].pc \in {"write", "log"}

\* Every variable stays in its set, and a thread holds the snapshot or the
\* UPDATE that its next step reads.
TypeOK == /\ row \in Rows
          /\ req \in [Requests -> Threads]
          /\ \A r \in Requests : /\ Started(r) => req[r].snap \in Snapshots
                                 /\ Pending(r) => req[r].upd \in Updates
          /\ made \subseteq Items
          /\ closed \subseteq Items
          /\ imported \in BOOLEAN
          /\ retries \in Nat
          /\ logged \in [Statuses -> Int]
          /\ lost \in BOOLEAN

Logging(edge, status) ==
    Cardinality({r \in Requests : req[r].pc = "log" /\ req[r].upd[edge] = status})

\* The events explain the status: whatever the order in which rows and events
\* were written, the appended events and those still to be appended form a path
\* from CREATED to the present status, unless a crash lost an event.
LogAccountsForStatus ==
    ~lost => \A s \in Statuses :
        logged[s] + Logging("to", s) - Logging("from", s) = IF row.status = s THEN 1 ELSE 0

\* A workflow is only closed with a work item bound to it, after an import that
\* Apifox reported, and after the item named in its close result was closed; and
\* nothing is ever closed in Yunxiao before an import.  Late callbacks, stale
\* snapshots and resolve's free choice of target do not get around it.
CloseIsEarned ==
    /\ closed # {} => imported
    /\ row.status = "YUNXIAO_TASK_CLOSED" =>
          row.taskId # None /\ imported /\ row.ctx.close \in closed

\* The retries written exceed the limit by at most one for every further request
\* that passed the check before the others' UPDATEs.
RetryOvershootBounded == retries <= Limit + Cardinality(Requests) - 1

\* A failed workflow names one build in its columns, its pipeline context and its
\* failure analysis, and a workflow that waits for a person says why.
FailureIsAttributed ==
    /\ row.status = "PIPELINE_FAILED" =>
          row.error /\ row.build # None /\ row.build = row.ctx.pipeline
                    /\ row.build = row.ctx.failure
    /\ row.status = "NEEDS_HUMAN" => row.error

\* The ledger, whatever its requests do and whichever of them die, implements
\* the lifecycle the adapter promises.
Lifecycle == INSTANCE DeliveryLifecycle
    WITH status <- row.status, attempts <- row.attempts,
         filed <- row.taskId # None, imported <- imported
LifecycleSpec == Lifecycle!Spec

-----------------------------------------------------------------------------
(* Properties of particular workloads. *)

\* Until somebody retries or resolves, the columns and the context written by
\* different requests agree, however the requests overlap.
ContextMatchesColumns ==
    /\ row.taskId = row.ctx.created
    /\ row.status \in {"PIPELINE_RUNNING", "PIPELINE_SUCCESS", "PIPELINE_FAILED"} =>
          row.build = row.ctx.pipeline

\* The running handler only accepts a workflow in the status its UPDATE asks for, as
\* long as no other request moves the row in between.
RunningIsWritable ==
    \A r \in Requests :
        req[r].pc = "write" /\ req[r].kind = "running" => row.status = req[r].upd.from

\* A created work item is followed by the coding request.
TaskCreatedLeadsOn ==
    row.status = "YUNXIAO_TASK_CREATED" ~> row.status = "CODING_REQUESTED"

-----------------------------------------------------------------------------
(* The inductive invariant behind CloseIsEarned and LifecycleSpec. *)

\* The edges an UPDATE can carry, with the columns it assigns on them.
Allowed(u) ==
    \/ /\ <<u.from, u.to>> \in Lifecycle!MainLine
       /\ u.taskId = None /\ ~u.bump
    \/ /\ u.from = u.to /\ u.from \in {"PIPELINE_SUCCESS", "APIFOX_SYNCED"}
       /\ u.taskId = None /\ ~u.bump
    \/ /\ u.from = "REQUIREMENT_PARSED" /\ u.to = "YUNXIAO_TASK_CREATED"
       /\ u.taskId # None /\ ~u.bump
    \/ /\ u.from = "PIPELINE_SUCCESS" /\ u.to = "APIFOX_SYNCED"
       /\ u.taskId = None /\ ~u.bump /\ imported
    \/ /\ u.from = "APIFOX_SYNCED" /\ u.to = "YUNXIAO_TASK_CLOSED"
       /\ u.taskId = None /\ ~u.bump /\ imported
       /\ row.taskId # None /\ u.ctx # None /\ u.ctx.close \in closed
    \/ /\ u.from \in {"DOC_READ", "APIFOX_SYNCED"} /\ u.to = "NEEDS_HUMAN"
       /\ u.taskId = None /\ u.bump
    \/ /\ u.from = "NEEDS_HUMAN" /\ u.to \in Lifecycle!ResolveTargets
       /\ u.taskId = None /\ ~u.bump
    \/ /\ u.from = "PIPELINE_FAILED" /\ u.to = "CODING_REQUESTED"
       /\ u.taskId = None /\ u.bump
    \/ /\ u.from = u.to /\ u.from \in {"CREATED", "REQUIREMENT_PARSED"}
       /\ u.taskId = None /\ u.bump

\* The row: a recorded creation is bound; nothing is bound before the requirement
\* is parsed; a bound workflow only waits for a person, is synced or is closed
\* after an import.
RowIsEarned ==
    /\ row.ctx.created # None => row.taskId # None
    /\ row.status \in {"CREATED", "DOC_READ"} => row.taskId = None
    /\ row.status \in {"NEEDS_HUMAN", "APIFOX_SYNCED", "YUNXIAO_TASK_CLOSED"}
          /\ row.taskId # None => imported

\* What a thread carries was true when it was loaded and has stayed true.
ThreadIsEarned(r) ==
    /\ Started(r) =>
          /\ req[r].snap.taskId # None => row.taskId # None
          /\ req[r].snap.ctx.created # None => row.taskId # None
          /\ req[r].snap.status = "APIFOX_SYNCED" /\ CloseTargets(req[r].snap) # {} => imported
    /\ req[r].pc = "write" =>
          /\ Allowed(req[r].upd)
          /\ req[r].upd.ctx # None /\ req[r].upd.ctx.created # None =>
                row.taskId # None \/ req[r].upd.taskId # None

\* The conjunction that every step preserves.
EarnedInv == /\ TypeOK
             /\ RowIsEarned
             /\ CloseIsEarned
             /\ \A r \in Requests : ThreadIsEarned(r)
=============================================================================
