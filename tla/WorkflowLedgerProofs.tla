------------------------ MODULE WorkflowLedgerProofs ------------------------
(***************************************************************************)
(* Theorems about WorkflowLedger, for any number of requests, builds and   *)
(* items, any limit, and with or without crashes.                          *)
(***************************************************************************)
EXTENDS WorkflowLedger, FiniteSetTheorems, TLAPS

-----------------------------------------------------------------------------
(* Types of the helpers. *)

ThreadsOK == /\ req \in [Requests -> Threads]
             /\ \A r \in Requests : /\ Started(r) => req[r].snap \in Snapshots
                                    /\ Pending(r) => req[r].upd \in Updates

\* The generic UPDATE is one.
LEMMA StateUpdateType ==
    ASSUME NEW from \in Statuses, NEW to \in Statuses, NEW ctx \in Contexts \cup {None}
    PROVE  StateUpdate(from, to, ctx) \in Updates
BY DEF StateUpdate, Updates

\* An UPDATE of a row yields a row.
LEMMA AppliedType ==
    ASSUME NEW u \in Updates, NEW w \in Rows
    PROVE  Applied(u, w) \in Rows
<1> DEFINE ctx == IF u.ctx = None THEN w.ctx ELSE u.ctx
           taskId == IF u.taskId = None THEN w.taskId ELSE u.taskId
           build == IF u.build = None THEN w.build ELSE u.build
           error == IF u.error = "keep" THEN w.error ELSE u.error = "set"
           attempts == IF u.bump THEN w.attempts + 1 ELSE w.attempts
<1>1. u.to \in Statuses /\ ctx \in Contexts
  BY DEF Updates, Rows
<1>2. taskId \in Items \cup {None} /\ build \in Builds \cup {None}
  BY DEF Updates, Rows
<1>3. attempts \in Nat
  BY DEF Updates, Rows
<1>4. w.error \in BOOLEAN
  BY DEF Rows
<1>5. error \in BOOLEAN
  BY <1>4, Zenon
<1>6. Applied(u, w) = [w EXCEPT !.status = u.to, !.ctx = ctx, !.taskId = taskId,
                                !.build = build, !.error = error, !.attempts = attempts]
  BY DEF Applied
<1> HIDE DEF ctx, taskId, build, error, attempts
<1>7. QED
  BY <1>1, <1>2, <1>3, <1>5, <1>6 DEF Rows

\* A loaded row is a snapshot.
LEMMA SnapshotType == row \in Rows => Snapshot \in Snapshots
BY DEF Snapshot, Rows, Snapshots

\* Deciding on an UPDATE leaves every thread in shape.
LEMMA DecidesType ==
    ASSUME ThreadsOK, NEW r \in Requests, NEW kind \in AllKinds \cup {None},
           NEW build \in Builds \cup {None}, NEW upd \in Updates,
           Decides(r, kind, build, upd)
    PROVE  ThreadsOK'
<1>1. req' \in [Requests -> Threads]
  BY DEF ThreadsOK, Decides, Threads
<1>2. ASSUME NEW s \in Requests
      PROVE  /\ Started(s)' => req'[s].snap \in Snapshots
             /\ Pending(s)' => req'[s].upd \in Updates
  BY DEF ThreadsOK, Decides, Started, Pending
<1>3. QED
  BY <1>1, <1>2 DEF ThreadsOK

\* Calling out leaves every thread in shape.
LEMMA CallsOutType ==
    ASSUME ThreadsOK, row \in Rows, NEW r \in Requests, NEW pc \in {"call", "import"},
           NEW kind \in AllKinds \cup {None}, NEW build \in Builds \cup {None},
           CallsOut(r, pc, kind, build)
    PROVE  ThreadsOK'
<1>1. Snapshot \in Snapshots
  BY SnapshotType
<1>2. req' \in [Requests -> Threads]
  BY <1>1 DEF ThreadsOK, CallsOut, Threads
<1>3. ASSUME NEW s \in Requests
      PROVE  /\ Started(s)' => req'[s].snap \in Snapshots
             /\ Pending(s)' => req'[s].upd \in Updates
  BY <1>1 DEF ThreadsOK, CallsOut, Started, Pending
<1>4. QED
  BY <1>2, <1>3 DEF ThreadsOK

\* Ending leaves every thread in shape.
LEMMA EndsType ==
    ASSUME ThreadsOK, NEW r \in Requests, Ends(r)
    PROVE  ThreadsOK'
<1>1. req' \in [Requests -> Threads]
  BY DEF ThreadsOK, Ends, Idle, Threads
<1>2. ASSUME NEW s \in Requests
      PROVE  /\ Started(s)' => req'[s].snap \in Snapshots
             /\ Pending(s)' => req'[s].upd \in Updates
  BY DEF ThreadsOK, Ends, Idle, Started, Pending
<1>3. QED
  BY <1>1, <1>2 DEF ThreadsOK

\* An answer to a call is a decision.
LEMMA AnswersType ==
    ASSUME ThreadsOK, NEW r \in Requests, NEW upd \in Updates, Answers(r, upd)
    PROVE  ThreadsOK'
<1>1. req[r].kind \in AllKinds \cup {None} /\ req[r].build \in Builds \cup {None}
  BY DEF ThreadsOK, Threads
<1>2. QED
  BY <1>1, DecidesType DEF Answers

-----------------------------------------------------------------------------
(* Type correctness. *)

RestOK == /\ row \in Rows
          /\ made \subseteq Items
          /\ closed \subseteq Items
          /\ imported \in BOOLEAN
          /\ retries \in Nat
          /\ logged \in [Statuses -> Int]
          /\ lost \in BOOLEAN

LEMMA TypeParts == TypeOK <=> ThreadsOK /\ RestOK
BY DEF TypeOK, ThreadsOK, RestOK

\* Changing the columns of an UPDATE leaves an UPDATE.
LEMMA ExceptTypes ==
    ASSUME NEW u \in Updates, NEW i \in Items \cup {None}, NEW b \in Builds \cup {None},
           NEW e \in {"keep", "set", "null"}, NEW p \in BOOLEAN
    PROVE  /\ [u EXCEPT !.taskId = i] \in Updates
           /\ [u EXCEPT !.build = b] \in Updates
           /\ [u EXCEPT !.build = b, !.error = e] \in Updates
           /\ [u EXCEPT !.error = e] \in Updates
           /\ [u EXCEPT !.error = e, !.bump = p] \in Updates
           /\ [u EXCEPT !.bump = p] \in Updates
BY DEF Updates

\* A merged context is a context.
LEMMA ContextTypes ==
    ASSUME NEW ctx \in Contexts, NEW b \in Builds \cup {None}, NEW i \in Items \cup {None}
    PROVE  /\ [ctx EXCEPT !.pipeline = b] \in Contexts
           /\ [ctx EXCEPT !.pipeline = b, !.failure = b] \in Contexts
           /\ [ctx EXCEPT !.created = i] \in Contexts
           /\ [ctx EXCEPT !.close = i] \in Contexts
BY DEF Contexts

LEMMA TypeInit == Init => TypeOK
<1> SUFFICES ASSUME Init PROVE TypeOK
  OBVIOUS
<1>1. row \in Rows
  BY DEF Init, Rows, Statuses, Contexts, EmptyContext
<1>2. ThreadsOK
  BY DEF Init, ThreadsOK, Threads, Idle, Started, Pending
<1>3. logged \in [Statuses -> Int]
  BY DEF Init
<1>4. /\ made \subseteq Items
      /\ closed \subseteq Items
      /\ imported \in BOOLEAN /\ lost \in BOOLEAN
  BY DEF Init
<1>5. retries \in Nat
  BY DEF Init
<1>6. QED
  BY <1>1, <1>2, <1>3, <1>4, <1>5, TypeParts DEF RestOK

\* A request that arrives changes its thread only, to a well-typed one.
LEMMA TypeArrive ==
    ASSUME TypeOK, NEW r \in Requests, Arrive(r)
    PROVE  TypeOK'
<1>1. ThreadsOK /\ RestOK
  BY TypeParts
<1>2. row \in Rows /\ row.ctx \in Contexts /\ row.status \in Statuses
  BY <1>1 DEF RestOK, Rows
<1>3. RestOK'
  BY <1>1 DEF RestOK, Arrive, SubmitRequirement, ResolveWorkflow, SubmitCodingResult,
     RetryWorkflow, HandlePipelineRunning, HandlePipelineFailure, HandlePipelineSuccess,
     AdvanceWorkflow, outside, history
<1>4. AllKinds = {"advance", "requirement", "resolve", "coding", "retry",
                  "running", "success", "failure"}
  BY DEF AllKinds
<1> SUFFICES ThreadsOK'
  BY <1>3 DEF TypeOK, ThreadsOK, RestOK
<1>5. CASE SubmitRequirement(r)
  <2>1. RequirementParsed(row.ctx) \in Updates /\ NeedsHuman("DOC_READ", row.ctx) \in Updates
    BY <1>2, StateUpdateType, ExceptTypes DEF RequirementParsed, NeedsHuman, Statuses
  <2>2. QED
    BY <1>1, <1>4, <1>5, <2>1, DecidesType DEF SubmitRequirement
<1>6. CASE ResolveWorkflow(r)
  <2>1. PICK u \in Updates : Decides(r, "resolve", None, u)
    BY <1>2, <1>6, StateUpdateType
       DEF ResolveWorkflow, Resolved, RESOLVABLE_TARGET_STATUSES, Statuses
  <2>2. QED
    BY <1>1, <1>4, <2>1, DecidesType
<1>7. CASE SubmitCodingResult(r)
  <2>1. CodingResult(row.status, row.ctx) \in Updates
    BY <1>2, StateUpdateType DEF CodingResult, Statuses
  <2>2. QED
    BY <1>1, <1>4, <1>7, <2>1, DecidesType DEF SubmitCodingResult
<1>8. CASE RetryWorkflow(r)
  <2>1. Retried \in Updates
    BY StateUpdateType, ExceptTypes DEF Retried, Statuses
  <2>2. QED
    BY <1>1, <1>4, <1>8, <2>1, DecidesType DEF RetryWorkflow
<1>9. CASE HandlePipelineRunning(r)
  <2> DEFINE merged(b) == [row.ctx EXCEPT !.pipeline = b]
  <2>1. PICK b \in Builds : Decides(r, "running", b, PipelineRunning(b, merged(b)))
    BY <1>9 DEF HandlePipelineRunning
  <2>2. merged(b) \in Contexts
    BY <1>2, ContextTypes
  <2>3. PipelineRunning(b, merged(b)) \in Updates
    BY <2>2, StateUpdateType, ExceptTypes DEF PipelineRunning, Statuses
  <2>4. QED
    BY <1>1, <1>4, <2>1, <2>3, DecidesType
<1>10. CASE HandlePipelineFailure(r)
  <2> DEFINE merged(b) == [row.ctx EXCEPT !.pipeline = b, !.failure = b]
  <2>1. PICK b \in Builds : Decides(r, "failure", b, PipelineFailed(row.status, b, merged(b)))
    BY <1>10 DEF HandlePipelineFailure
  <2>2. merged(b) \in Contexts
    BY <1>2, ContextTypes
  <2>3. PipelineFailed(row.status, b, merged(b)) \in Updates
    BY <1>2, <2>2, StateUpdateType, ExceptTypes DEF PipelineFailed, Statuses
  <2>4. QED
    BY <1>1, <1>4, <2>1, <2>3, DecidesType
<1>11. CASE HandlePipelineSuccess(r)
  <2> DEFINE merged(b) == [row.ctx EXCEPT !.pipeline = b]
  <2>1. PICK b \in Builds :
          \/ Decides(r, "success", b, PipelineSuccess(row.status, b, merged(b)))
          \/ CallsOut(r, "import", "success", b)
          \/ Decides(r, "success", b, ContextEvent(merged(b)))
    BY <1>11 DEF HandlePipelineSuccess
  <2>2. merged(b) \in Contexts
    BY <1>2, ContextTypes
  <2>3. PipelineSuccess(row.status, b, merged(b)) \in Updates
    BY <1>2, <2>2, StateUpdateType, ExceptTypes DEF PipelineSuccess, Statuses
  <2>4. ContextEvent(merged(b)) \in Updates
    BY <2>2, StateUpdateType, ExceptTypes DEF ContextEvent, Statuses
  <2>5. QED
    BY <1>1, <1>2, <1>4, <2>1, <2>3, <2>4, DecidesType, CallsOutType
<1>12. CASE AdvanceWorkflow(r)
  BY <1>1, <1>2, <1>4, <1>12, CallsOutType DEF AdvanceWorkflow
<1>13. QED
  BY <1>5, <1>6, <1>7, <1>8, <1>9, <1>10, <1>11, <1>12 DEF Arrive

\* A step that needs no arrival keeps the types too.
LEMMA TypeProceed ==
    ASSUME TypeOK, NEW r \in Requests, Proceed(r)
    PROVE  TypeOK'
<1>1. ThreadsOK /\ RestOK
  BY TypeParts
<1>2. row \in Rows /\ row.ctx \in Contexts /\ row.status \in Statuses
  BY <1>1 DEF RestOK, Rows
<1>3. SUFFICES ThreadsOK' /\ RestOK'
  BY DEF TypeOK, ThreadsOK, RestOK
<1>4. CASE ReadDoc(r)
  <2>1. req[r].snap.ctx \in Contexts
    BY <1>1, <1>4 DEF ReadDoc, Calling, ThreadsOK, Started, Snapshots
  <2>2. DocRead(req[r].snap.ctx) \in Updates
    BY <2>1, StateUpdateType DEF DocRead, Statuses
  <2>3. RecordedError("CREATED") \in Updates
    BY StateUpdateType, ExceptTypes DEF RecordedError, Statuses
  <2>4. ThreadsOK'
    BY <1>1, <1>4, <2>2, <2>3, AnswersType, EndsType DEF ReadDoc
  <2>5. RestOK'
    BY <1>1, <1>4 DEF ReadDoc, RestOK, outside, history
  <2>6. QED
    BY <2>4, <2>5
<1>5. CASE CreateWorkitem(r)
  <2> DEFINE merged(i) == [req[r].snap.ctx EXCEPT !.created = i]
  <2>1. req[r].snap.ctx \in Contexts
    BY <1>1, <1>5 DEF CreateWorkitem, Calling, ThreadsOK, Started, Snapshots
  <2>2. PICK i \in Items :
          \/ /\ made' = made \cup {i}
             /\ Answers(r, TaskCreated(i, merged(i)))
          \/ /\ made' \in {made, made \cup {i}}
             /\ Answers(r, RecordedError("REQUIREMENT_PARSED")) \/ Ends(r)
    BY <1>5 DEF CreateWorkitem, Absent
  <2>3. merged(i) \in Contexts
    BY <2>1, ContextTypes
  <2>4. TaskCreated(i, merged(i)) \in Updates
    BY <2>3, StateUpdateType, ExceptTypes DEF TaskCreated, Statuses
  <2>5. RecordedError("REQUIREMENT_PARSED") \in Updates
    BY StateUpdateType, ExceptTypes DEF RecordedError, Statuses
  <2>6. ThreadsOK'
    BY <1>1, <2>2, <2>4, <2>5, AnswersType, EndsType
  <2>7. made' \subseteq Items
    BY <1>1, <2>2 DEF RestOK
  <2>8. RestOK'
    BY <1>1, <1>5, <2>7 DEF CreateWorkitem, RestOK, history
  <2>9. QED
    BY <2>6, <2>8
<1>6. CASE CloseWorkitem(r)
  <2> DEFINE w == req[r].snap
             merged(i) == [w.ctx EXCEPT !.close = i]
  <2>1. w \in Snapshots
    BY <1>1, <1>6 DEF CloseWorkitem, Calling, ThreadsOK, Started
  <2>2. CloseTargets(w) \subseteq Items
    BY <2>1 DEF CloseTargets, Snapshots, Contexts
  <2>3. \A i \in CloseTargets(w) : TaskClosed(merged(i)) \in Updates
    <3>1. TAKE i \in CloseTargets(w)
    <3>2. merged(i) \in Contexts
      BY <2>1, <2>2, ContextTypes DEF Snapshots
    <3>3. QED
      BY <3>2, StateUpdateType DEF TaskClosed, Statuses
  <2>4. NeedsHuman("APIFOX_SYNCED", None) \in Updates
    BY StateUpdateType, ExceptTypes DEF NeedsHuman, Statuses
  <2>5. ThreadsOK'
    BY <1>1, <1>6, <2>3, <2>4, AnswersType, EndsType DEF CloseWorkitem
  <2>6. closed' \subseteq Items
    BY <1>1, <1>6, <2>2 DEF CloseWorkitem, RestOK
  <2>7. RestOK'
    BY <1>1, <1>6, <2>6 DEF CloseWorkitem, RestOK, history
  <2>8. QED
    BY <2>5, <2>7
<1>7. CASE ImportOpenapi(r)
  <2> DEFINE ctx == req[r].snap.ctx
  <2>1. ctx \in Contexts
    BY <1>1, <1>7 DEF ImportOpenapi, ThreadsOK, Started, Snapshots
  <2>2. ApifoxSynced(ctx) \in Updates
    BY <2>1, StateUpdateType DEF ApifoxSynced, Statuses
  <2>3. ApifoxResult(ctx) \in Updates
    BY <2>1, StateUpdateType, ExceptTypes DEF ApifoxResult, Statuses
  <2>4. ThreadsOK'
    BY <1>1, <1>7, <2>2, <2>3, AnswersType, EndsType DEF ImportOpenapi
  <2>5. imported' \in BOOLEAN
    BY <1>1, <1>7 DEF ImportOpenapi, RestOK
  <2>6. RestOK'
    BY <1>1, <1>7, <2>5 DEF ImportOpenapi, RestOK, history
  <2>7. QED
    BY <2>4, <2>6
<1>8. CASE UpdateRow(r)
  <2>1. req[r].upd \in Updates
    BY <1>1, <1>8 DEF UpdateRow, ThreadsOK, Pending
  <2>2. row' \in Rows
    BY <1>1, <1>8, <2>1, AppliedType DEF UpdateRow, RestOK
  <2>3. ThreadsOK'
    <3>1. CASE Ends(r)
      BY <1>1, <3>1, EndsType
    <3>2. CASE req' = [req EXCEPT ![r].pc = "log"]
      <4>1. req' \in [Requests -> Threads]
        BY <1>1, <3>2 DEF ThreadsOK, Threads
      <4>2. ASSUME NEW s \in Requests
            PROVE  /\ Started(s)' => req'[s].snap \in Snapshots
                   /\ Pending(s)' => req'[s].upd \in Updates
        BY <1>1, <2>1, <3>2 DEF ThreadsOK, Threads, Started, Pending
      <4>3. QED
        BY <4>1, <4>2 DEF ThreadsOK
    <3>3. QED
      BY <1>8, <3>1, <3>2 DEF UpdateRow
  <2>4. retries' \in Nat
    BY <1>1, <1>8 DEF UpdateRow, RestOK
  <2>5. RestOK'
    BY <1>1, <1>8, <2>2, <2>4 DEF UpdateRow, RestOK, outside
  <2>6. QED
    BY <2>3, <2>5
<1>9. CASE InsertEvent(r)
  <2>1. req[r].upd \in Updates /\ req[r] \in Threads
    BY <1>1, <1>9 DEF InsertEvent, ThreadsOK, Pending
  <2>2. CodingRequested(row.ctx) \in Updates
    BY <1>2, StateUpdateType DEF CodingRequested, Statuses
  <2>3. req[r].kind \in AllKinds \cup {None} /\ req[r].build \in Builds \cup {None}
    BY <2>1 DEF Threads
  <2>4. ThreadsOK'
    BY <1>1, <1>2, <1>9, <2>2, <2>3, DecidesType, CallsOutType, EndsType
       DEF InsertEvent, AllKinds
  <2>5. logged' \in [Statuses -> Int]
    BY <1>1, <1>9, <2>1 DEF InsertEvent, RestOK, Updates
  <2>6. RestOK'
    BY <1>1, <1>9, <2>5 DEF InsertEvent, RestOK, outside
  <2>7. QED
    BY <2>4, <2>6
<1>10. QED
  BY <1>4, <1>5, <1>6, <1>7, <1>8, <1>9 DEF Proceed

\* So does a request that dies.
LEMMA TypeAbort ==
    ASSUME TypeOK, NEW r \in Requests, Abort(r)
    PROVE  TypeOK'
<1>1. ThreadsOK /\ RestOK
  BY TypeParts
<1>2. ThreadsOK'
  BY <1>1, EndsType DEF Abort
<1>3. logged' \in [Statuses -> Int] /\ lost' \in BOOLEAN
  <2>1. [s \in Statuses |-> 0] \in [Statuses -> Int]
    OBVIOUS
  <2>2. CASE req[r].pc = "log"
    BY <2>1, <2>2, Zenon DEF Abort
  <2>3. CASE req[r].pc # "log"
    BY <1>1, <2>3, Zenon DEF Abort, RestOK
  <2>4. QED
    BY <2>2, <2>3
<1>4. RestOK'
  BY <1>1, <1>3 DEF Abort, RestOK, outside
<1>5. QED
  BY <1>2, <1>4 DEF TypeOK, ThreadsOK, RestOK

LEMMA TypeStep == TypeOK /\ [Next]_vars => TypeOK'
<1> SUFFICES ASSUME TypeOK, [Next]_vars PROVE TypeOK'
  OBVIOUS
<1>1. ASSUME NEW r \in Requests, Arrive(r) \/ Proceed(r) \/ Abort(r)
      PROVE  TypeOK'
  BY <1>1, TypeArrive, TypeProceed, TypeAbort
<1>2. CASE UNCHANGED vars
  BY <1>2 DEF vars, TypeOK, Started, Pending
<1>3. QED
  BY <1>1, <1>2 DEF Next

\* Type correctness: the row, the threads and what is known of the outside world
\* stay in their sets, and no step reads a snapshot or an UPDATE that its thread
\* does not hold.
THEOREM TypeCorrect == Spec => []TypeOK
<1>1. Init => TypeOK
  BY TypeInit
<1>2. TypeOK /\ [Next]_vars => TypeOK'
  BY TypeStep
<1>3. QED
  BY <1>1, <1>2, PTL DEF Spec

-----------------------------------------------------------------------------
(* Closing is earned. *)

\* What is known of the outside world and of the bound item only grows.
Grows == /\ row.taskId # None => row'.taskId # None
         /\ imported => imported'
         /\ closed \subseteq closed'

\* The edges of the main line that the code takes.
LEMMA MainLineEdges ==
    /\ <<"CREATED", "DOC_READ">> \in Lifecycle!MainLine
    /\ <<"DOC_READ", "REQUIREMENT_PARSED">> \in Lifecycle!MainLine
    /\ <<"YUNXIAO_TASK_CREATED", "CODING_REQUESTED">> \in Lifecycle!MainLine
    /\ <<"CODE_SUBMITTED", "PIPELINE_RUNNING">> \in Lifecycle!MainLine
    /\ \A from \in CODING_RESULT_FROM_STATUSES :
          <<from, "CODE_SUBMITTED">> \in Lifecycle!MainLine
    /\ \A from \in PIPELINE_SUCCESS_FROM_STATUSES :
          <<from, "PIPELINE_SUCCESS">> \in Lifecycle!MainLine
    /\ \A from \in PIPELINE_FAILURE_FROM_STATUSES :
          <<from, "PIPELINE_FAILED">> \in Lifecycle!MainLine
BY DEF Lifecycle!MainLine, Lifecycle!AwaitingPipeline, CODING_RESULT_FROM_STATUSES,
       PIPELINE_SUCCESS_FROM_STATUSES, PIPELINE_FAILURE_FROM_STATUSES

\* What an allowed UPDATE says about the statuses that RowIsEarned speaks of.
LEMMA AllowedEdges ==
    ASSUME NEW u, Allowed(u)
    PROVE  /\ u.to \in {"CREATED", "DOC_READ"} =>
                 u.from \in {"CREATED", "DOC_READ"} /\ u.taskId = None
           /\ u.to = "NEEDS_HUMAN" =>
                 u.from \in {"DOC_READ", "APIFOX_SYNCED"} /\ u.taskId = None
           /\ u.to = "APIFOX_SYNCED" =>
                 u.taskId = None /\ (imported \/ u.from \in {"NEEDS_HUMAN", "APIFOX_SYNCED"})
           /\ u.to = "YUNXIAO_TASK_CLOSED" =>
                 /\ u.taskId = None /\ imported /\ row.taskId # None
                 /\ u.ctx # None /\ u.ctx.close \in closed
           /\ u.from # "YUNXIAO_TASK_CLOSED"
<1>1. CASE <<u.from, u.to>> \in Lifecycle!MainLine /\ u.taskId = None
  BY <1>1 DEF Lifecycle!MainLine, Lifecycle!AwaitingPipeline
<1>2. CASE ~(<<u.from, u.to>> \in Lifecycle!MainLine /\ u.taskId = None)
  BY <1>2 DEF Allowed, Lifecycle!ResolveTargets
<1>3. QED
  BY <1>1, <1>2

\* A step of one thread leaves the others as they were.
LEMMA OthersEarned ==
    ASSUME EarnedInv, NEW r \in Requests, NEW t, req' = [req EXCEPT ![r] = t],
           Grows, ThreadIsEarned(r)'
    PROVE  \A s \in Requests : ThreadIsEarned(s)'
<1>1. SUFFICES ASSUME NEW s \in Requests, s # r
               PROVE  ThreadIsEarned(s)'
  OBVIOUS
<1>2. req'[s] = req[s]
  <2>1. req \in [Requests -> Threads]
    BY DEF EarnedInv, TypeOK
  <2>2. QED
    BY <1>1, <2>1
<1>3. ThreadIsEarned(s)
  BY DEF EarnedInv
<1>4. Started(s)' => Started(s)
  BY <1>2 DEF Started
<1>5. CloseTargets(req'[s].snap) = CloseTargets(req[s].snap)
  BY <1>2 DEF CloseTargets
<1>6. ASSUME Allowed(req[s].upd)
      PROVE  Allowed(req[s].upd)'
  BY <1>2, <1>6 DEF Allowed, Grows
<1>7. QED
  BY <1>2, <1>3, <1>4, <1>5, <1>6 DEF ThreadIsEarned, Grows

\* A thread that decides on an allowed UPDATE.
LEMMA DecidesEarned ==
    ASSUME EarnedInv, NEW r \in Requests, NEW kind, NEW build, NEW u,
           Decides(r, kind, build, u), Grows, Allowed(u)',
           u.ctx # None /\ u.ctx.created # None => row'.taskId # None \/ u.taskId # None
    PROVE  \A s \in Requests : ThreadIsEarned(s)'
<1>1. req'[r] = [pc |-> "write", kind |-> kind, build |-> build,
                 snap |-> None, upd |-> u]
  BY DEF EarnedInv, TypeOK, Decides
<1>2. req'[r].pc = "write" /\ req'[r].upd = u
  BY <1>1
<1>3. Allowed(req[r].upd)'
  BY <1>2 DEF Allowed
<1>4. ThreadIsEarned(r)'
  BY <1>2, <1>3 DEF ThreadIsEarned, Started
<1>5. QED
  BY <1>4, OthersEarned DEF Decides

\* A thread that calls out with the row it loaded.
LEMMA CallsOutEarned ==
    ASSUME EarnedInv, NEW r \in Requests, NEW pc \in {"call", "import"}, NEW kind, NEW build,
           CallsOut(r, pc, kind, build), UNCHANGED <<row, imported, closed>>
    PROVE  \A s \in Requests : ThreadIsEarned(s)'
<1>1. req'[r] = [pc |-> pc, kind |-> kind, build |-> build,
                 snap |-> Snapshot, upd |-> None]
  BY DEF EarnedInv, TypeOK, CallsOut
<1>2. req'[r].pc = pc /\ req'[r].snap = Snapshot
  BY <1>1
<1>3. /\ Snapshot.taskId = row.taskId
      /\ Snapshot.status = row.status
      /\ Snapshot.ctx = row.ctx
  BY DEF Snapshot
<1>4. row.ctx.created # None => row.taskId # None
  BY DEF EarnedInv, RowIsEarned
<1>5. row.status = "APIFOX_SYNCED" /\ row.taskId # None => imported
  BY DEF EarnedInv, RowIsEarned
<1>6. CloseTargets(Snapshot) # {} => row.taskId # None
  BY <1>3, <1>4 DEF CloseTargets
<1>7. CloseTargets(req'[r].snap) = CloseTargets(Snapshot)
  BY <1>2
<1>8. ThreadIsEarned(r)'
  BY <1>2, <1>3, <1>4, <1>5, <1>6, <1>7 DEF ThreadIsEarned, Started, CloseTargets
<1>9. QED
  BY <1>8, OthersEarned DEF CallsOut, Grows

\* A thread that ends.
LEMMA EndsEarned ==
    ASSUME EarnedInv, NEW r \in Requests, Ends(r), Grows
    PROVE  \A s \in Requests : ThreadIsEarned(s)'
<1>1. req'[r].pc = "idle"
  BY DEF EarnedInv, TypeOK, Ends, Idle
<1>2. ThreadIsEarned(r)'
  BY <1>1 DEF ThreadIsEarned, Started
<1>3. QED
  BY <1>2, OthersEarned DEF Ends

LEMMA EarnedInit == Init => EarnedInv
<1> SUFFICES ASSUME Init PROVE EarnedInv
  OBVIOUS
<1>1. TypeOK
  BY TypeInit
<1>2. RowIsEarned /\ CloseIsEarned
  BY DEF Init, RowIsEarned, CloseIsEarned, EmptyContext
<1>3. \A r \in Requests : ThreadIsEarned(r)
  BY DEF Init, ThreadIsEarned, Started, Idle
<1>4. QED
  BY <1>1, <1>2, <1>3 DEF EarnedInv

\* A decision on an UPDATE that changes nothing else keeps the invariant.
LEMMA DecisionKeeps ==
    ASSUME EarnedInv, NEW r \in Requests, NEW kind, NEW build, NEW u, TypeOK',
           Decides(r, kind, build, u), UNCHANGED <<row, imported, closed>>, Allowed(u),
           u.ctx # None /\ u.ctx.created # None => row.taskId # None \/ u.taskId # None
    PROVE  EarnedInv'
<1>1. Allowed(u)'
  BY DEF Allowed
<1>2. \A s \in Requests : ThreadIsEarned(s)'
  BY <1>1, DecidesEarned DEF Grows
<1>3. RowIsEarned' /\ CloseIsEarned'
  BY DEF EarnedInv, RowIsEarned, CloseIsEarned
<1>4. QED
  BY <1>2, <1>3 DEF EarnedInv

\* An arrival decides on an allowed UPDATE whose context comes from the row, or
\* takes a snapshot of it.
LEMMA EarnedArrive ==
    ASSUME EarnedInv, NEW r \in Requests, Arrive(r)
    PROVE  EarnedInv'
<1>1. TypeOK'
  BY TypeArrive DEF EarnedInv
<1>2. UNCHANGED <<row, imported, closed>>
  BY DEF Arrive, SubmitRequirement, ResolveWorkflow, SubmitCodingResult,
     RetryWorkflow, HandlePipelineRunning, HandlePipelineFailure, HandlePipelineSuccess,
     AdvanceWorkflow, outside
<1>3. row.ctx.created # None => row.taskId # None
  BY DEF EarnedInv, RowIsEarned
<1>4. row.ctx \in Contexts
  BY DEF EarnedInv, TypeOK, Rows
<1> DEFINE Fits(u) == /\ Allowed(u)
                      /\ u.ctx # None /\ u.ctx.created # None => row.taskId # None \/ u.taskId # None
<1>5. ASSUME NEW kind, NEW build, NEW u, Decides(r, kind, build, u), Fits(u)
      PROVE  EarnedInv'
  BY <1>1, <1>2, <1>5, DecisionKeeps
<1>6. ASSUME NEW pc \in {"call", "import"}, NEW kind, NEW build, CallsOut(r, pc, kind, build)
      PROVE  EarnedInv'
  <2>1. \A s \in Requests : ThreadIsEarned(s)'
    BY <1>2, <1>6, CallsOutEarned
  <2>2. RowIsEarned' /\ CloseIsEarned'
    BY <1>2 DEF EarnedInv, RowIsEarned, CloseIsEarned
  <2>3. QED
    BY <1>1, <2>1, <2>2 DEF EarnedInv
<1>7. CASE SubmitRequirement(r)
  <2>1. PICK u : /\ Decides(r, "requirement", None, u)
                 /\ u = RequirementParsed(row.ctx) \/ u = NeedsHuman("DOC_READ", row.ctx)
    BY <1>7 DEF SubmitRequirement
  <2>2. CASE u = RequirementParsed(row.ctx)
    <3>1. Fits(u)
      BY <1>3, <2>2, MainLineEdges DEF Allowed, RequirementParsed, StateUpdate
    <3>2. QED
      BY <1>5, <2>1, <3>1
  <2>3. CASE u = NeedsHuman("DOC_READ", row.ctx)
    <3>1. Fits(u)
      BY <1>3, <2>3 DEF Allowed, NeedsHuman, StateUpdate
    <3>2. QED
      BY <1>5, <2>1, <3>1
  <2>4. QED
    BY <2>1, <2>2, <2>3
<1>8. CASE ResolveWorkflow(r)
  <2>1. PICK target \in Lifecycle!ResolveTargets :
            \/ Decides(r, "resolve", None, Resolved(target, None))
            \/ Decides(r, "resolve", None, Resolved(target, row.ctx))
    BY <1>8 DEF ResolveWorkflow, RESOLVABLE_TARGET_STATUSES, Lifecycle!ResolveTargets
  <2>2. PICK u : /\ Decides(r, "resolve", None, u)
                 /\ u = Resolved(target, None) \/ u = Resolved(target, row.ctx)
    BY <2>1
  <2>3. Fits(u)
    BY <1>3, <2>2 DEF Allowed, Resolved, StateUpdate
  <2>4. QED
    BY <1>5, <2>2, <2>3
<1>9. CASE SubmitCodingResult(r)
  <2>1. PICK u : /\ Decides(r, "coding", None, u)
                 /\ u = CodingResult(row.status, row.ctx)
    BY <1>9 DEF SubmitCodingResult
  <2>2. row.status \in CODING_RESULT_FROM_STATUSES
    BY <1>9 DEF SubmitCodingResult
  <2>3. Fits(u)
    BY <1>3, <2>1, <2>2, MainLineEdges DEF Allowed, CodingResult, StateUpdate
  <2>4. QED
    BY <1>5, <2>1, <2>3
<1>10. CASE RetryWorkflow(r)
  <2>1. PICK u : Decides(r, "retry", None, u) /\ u = Retried
    BY <1>10 DEF RetryWorkflow
  <2>2. Fits(u)
    BY <2>1 DEF Allowed, Retried, StateUpdate
  <2>3. QED
    BY <1>5, <2>1, <2>2
<1>11. CASE HandlePipelineRunning(r)
  <2> DEFINE merged(b) == [row.ctx EXCEPT !.pipeline = b]
  <2>1. PICK b \in Builds : Decides(r, "running", b, PipelineRunning(b, merged(b)))
    BY <1>11 DEF HandlePipelineRunning
  <2>2. merged(b).created = row.ctx.created
    BY <1>4 DEF Contexts
  <2> HIDE DEF merged
  <2>3. PICK u : Decides(r, "running", b, u) /\ u = PipelineRunning(b, merged(b))
    BY <2>1
  <2>4. Fits(u)
    BY <1>3, <2>2, <2>3, MainLineEdges DEF Allowed, PipelineRunning, StateUpdate
  <2>5. QED
    BY <1>5, <2>3, <2>4
<1>12. CASE HandlePipelineFailure(r)
  <2> DEFINE merged(b) == [row.ctx EXCEPT !.pipeline = b, !.failure = b]
  <2>1. PICK b \in Builds : Decides(r, "failure", b, PipelineFailed(row.status, b, merged(b)))
    BY <1>12 DEF HandlePipelineFailure
  <2>2. merged(b).created = row.ctx.created
    BY <1>4 DEF Contexts
  <2>3. row.status \in PIPELINE_FAILURE_FROM_STATUSES
    BY <1>12 DEF HandlePipelineFailure
  <2> HIDE DEF merged
  <2>4. PICK u : Decides(r, "failure", b, u) /\ u = PipelineFailed(row.status, b, merged(b))
    BY <2>1
  <2>5. Fits(u)
    BY <1>3, <2>2, <2>3, <2>4, MainLineEdges DEF Allowed, PipelineFailed, StateUpdate
  <2>6. QED
    BY <1>5, <2>4, <2>5
<1>13. CASE HandlePipelineSuccess(r)
  <2> DEFINE merged(b) == [row.ctx EXCEPT !.pipeline = b]
  <2>1. PICK b \in Builds :
          \/ /\ row.status \in PIPELINE_SUCCESS_FROM_STATUSES
             /\ Decides(r, "success", b, PipelineSuccess(row.status, b, merged(b)))
          \/ CallsOut(r, "import", "success", b)
          \/ Decides(r, "success", b, ContextEvent(merged(b)))
    BY <1>13 DEF HandlePipelineSuccess
  <2>2. merged(b).created = row.ctx.created
    BY <1>4 DEF Contexts
  <2> HIDE DEF merged
  <2>3. ASSUME row.status \in PIPELINE_SUCCESS_FROM_STATUSES,
               NEW u, u = PipelineSuccess(row.status, b, merged(b))
        PROVE  Fits(u)
    BY <1>3, <2>2, <2>3, MainLineEdges DEF Allowed, PipelineSuccess, StateUpdate
  <2>4. ASSUME NEW u, u = ContextEvent(merged(b))
        PROVE  Fits(u)
    BY <1>3, <2>2, <2>4 DEF Allowed, ContextEvent, StateUpdate
  <2> HIDE DEF Fits
  <2>5. CASE CallsOut(r, "import", "success", b)
    BY <1>6, <2>5
  <2>6. CASE /\ row.status \in PIPELINE_SUCCESS_FROM_STATUSES
             /\ Decides(r, "success", b, PipelineSuccess(row.status, b, merged(b)))
    BY <1>5, <2>3, <2>6
  <2>7. CASE Decides(r, "success", b, ContextEvent(merged(b)))
    BY <1>5, <2>4, <2>7
  <2>8. QED
    BY <2>1, <2>5, <2>6, <2>7
<1>14. CASE AdvanceWorkflow(r)
  BY <1>6, <1>14 DEF AdvanceWorkflow
<1>15. QED
  BY <1>7, <1>8, <1>9, <1>10, <1>11, <1>12, <1>13, <1>14 DEF Arrive

\* An answer is a decision that may come with news from outside.
LEMMA AnswerKeeps ==
    ASSUME EarnedInv, NEW r \in Requests, NEW u, TypeOK', Answers(r, u),
           row' = row, imported => imported', closed \subseteq closed',
           closed' # {} => imported', Allowed(u)',
           u.ctx # None /\ u.ctx.created # None => row.taskId # None \/ u.taskId # None
    PROVE  EarnedInv'
<1>1. \A s \in Requests : ThreadIsEarned(s)'
  BY DecidesEarned DEF Answers, Grows
<1>2. RowIsEarned' /\ CloseIsEarned'
  BY DEF EarnedInv, RowIsEarned, CloseIsEarned
<1>3. QED
  BY <1>1, <1>2 DEF EarnedInv

\* A request that ends may have left its mark outside.
LEMMA EndKeeps ==
    ASSUME EarnedInv, NEW r \in Requests, TypeOK', Ends(r),
           row' = row, imported => imported', closed \subseteq closed',
           closed' # {} => imported'
    PROVE  EarnedInv'
<1>1. \A s \in Requests : ThreadIsEarned(s)'
  BY EndsEarned DEF Grows
<1>2. RowIsEarned' /\ CloseIsEarned'
  BY DEF EarnedInv, RowIsEarned, CloseIsEarned
<1>3. QED
  BY <1>1, <1>2 DEF EarnedInv

\* The external calls: what they answer with is allowed.
LEMMA EarnedReadDoc ==
    ASSUME EarnedInv, NEW r \in Requests, TypeOK', ReadDoc(r)
    PROVE  EarnedInv'
<1>1. UNCHANGED <<row, imported, closed>>
  BY DEF ReadDoc, outside
<1>2. closed' # {} => imported'
  BY <1>1 DEF EarnedInv, CloseIsEarned
<1>3. req[r].snap.ctx.created # None => row.taskId # None
  BY DEF EarnedInv, ThreadIsEarned, ReadDoc, Calling, Started
<1>4. ASSUME NEW u, Answers(r, u), u = DocRead(req[r].snap.ctx)
      PROVE  EarnedInv'
  <2>1. Allowed(u)'
    BY <1>4, MainLineEdges DEF Allowed, DocRead, StateUpdate
  <2>2. u.ctx # None /\ u.ctx.created # None => row.taskId # None \/ u.taskId # None
    BY <1>3, <1>4 DEF DocRead, StateUpdate
  <2>3. QED
    BY <1>1, <1>2, <1>4, <2>1, <2>2, AnswerKeeps
<1>5. ASSUME NEW u, Answers(r, u), u = RecordedError("CREATED")
      PROVE  EarnedInv'
  <2>1. Allowed(u)'
    BY <1>5 DEF Allowed, RecordedError, StateUpdate
  <2>2. u.ctx = None
    BY <1>5 DEF RecordedError, StateUpdate
  <2>3. QED
    BY <1>1, <1>2, <1>5, <2>1, <2>2, AnswerKeeps
<1>6. CASE Ends(r)
  BY <1>1, <1>2, <1>6, EndKeeps
<1>7. QED
  BY <1>4, <1>5, <1>6 DEF ReadDoc

LEMMA EarnedCreateWorkitem ==
    ASSUME EarnedInv, NEW r \in Requests, TypeOK', CreateWorkitem(r)
    PROVE  EarnedInv'
<1>1. UNCHANGED <<row, imported, closed>>
  BY DEF CreateWorkitem
<1>2. closed' # {} => imported'
  BY <1>1 DEF EarnedInv, CloseIsEarned
<1>3. ASSUME NEW i \in Items, NEW ctx, NEW u, Answers(r, u), u = TaskCreated(i, ctx)
      PROVE  EarnedInv'
  <2>1. u.taskId = i /\ i # None
    BY <1>3, NoneIsNoValue DEF TaskCreated, StateUpdate
  <2>2. Allowed(u)'
    BY <1>3, <2>1 DEF Allowed, TaskCreated, StateUpdate
  <2>3. QED
    BY <1>1, <1>2, <1>3, <2>1, <2>2, AnswerKeeps
<1>4. ASSUME NEW u, Answers(r, u), u = RecordedError("REQUIREMENT_PARSED")
      PROVE  EarnedInv'
  <2>1. Allowed(u)'
    BY <1>4 DEF Allowed, RecordedError, StateUpdate
  <2>2. u.ctx = None
    BY <1>4 DEF RecordedError, StateUpdate
  <2>3. QED
    BY <1>1, <1>2, <1>4, <2>1, <2>2, AnswerKeeps
<1>5. CASE Ends(r)
  BY <1>1, <1>2, <1>5, EndKeeps
<1>6. QED
  BY <1>3, <1>4, <1>5 DEF CreateWorkitem, Absent

LEMMA EarnedCloseWorkitem ==
    ASSUME EarnedInv, NEW r \in Requests, TypeOK', CloseWorkitem(r)
    PROVE  EarnedInv'
<1> DEFINE w == req[r].snap
<1>1. row' = row /\ imported' = imported /\ closed \subseteq closed'
  BY DEF CloseWorkitem
<1>2. Started(r) /\ w.status = "APIFOX_SYNCED" /\ w \in Snapshots
  BY DEF CloseWorkitem, Calling, Started, EarnedInv, TypeOK
<1>3. ThreadIsEarned(r)
  BY DEF EarnedInv
<1>4. CloseTargets(w) # {} => imported /\ row.taskId # None
  BY <1>2, <1>3 DEF ThreadIsEarned, CloseTargets
<1>5. closed' # {} => imported'
  <2>1. closed # {} => imported
    BY DEF EarnedInv, CloseIsEarned
  <2>2. closed' = closed \/ \E i \in CloseTargets(w) : closed' = closed \cup {i}
    BY DEF CloseWorkitem
  <2> HIDE DEF w
  <2>3. QED
    BY <1>1, <1>4, <2>1, <2>2
<1>6. ASSUME NEW i \in CloseTargets(w), closed' = closed \cup {i},
             NEW u, Answers(r, u), u = TaskClosed([w.ctx EXCEPT !.close = i])
      PROVE  EarnedInv'
  <2>1. w.ctx \in Contexts
    BY <1>2 DEF Snapshots
  <2> DEFINE ctx == [w.ctx EXCEPT !.close = i]
  <2>2. ctx.close = i /\ ctx.created = w.ctx.created
    BY <2>1 DEF Contexts
  <2>3. ctx \in Contexts
    BY <2>1, <1>2, ContextTypes DEF CloseTargets, Snapshots, Contexts
  <2>4. u.ctx = ctx /\ u.from = "APIFOX_SYNCED" /\ u.to = "YUNXIAO_TASK_CLOSED"
        /\ u.taskId = None /\ ~u.bump
    BY <1>6 DEF TaskClosed, StateUpdate
  <2> HIDE DEF ctx
  <2>5. ctx # None
    BY <2>3, NoneIsNoContext
  <2>6. Allowed(u)'
    BY <1>1, <1>4, <1>6, <2>2, <2>4, <2>5 DEF Allowed
  <2>7. u.ctx # None /\ u.ctx.created # None => row.taskId # None \/ u.taskId # None
    BY <1>4, <1>6
  <2>8. QED
    BY <1>1, <1>5, <1>6, <2>6, <2>7, AnswerKeeps
<1>7. ASSUME NEW u, Answers(r, u), u = NeedsHuman("APIFOX_SYNCED", None)
      PROVE  EarnedInv'
  <2>1. Allowed(u)'
    BY <1>7 DEF Allowed, NeedsHuman, StateUpdate
  <2>2. u.ctx = None
    BY <1>7 DEF NeedsHuman, StateUpdate
  <2>3. QED
    BY <1>1, <1>5, <1>7, <2>1, <2>2, AnswerKeeps
<1>8. CASE Ends(r)
  BY <1>1, <1>5, <1>8, EndKeeps
<1>9. QED
  BY <1>6, <1>7, <1>8 DEF CloseWorkitem

LEMMA EarnedImportOpenapi ==
    ASSUME EarnedInv, NEW r \in Requests, TypeOK', ImportOpenapi(r)
    PROVE  EarnedInv'
<1>1. row' = row /\ closed' = closed /\ (imported => imported')
  <2>1. imported' = TRUE \/ imported' = imported
    BY DEF ImportOpenapi
  <2>2. row' = row /\ closed' = closed
    BY DEF ImportOpenapi
  <2>3. imported => imported'
    BY <2>1, Zenon
  <2>4. QED
    BY <2>2, <2>3
<1>2. closed' # {} => imported'
  BY <1>1 DEF EarnedInv, CloseIsEarned
<1>3. req[r].snap.ctx.created # None => row.taskId # None
  BY DEF EarnedInv, ThreadIsEarned, ImportOpenapi, Started
<1>4. ASSUME imported', NEW u, Answers(r, u), u = ApifoxSynced(req[r].snap.ctx)
      PROVE  EarnedInv'
  <2>1. Allowed(u)'
    BY <1>4 DEF Allowed, ApifoxSynced, StateUpdate
  <2>2. u.ctx # None /\ u.ctx.created # None => row.taskId # None \/ u.taskId # None
    BY <1>3, <1>4 DEF ApifoxSynced, StateUpdate
  <2>3. QED
    BY <1>1, <1>2, <1>4, <2>1, <2>2, AnswerKeeps
<1>5. ASSUME NEW u, Answers(r, u), u = ApifoxResult(req[r].snap.ctx)
      PROVE  EarnedInv'
  <2>1. Allowed(u)'
    BY <1>5 DEF Allowed, ApifoxResult, StateUpdate
  <2>2. u.ctx # None /\ u.ctx.created # None => row.taskId # None \/ u.taskId # None
    BY <1>3, <1>5 DEF ApifoxResult, StateUpdate
  <2>3. QED
    BY <1>1, <1>2, <1>5, <2>1, <2>2, AnswerKeeps
<1>6. CASE Ends(r)
  BY <1>1, <1>2, <1>6, EndKeeps
<1>7. QED
  BY <1>4, <1>5, <1>6 DEF ImportOpenapi

\* The columns an UPDATE assigns.
LEMMA AppliedColumns ==
    ASSUME NEW u, NEW w \in Rows
    PROVE  LET v == Applied(u, w) IN
           /\ v.status = u.to
           /\ v.taskId = IF u.taskId = None THEN w.taskId ELSE u.taskId
           /\ v.ctx = IF u.ctx = None THEN w.ctx ELSE u.ctx
           /\ v.attempts = IF u.bump THEN w.attempts + 1 ELSE w.attempts
           /\ v.build = IF u.build = None THEN w.build ELSE u.build
           /\ u.error = "set" => v.error
<1> DEFINE ctx == IF u.ctx = None THEN w.ctx ELSE u.ctx
           taskId == IF u.taskId = None THEN w.taskId ELSE u.taskId
           build == IF u.build = None THEN w.build ELSE u.build
           error == IF u.error = "keep" THEN w.error ELSE u.error = "set"
           attempts == IF u.bump THEN w.attempts + 1 ELSE w.attempts
<1>1. Applied(u, w) = [w EXCEPT !.status = u.to, !.ctx = ctx, !.taskId = taskId,
                                !.build = build, !.error = error, !.attempts = attempts]
  BY DEF Applied
<1> HIDE DEF ctx, taskId, build, error, attempts
<1>2. /\ Applied(u, w).status = u.to
      /\ Applied(u, w).taskId = taskId
      /\ Applied(u, w).ctx = ctx
      /\ Applied(u, w).attempts = attempts
      /\ Applied(u, w).build = build
      /\ Applied(u, w).error = error
  BY <1>1 DEF Rows
<1>3. u.error = "set" => error
  BY Zenon DEF error
<1>4. QED
  BY <1>2, <1>3 DEF ctx, taskId, attempts, build

\* An allowed UPDATE that finds its status.
LEMMA EarnedWrite ==
    ASSUME EarnedInv, NEW r \in Requests, TypeOK', req[r].pc = "write",
           row.status = req[r].upd.from, row' = Applied(req[r].upd, row),
           req' = [req EXCEPT ![r].pc = "log"], UNCHANGED <<imported, closed>>
    PROVE  EarnedInv'
<1> DEFINE u == req[r].upd
<1>1. Allowed(u)
  BY DEF EarnedInv, ThreadIsEarned
<1>2. u.ctx # None /\ u.ctx.created # None => row.taskId # None \/ u.taskId # None
  BY DEF EarnedInv, ThreadIsEarned
<1>3. /\ row'.status = u.to
      /\ row'.taskId = IF u.taskId = None THEN row.taskId ELSE u.taskId
      /\ row'.ctx = IF u.ctx = None THEN row.ctx ELSE u.ctx
  BY AppliedColumns DEF EarnedInv, TypeOK
<1>4. row.status = u.from
  OBVIOUS
<1>5. RowIsEarned /\ CloseIsEarned
  BY DEF EarnedInv
<1>6. ThreadIsEarned(r)'
  <2>1. req'[r].pc = "log"
    BY DEF EarnedInv, TypeOK, Threads
  <2>2. QED
    BY <2>1 DEF ThreadIsEarned, Started
<1> HIDE DEF u
<1>7. RowIsEarned'
  BY <1>1, <1>2, <1>3, <1>4, <1>5, AllowedEdges DEF RowIsEarned
<1>8. CloseIsEarned'
  BY <1>1, <1>3, <1>4, <1>5, AllowedEdges DEF CloseIsEarned
<1>9. Grows
  BY <1>3 DEF Grows
<1>10. \A s \in Requests : ThreadIsEarned(s)'
  <2>1. req' = [req EXCEPT ![r] = [req[r] EXCEPT !.pc = "log"]]
    OBVIOUS
  <2>2. QED
    BY <1>6, <1>9, <2>1, OthersEarned
<1>11. QED
  BY <1>7, <1>8, <1>10 DEF EarnedInv

LEMMA EarnedUpdateRow ==
    ASSUME EarnedInv, NEW r \in Requests, TypeOK', UpdateRow(r)
    PROVE  EarnedInv'
<1>1. UNCHANGED <<imported, closed>> /\ req[r].pc = "write"
  BY DEF UpdateRow, outside
<1>2. closed' # {} => imported'
  BY <1>1 DEF EarnedInv, CloseIsEarned
<1>3. CASE /\ row.status = req[r].upd.from
           /\ row' = Applied(req[r].upd, row)
           /\ req' = [req EXCEPT ![r].pc = "log"]
  BY <1>1, <1>3, EarnedWrite
<1>4. CASE Ends(r) /\ row' = row
  BY <1>1, <1>2, <1>4, EndKeeps
<1>5. QED
  BY <1>3, <1>4 DEF UpdateRow

LEMMA EarnedInsertEvent ==
    ASSUME EarnedInv, NEW r \in Requests, TypeOK', InsertEvent(r)
    PROVE  EarnedInv'
<1>1. UNCHANGED <<row, imported, closed>>
  BY DEF InsertEvent, outside
<1>2. closed' # {} => imported'
  BY <1>1 DEF EarnedInv, CloseIsEarned
<1>3. ASSUME NEW u, Decides(r, req[r].kind, None, u), u = CodingRequested(row.ctx)
      PROVE  EarnedInv'
  <2>1. Allowed(u)
    BY <1>3, MainLineEdges DEF Allowed, CodingRequested, StateUpdate
  <2>2. row.ctx.created # None => row.taskId # None
    BY DEF EarnedInv, RowIsEarned
  <2>3. u.ctx # None /\ u.ctx.created # None => row.taskId # None \/ u.taskId # None
    BY <1>3, <2>2 DEF CodingRequested, StateUpdate
  <2>4. QED
    BY <1>1, <1>3, <2>1, <2>3, DecisionKeeps
<1>4. CASE CallsOut(r, "import", "success", req[r].build)
  <2>1. \A s \in Requests : ThreadIsEarned(s)'
    BY <1>1, <1>4, CallsOutEarned
  <2>2. RowIsEarned' /\ CloseIsEarned'
    BY <1>1 DEF EarnedInv, RowIsEarned, CloseIsEarned
  <2>3. QED
    BY <2>1, <2>2 DEF EarnedInv
<1>5. CASE Ends(r)
  BY <1>1, <1>2, <1>5, EndKeeps
<1>6. QED
  BY <1>3, <1>4, <1>5 DEF InsertEvent

LEMMA EarnedAbort ==
    ASSUME EarnedInv, NEW r \in Requests, TypeOK', Abort(r)
    PROVE  EarnedInv'
<1>1. UNCHANGED <<row, imported, closed>> /\ Ends(r)
  BY DEF Abort, outside
<1>2. closed' # {} => imported'
  BY <1>1 DEF EarnedInv, CloseIsEarned
<1>3. QED
  BY <1>1, <1>2, EndKeeps

LEMMA EarnedStep == EarnedInv /\ [Next]_vars => EarnedInv'
<1> SUFFICES ASSUME EarnedInv, [Next]_vars PROVE EarnedInv'
  OBVIOUS
<1>1. TypeOK'
  BY TypeStep DEF EarnedInv
<1>2. ASSUME NEW r \in Requests, Arrive(r)
      PROVE  EarnedInv'
  BY <1>2, EarnedArrive
<1>3. ASSUME NEW r \in Requests, Proceed(r)
      PROVE  EarnedInv'
  BY <1>1, <1>3, EarnedReadDoc, EarnedCreateWorkitem, EarnedCloseWorkitem,
     EarnedImportOpenapi, EarnedUpdateRow, EarnedInsertEvent DEF Proceed
<1>4. ASSUME NEW r \in Requests, Abort(r)
      PROVE  EarnedInv'
  BY <1>1, <1>4, EarnedAbort
<1>5. CASE UNCHANGED vars
  <2>1. RowIsEarned' /\ CloseIsEarned'
    BY <1>5 DEF vars, EarnedInv, RowIsEarned, CloseIsEarned
  <2>2. ASSUME NEW r \in Requests PROVE ThreadIsEarned(r)'
    BY <1>5 DEF vars, EarnedInv, ThreadIsEarned, Started, CloseTargets, Allowed
  <2>3. QED
    BY <1>1, <2>1, <2>2 DEF EarnedInv
<1>6. QED
  BY <1>2, <1>3, <1>4, <1>5 DEF Next

\* The inductive invariant: every UPDATE a request still carries is an edge of the
\* lifecycle, with the columns it may assign, whatever happened since it decided.
THEOREM EveryStepIsEarned == Spec => []EarnedInv
<1>1. Init => EarnedInv
  BY EarnedInit
<1>2. EarnedInv /\ [Next]_vars => EarnedInv'
  BY EarnedStep
<1>3. QED
  BY <1>1, <1>2, PTL DEF Spec

\* A workflow is only closed with a bound work item, after an import that Apifox
\* reported, and nothing is closed in Yunxiao before one.
THEOREM ClosingIsEarned == Spec => []CloseIsEarned
<1>1. EarnedInv => CloseIsEarned
  BY DEF EarnedInv
<1>2. QED
  BY <1>1, EveryStepIsEarned, PTL

-----------------------------------------------------------------------------
(* The ledger implements the lifecycle. *)

\* What a step means outside: only UpdateRow touches the row, and imports are
\* never forgotten.
LEMMA RowUntouched ==
    ASSUME NEW r \in Requests, Arrive(r) \/ Proceed(r) \/ Abort(r), ~UpdateRow(r)
    PROVE  row' = row /\ imported' \in {imported, TRUE}
<1>1. CASE Arrive(r)
  BY <1>1 DEF Arrive, SubmitRequirement, ResolveWorkflow, SubmitCodingResult,
     RetryWorkflow, HandlePipelineRunning, HandlePipelineFailure, HandlePipelineSuccess,
     AdvanceWorkflow, outside
<1>2. CASE ImportOpenapi(r)
  BY <1>2 DEF ImportOpenapi
<1>3. CASE ReadDoc(r) \/ CreateWorkitem(r) \/ CloseWorkitem(r) \/ InsertEvent(r) \/ Abort(r)
  BY <1>3 DEF ReadDoc, CreateWorkitem, CloseWorkitem, InsertEvent, Abort, outside
<1>4. QED
  BY <1>1, <1>2, <1>3 DEF Proceed

\* An UPDATE that takes effect is an edge of the lifecycle, or a refresh of the
\* context that does not show.
LEMMA WriteRefines ==
    ASSUME EarnedInv, NEW r \in Requests, req[r].pc = "write",
           row.status = req[r].upd.from, row' = Applied(req[r].upd, row),
           imported' = imported
    PROVE  Lifecycle!Next \/ UNCHANGED Lifecycle!vars
<1> DEFINE u == req[r].upd
<1>1. Allowed(u)
  BY DEF EarnedInv, ThreadIsEarned
<1>2. /\ row'.status = u.to
      /\ row'.taskId = IF u.taskId = None THEN row.taskId ELSE u.taskId
      /\ row'.attempts = IF u.bump THEN row.attempts + 1 ELSE row.attempts
  BY AppliedColumns DEF EarnedInv, TypeOK
<1>3. row.status = u.from /\ imported' = imported
  OBVIOUS
<1>4. row.status = "APIFOX_SYNCED" /\ row.taskId # None => imported
  BY DEF EarnedInv, RowIsEarned
<1> HIDE DEF u
<1>5. CASE <<u.from, u.to>> \in Lifecycle!MainLine /\ u.taskId = None /\ ~u.bump
  <2>1. \E edge \in Lifecycle!MainLine : row.status = edge[1] /\ row'.status = edge[2]
    BY <1>2, <1>3, <1>5
  <2>2. row'.attempts = row.attempts /\ row'.taskId = row.taskId
    BY <1>2, <1>5
  <2>3. Lifecycle!Advance
    BY <1>3, <2>1, <2>2 DEF Lifecycle!Advance
  <2>4. QED
    BY <2>3 DEF Lifecycle!Next
<1>6. CASE u.from = u.to /\ u.taskId = None /\ ~u.bump
  BY <1>2, <1>3, <1>6 DEF Lifecycle!vars
<1>7. CASE /\ u.from = "REQUIREMENT_PARSED" /\ u.to = "YUNXIAO_TASK_CREATED"
           /\ u.taskId # None /\ ~u.bump
  BY <1>2, <1>3, <1>7 DEF Lifecycle!Next, Lifecycle!File
<1>8. CASE /\ u.from = "PIPELINE_SUCCESS" /\ u.to = "APIFOX_SYNCED"
           /\ u.taskId = None /\ ~u.bump /\ imported
  BY <1>2, <1>3, <1>8 DEF Lifecycle!Next, Lifecycle!Sync
<1>9. CASE /\ u.from = "APIFOX_SYNCED" /\ u.to = "YUNXIAO_TASK_CLOSED"
           /\ u.taskId = None /\ ~u.bump /\ imported /\ row.taskId # None
  BY <1>2, <1>3, <1>9 DEF Lifecycle!Next, Lifecycle!Close
<1>10. CASE /\ u.from \in {"DOC_READ", "APIFOX_SYNCED"} /\ u.to = "NEEDS_HUMAN"
            /\ u.taskId = None /\ u.bump
  BY <1>2, <1>3, <1>10 DEF Lifecycle!Next, Lifecycle!Escalate
<1>11. CASE /\ u.from = "NEEDS_HUMAN" /\ u.to \in Lifecycle!ResolveTargets
            /\ u.taskId = None /\ ~u.bump
  BY <1>2, <1>3, <1>11 DEF Lifecycle!Next, Lifecycle!Resolve
<1>12. CASE /\ u.from = "PIPELINE_FAILED" /\ u.to = "CODING_REQUESTED"
            /\ u.taskId = None /\ u.bump
  BY <1>2, <1>3, <1>12 DEF Lifecycle!Next, Lifecycle!Retry
<1>13. CASE /\ u.from = u.to /\ u.from \in {"CREATED", "REQUIREMENT_PARSED"}
            /\ u.taskId = None /\ u.bump
  BY <1>2, <1>3, <1>13 DEF Lifecycle!Next, Lifecycle!Fault
<1>14. QED
  BY <1>1, <1>5, <1>6, <1>7, <1>8, <1>9, <1>10, <1>11, <1>12, <1>13 DEF Allowed

LEMMA LifecycleInit == Init => Lifecycle!Init
BY DEF Init, Lifecycle!Init

LEMMA LifecycleStep ==
    EarnedInv /\ [Next]_vars => [Lifecycle!Next]_(Lifecycle!vars)
<1> SUFFICES ASSUME EarnedInv, [Next]_vars
             PROVE  Lifecycle!Next \/ UNCHANGED Lifecycle!vars
  OBVIOUS
<1>1. ASSUME NEW r \in Requests, UpdateRow(r)
      PROVE  Lifecycle!Next \/ UNCHANGED Lifecycle!vars
  <2>1. imported' = imported /\ req[r].pc = "write"
    BY <1>1 DEF UpdateRow, outside
  <2>2. CASE row.status = req[r].upd.from /\ row' = Applied(req[r].upd, row)
    BY <2>1, <2>2, WriteRefines
  <2>3. CASE row' = row
    BY <2>1, <2>3 DEF Lifecycle!vars
  <2>4. QED
    BY <1>1, <2>2, <2>3 DEF UpdateRow
<1>2. ASSUME NEW r \in Requests, Arrive(r) \/ Proceed(r) \/ Abort(r), ~UpdateRow(r)
      PROVE  Lifecycle!Next \/ UNCHANGED Lifecycle!vars
  <2>1. row' = row /\ imported' \in {imported, TRUE}
    BY <1>2, RowUntouched
  <2>2. CASE imported' = imported
    BY <2>1, <2>2 DEF Lifecycle!vars
  <2>3. CASE imported' = TRUE
    BY <2>1, <2>3 DEF Lifecycle!Next, Lifecycle!Import
  <2>4. QED
    BY <2>1, <2>2, <2>3
<1>3. CASE UNCHANGED vars
  BY <1>3 DEF vars, Lifecycle!vars
<1>4. QED
  BY <1>1, <1>2, <1>3 DEF Next

\* The ledger, with any number of concurrent requests and with crashes, implements
\* DeliveryLifecycle: overlapping requests never take the workflow along an edge
\* the lifecycle does not have, charge an attempt elsewhere, or close it unearned.
THEOREM LedgerRefinesLifecycle == Spec => LifecycleSpec
<1>1. Init => Lifecycle!Init
  BY LifecycleInit
<1>2. EarnedInv /\ [Next]_vars => [Lifecycle!Next]_(Lifecycle!vars)
  BY LifecycleStep
<1>3. Spec => []EarnedInv
  BY EveryStepIsEarned
<1>4. QED
  BY <1>1, <1>2, <1>3, PTL DEF Spec, LifecycleSpec, Lifecycle!Spec
-----------------------------------------------------------------------------
(* What a step of a request comes to, whichever action it is. *)

Early == {"CREATED", "DOC_READ", "REQUIREMENT_PARSED"}
Late == {"PIPELINE_SUCCESS", "PIPELINE_FAILED", "APIFOX_SYNCED",
         "YUNXIAO_TASK_CLOSED", "NEEDS_HUMAN"}
Building == {"PIPELINE_RUNNING", "PIPELINE_SUCCESS", "PIPELINE_FAILED"}

\* The row as the request knows it: the one it kept, or the one it loads now.
Known(r) == IF Started(r) THEN req[r].snap ELSE Snapshot

\* An UPDATE that fails a workflow names the build, one that asks a person says why.
Attributes(u) ==
    /\ u.to = "PIPELINE_FAILED" =>
          /\ u.error = "set" /\ u.build \in Builds /\ u.ctx # None
          /\ u.ctx.pipeline = u.build /\ u.ctx.failure = u.build
    /\ u.to = "NEEDS_HUMAN" => u.error = "set"

\* The context an UPDATE writes is the one the request knows, but for what it reports.
Merges(r, u) ==
    /\ u.ctx = None => u.taskId = None
    /\ u.ctx # None =>
          u.ctx.created = IF u.taskId = None THEN Known(r).ctx.created ELSE u.taskId
    /\ u.taskId # None => u.from = "REQUIREMENT_PARSED" /\ u.to \notin Early

\* Without retries and resolutions a workflow never goes back to an earlier phase,
\* and its statuses of a build are written with the build.
Forward(r, u) ==
    /\ u.to \in Building /\ u.from # u.to =>
          u.ctx # None /\ u.build \in Builds /\ u.ctx.pipeline = u.build
    /\ u.to \in Building /\ u.from = u.to =>
          /\ u.to = "PIPELINE_SUCCESS" /\ req[r].pc = "import"
          /\ u.ctx # None /\ u.build = None /\ u.ctx.pipeline = Known(r).ctx.pipeline

    /\ u.to \in Early => u.from \in Early
    /\ u.from \in Late => u.to \in Late
    /\ u.to = "PIPELINE_SUCCESS" /\ u.from # u.to => u.from \notin Late
    /\ u.from \in Early => Known(r).status \in Early
    /\ Known(r).status \in Early => u.from \in Early \/ req[r].pc \in {"import", "log"}

\* Where the kind of the request comes from.
KindKept(r, kind, u) ==
    \/ /\ req[r].pc = "idle" /\ kind \in Kinds
       /\ kind = "retry" => u = Retried /\ row.attempts < Limit
    \/ Started(r) /\ kind = req[r].kind
    \/ req[r].pc = "log" /\ kind = req[r].kind /\ req[r].upd.to = "YUNXIAO_TASK_CREATED"

Reasoned(r, kind, u) ==
    /\ Attributes(u)
    /\ Merges(r, u)
    /\ kind \notin {"retry", "resolve"} => Forward(r, u)
    /\ KindKept(r, kind, u)

Outcome(r) ==
    \/ Ends(r)
    \/ CallsOut(r, "call", "advance", None)
    \/ /\ \/ row.status = "PIPELINE_SUCCESS"
          \/ req[r].pc = "log" /\ req[r].upd.to = "PIPELINE_SUCCESS"
       /\ \E build : CallsOut(r, "import", "success", build)
    \/ \E kind, build, u :
          /\ Decides(r, kind, build, u)
          /\ Reasoned(r, kind, u)

\* Statuses are told apart by their phase.
LEMMA Phases ==
    /\ PIPELINE_SUCCESS_FROM_STATUSES \cap (Early \cup Late) = {}
    /\ PIPELINE_FAILURE_FROM_STATUSES \cap Early = {}
    /\ PIPELINE_FAILURE_FROM_STATUSES \cap {"PIPELINE_FAILED"} = {}
    /\ PIPELINE_RUNNING_FROM_STATUSES \cap (Early \cup Late) = {}
    /\ CODING_RESULT_FROM_STATUSES \cap Late = {}
    /\ "PIPELINE_SUCCESS" \notin PIPELINE_SUCCESS_FROM_STATUSES
BY DEF PIPELINE_SUCCESS_FROM_STATUSES, PIPELINE_FAILURE_FROM_STATUSES,
       PIPELINE_RUNNING_FROM_STATUSES, CODING_RESULT_FROM_STATUSES, Early, Late

\* What a merge changes in a context, and what it keeps.
LEMMA MergedBuild ==
    ASSUME NEW ctx \in Contexts, NEW b \in Builds
    PROVE  /\ [ctx EXCEPT !.pipeline = b] # None
           /\ [ctx EXCEPT !.pipeline = b].pipeline = b
           /\ [ctx EXCEPT !.pipeline = b].created = ctx.created
           /\ [ctx EXCEPT !.pipeline = b, !.failure = b] # None
           /\ [ctx EXCEPT !.pipeline = b, !.failure = b].pipeline = b
           /\ [ctx EXCEPT !.pipeline = b, !.failure = b].failure = b
           /\ [ctx EXCEPT !.pipeline = b, !.failure = b].created = ctx.created
<1>1. /\ [ctx EXCEPT !.pipeline = b] \in Contexts
      /\ [ctx EXCEPT !.pipeline = b, !.failure = b] \in Contexts
  BY ContextTypes
<1>2. /\ [ctx EXCEPT !.pipeline = b] # None
      /\ [ctx EXCEPT !.pipeline = b, !.failure = b] # None
  BY <1>1, NoneIsNoContext
<1>3. QED
  BY <1>2 DEF Contexts

LEMMA MergedItem ==
    ASSUME NEW ctx \in Contexts, NEW i \in Items
    PROVE  [ctx EXCEPT !.created = i] # None /\ [ctx EXCEPT !.created = i].created = i
<1>1. [ctx EXCEPT !.created = i] \in Contexts
  BY ContextTypes
<1>2. [ctx EXCEPT !.created = i] # None
  BY <1>1, NoneIsNoContext
<1>3. QED
  BY <1>2 DEF Contexts

\* A request that arrives decides on the row it finds, or keeps it and calls out.
LEMMA OutcomeArrive ==
    ASSUME TypeOK, NEW r \in Requests, Arrive(r)
    PROVE  Outcome(r)
<1>1. req[r].pc = "idle" /\ ~Started(r)
  BY DEF Arrive, SubmitRequirement, ResolveWorkflow, SubmitCodingResult, RetryWorkflow,
     HandlePipelineRunning, HandlePipelineFailure, HandlePipelineSuccess, AdvanceWorkflow,
     Arrives, Started
<1>2. Known(r) = Snapshot /\ Snapshot.status = row.status /\ Snapshot.ctx = row.ctx
  BY <1>1 DEF Known, Snapshot
<1>3. row.ctx \in Contexts
  BY DEF TypeOK, Rows
<1>4. ASSUME NEW kind \in Kinds, NEW build, NEW u, Decides(r, kind, build, u),
             u.taskId = None, Attributes(u), Merges(r, u),
             kind \notin {"retry", "resolve"} => Forward(r, u),
             kind = "retry" => u = Retried /\ row.attempts < Limit
      PROVE  Outcome(r)
  BY <1>1, <1>4 DEF Outcome, Reasoned, KindKept
<1>5. CASE SubmitRequirement(r)
  <2>1. PICK u : /\ Decides(r, "requirement", None, u)
                 /\ u = RequirementParsed(row.ctx) \/ u = NeedsHuman("DOC_READ", row.ctx)
    BY <1>5 DEF SubmitRequirement
  <2>2. row.status = "DOC_READ" /\ "requirement" \in Kinds
    BY <1>5 DEF SubmitRequirement, Arrives
  <2>3. /\ u.from = "DOC_READ" /\ u.to \in {"REQUIREMENT_PARSED", "NEEDS_HUMAN"}
        /\ u.taskId = None /\ u.ctx = row.ctx
        /\ u.to = "NEEDS_HUMAN" => u.error = "set"
    <3>1. CASE u = RequirementParsed(row.ctx)
      BY <3>1 DEF RequirementParsed, StateUpdate
    <3>2. CASE u = NeedsHuman("DOC_READ", row.ctx)
      BY <3>2 DEF NeedsHuman, StateUpdate
    <3>3. QED
      BY <2>1, <3>1, <3>2
  <2>4. Attributes(u) /\ Merges(r, u) /\ Forward(r, u)
    BY <1>2, <1>3, <2>2, <2>3, NoneIsNoContext
       DEF Attributes, Merges, Forward, Early, Late, Building
  <2>5. QED
    BY <1>4, <2>1, <2>2, <2>3, <2>4
<1>6. CASE ResolveWorkflow(r)
  <2>0. PICK target \in Lifecycle!ResolveTargets :
            \/ Decides(r, "resolve", None, Resolved(target, None))
            \/ Decides(r, "resolve", None, Resolved(target, row.ctx))
    BY <1>6 DEF ResolveWorkflow, RESOLVABLE_TARGET_STATUSES, Lifecycle!ResolveTargets
  <2>1. PICK u : /\ Decides(r, "resolve", None, u)
                 /\ u = Resolved(target, None) \/ u = Resolved(target, row.ctx)
    BY <2>0
  <2>2. "resolve" \in Kinds
    BY <1>6 DEF ResolveWorkflow, Arrives
  <2>3. /\ u.from = "NEEDS_HUMAN" /\ u.to = target
        /\ u.taskId = None /\ u.ctx \in {None, row.ctx}
    BY <2>1 DEF Resolved, StateUpdate
  <2>4. Attributes(u) /\ Merges(r, u)
    BY <1>2, <2>0, <2>3 DEF Attributes, Merges, Lifecycle!ResolveTargets
  <2>5. QED
    BY <1>4, <2>1, <2>2, <2>3, <2>4
<1>7. CASE SubmitCodingResult(r)
  <2>1. PICK u : Decides(r, "coding", None, u) /\ u = CodingResult(row.status, row.ctx)
    BY <1>7 DEF SubmitCodingResult
  <2>2. row.status \in CODING_RESULT_FROM_STATUSES /\ "coding" \in Kinds
    BY <1>7 DEF SubmitCodingResult, Arrives
  <2>3. /\ u.from = row.status /\ u.to = "CODE_SUBMITTED"
        /\ u.taskId = None /\ u.ctx = row.ctx
    BY <2>1 DEF CodingResult, StateUpdate
  <2>4. Attributes(u) /\ Merges(r, u) /\ Forward(r, u)
    BY <1>2, <2>2, <2>3, Phases DEF Attributes, Merges, Forward, Early, Late, Building
  <2>5. QED
    BY <1>4, <2>1, <2>2, <2>3, <2>4
<1>8. CASE RetryWorkflow(r)
  <2>1. PICK u : Decides(r, "retry", None, u) /\ u = Retried
    BY <1>8 DEF RetryWorkflow
  <2>2. row.attempts < Limit /\ "retry" \in Kinds
    BY <1>8 DEF RetryWorkflow, Arrives
  <2>3. /\ u.from = "PIPELINE_FAILED" /\ u.to = "CODING_REQUESTED"
        /\ u.taskId = None /\ u.ctx = None
    BY <2>1 DEF Retried, StateUpdate
  <2>4. Attributes(u) /\ Merges(r, u)
    BY <2>3 DEF Attributes, Merges
  <2>5. QED
    BY <1>4, <2>1, <2>2, <2>3, <2>4
<1>9. CASE HandlePipelineRunning(r)
  <2> DEFINE merged(b) == [row.ctx EXCEPT !.pipeline = b]
  <2>1. PICK b \in Builds : Decides(r, "running", b, PipelineRunning(b, merged(b)))
    BY <1>9 DEF HandlePipelineRunning
  <2>2. /\ merged(b).created = row.ctx.created /\ merged(b).pipeline = b
        /\ merged(b) # None
    BY <1>3, MergedBuild
  <2>3. row.status \in PIPELINE_RUNNING_FROM_STATUSES /\ "running" \in Kinds
    BY <1>9 DEF HandlePipelineRunning, Arrives
  <2> HIDE DEF merged
  <2>4. PICK u : Decides(r, "running", b, u) /\ u = PipelineRunning(b, merged(b))
    BY <2>1
  <2>5. /\ u.from = "CODE_SUBMITTED" /\ u.to = "PIPELINE_RUNNING"
        /\ u.taskId = None /\ u.ctx = merged(b) /\ u.build = b
    BY <2>4 DEF PipelineRunning, StateUpdate
  <2>6. Attributes(u) /\ Merges(r, u) /\ Forward(r, u)
    BY <1>2, <2>2, <2>3, <2>5, Phases
       DEF Attributes, Merges, Forward, Early, Late, Building
  <2>7. QED
    BY <1>4, <2>3, <2>4, <2>5, <2>6
<1>10. CASE HandlePipelineFailure(r)
  <2> DEFINE merged(b) == [row.ctx EXCEPT !.pipeline = b, !.failure = b]
  <2>1. PICK b \in Builds : Decides(r, "failure", b, PipelineFailed(row.status, b, merged(b)))
    BY <1>10 DEF HandlePipelineFailure
  <2>2. /\ merged(b).created = row.ctx.created
        /\ merged(b).pipeline = b /\ merged(b).failure = b /\ merged(b) # None
    BY <1>3, MergedBuild
  <2>3. row.status \in PIPELINE_FAILURE_FROM_STATUSES /\ "failure" \in Kinds
    BY <1>10 DEF HandlePipelineFailure, Arrives
  <2> HIDE DEF merged
  <2>4. PICK u : Decides(r, "failure", b, u) /\ u = PipelineFailed(row.status, b, merged(b))
    BY <2>1
  <2>5. /\ u.from = row.status /\ u.to = "PIPELINE_FAILED" /\ u.error = "set"
        /\ u.taskId = None /\ u.ctx = merged(b) /\ u.build = b
    BY <2>4 DEF PipelineFailed, StateUpdate
  <2>6. Attributes(u) /\ Merges(r, u) /\ Forward(r, u)
    BY <1>2, <2>2, <2>3, <2>5, Phases
       DEF Attributes, Merges, Forward, Early, Late, Building
  <2>7. QED
    BY <1>4, <2>3, <2>4, <2>5, <2>6
<1>11. CASE HandlePipelineSuccess(r)
  <2> DEFINE merged(b) == [row.ctx EXCEPT !.pipeline = b]
  <2>1. PICK b \in Builds :
          \/ /\ row.status \in PIPELINE_SUCCESS_FROM_STATUSES
             /\ Decides(r, "success", b, PipelineSuccess(row.status, b, merged(b)))
          \/ /\ row.status = "PIPELINE_SUCCESS"
             /\ CallsOut(r, "import", "success", b)
          \/ /\ row.status = "APIFOX_SYNCED"
             /\ Decides(r, "success", b, ContextEvent(merged(b)))
    BY <1>11 DEF HandlePipelineSuccess
  <2>2. /\ merged(b).created = row.ctx.created /\ merged(b).pipeline = b
        /\ merged(b) # None
    BY <1>3, MergedBuild
  <2>3. "success" \in Kinds
    BY <1>11 DEF HandlePipelineSuccess, Arrives
  <2> HIDE DEF merged
  <2>4. CASE row.status \in PIPELINE_SUCCESS_FROM_STATUSES
             /\ Decides(r, "success", b, PipelineSuccess(row.status, b, merged(b)))
    <3>1. PICK u : Decides(r, "success", b, u) /\ u = PipelineSuccess(row.status, b, merged(b))
      BY <2>4
    <3>2. /\ u.from = row.status /\ u.to = "PIPELINE_SUCCESS"
          /\ u.taskId = None /\ u.ctx = merged(b) /\ u.build = b
      BY <3>1 DEF PipelineSuccess, StateUpdate
    <3>3. Attributes(u) /\ Merges(r, u) /\ Forward(r, u)
      BY <1>2, <2>2, <2>4, <3>2, Phases
         DEF Attributes, Merges, Forward, Early, Late, Building
    <3>4. QED
      BY <1>4, <2>3, <3>1, <3>2, <3>3
  <2>5. CASE row.status = "PIPELINE_SUCCESS" /\ CallsOut(r, "import", "success", b)
    BY <2>5 DEF Outcome
  <2>6. CASE row.status = "APIFOX_SYNCED" /\ Decides(r, "success", b, ContextEvent(merged(b)))
    <3>1. PICK u : Decides(r, "success", b, u) /\ u = ContextEvent(merged(b))
      BY <2>6
    <3>2. /\ u.from = "APIFOX_SYNCED" /\ u.to = "APIFOX_SYNCED"
          /\ u.taskId = None /\ u.ctx = merged(b)
      BY <3>1 DEF ContextEvent, StateUpdate
    <3>3. Attributes(u) /\ Merges(r, u) /\ Forward(r, u)
      BY <1>2, <2>2, <2>6, <3>2 DEF Attributes, Merges, Forward, Early, Late, Building
    <3>4. QED
      BY <1>4, <2>3, <3>1, <3>2, <3>3
  <2>7. QED
    BY <2>1, <2>4, <2>5, <2>6
<1>12. CASE AdvanceWorkflow(r)
  BY <1>12 DEF AdvanceWorkflow, Outcome
<1>13. QED
  BY <1>5, <1>6, <1>7, <1>8, <1>9, <1>10, <1>11, <1>12 DEF Arrive

\* A request that goes on decides on the row it kept, unless its UPDATE is next.
LEMMA OutcomeProceed ==
    ASSUME TypeOK, NEW r \in Requests, Proceed(r), ~UpdateRow(r)
    PROVE  Outcome(r)
<1>1. ASSUME Started(r), NEW u, Answers(r, u), Attributes(u), Merges(r, u), Forward(r, u)
      PROVE  Outcome(r)
  BY <1>1 DEF Outcome, Reasoned, KindKept, Answers
<1>2. ASSUME Started(r)
      PROVE  Known(r) = req[r].snap /\ req[r].snap \in Snapshots
             /\ req[r].snap.ctx \in Contexts /\ req[r].snap.ctx # None
  BY <1>2, NoneIsNoContext DEF Known, TypeOK, Snapshots
<1>3. ASSUME Started(r), NEW status \in Early, req[r].snap.status = status,
             NEW u, Answers(r, u), u = RecordedError(status)
      PROVE  Outcome(r)
  <2>1. u.from = status /\ u.to = status /\ u.taskId = None /\ u.ctx = None
    BY <1>3 DEF RecordedError, StateUpdate
  <2>2. Attributes(u) /\ Merges(r, u) /\ Forward(r, u)
    BY <1>2, <1>3, <2>1 DEF Attributes, Merges, Forward, Early, Late, Building
  <2>3. QED
    BY <1>1, <1>3, <2>1, <2>2
<1>4. CASE ReadDoc(r)
  <2>1. Started(r) /\ req[r].snap.status = "CREATED"
    BY <1>4 DEF ReadDoc, Calling, Started
  <2>2. ASSUME NEW u, Answers(r, u), u = DocRead(req[r].snap.ctx)
        PROVE  Outcome(r)
    <3>1. /\ u.from = "CREATED" /\ u.to = "DOC_READ"
          /\ u.taskId = None /\ u.ctx = req[r].snap.ctx
      BY <2>2 DEF DocRead, StateUpdate
    <3>2. Attributes(u) /\ Merges(r, u) /\ Forward(r, u)
      BY <1>2, <2>1, <3>1 DEF Attributes, Merges, Forward, Early, Late, Building
    <3>3. QED
      BY <1>1, <2>1, <2>2, <3>1, <3>2
  <2>3. QED
    BY <1>3, <1>4, <2>1, <2>2 DEF ReadDoc, Outcome, Early
<1>5. CASE CreateWorkitem(r)
  <2>1. Started(r) /\ req[r].snap.status = "REQUIREMENT_PARSED"
    BY <1>5 DEF CreateWorkitem, Calling, Started
  <2> DEFINE merged(i) == [req[r].snap.ctx EXCEPT !.created = i]
  <2>2. ASSUME NEW i \in Items, NEW u, Answers(r, u), u = TaskCreated(i, merged(i))
        PROVE  Outcome(r)
    <3>1. merged(i).created = i /\ merged(i) # None
      BY <1>2, <2>1, <2>2, MergedItem
    <3> HIDE DEF merged
    <3>2. /\ u.from = "REQUIREMENT_PARSED" /\ u.to = "YUNXIAO_TASK_CREATED"
          /\ u.taskId = i /\ i # None /\ u.ctx = merged(i)
      BY <2>2, NoneIsNoValue DEF TaskCreated, StateUpdate
    <3>3. Attributes(u) /\ Merges(r, u) /\ Forward(r, u)
      BY <1>2, <2>1, <3>1, <3>2 DEF Attributes, Merges, Forward, Early, Late, Building
    <3>4. QED
      BY <1>1, <2>1, <2>2, <3>3
  <2>3. QED
    BY <1>3, <1>5, <2>1, <2>2 DEF CreateWorkitem, Absent, Outcome, Early
<1>6. CASE CloseWorkitem(r)
  <2>1. Started(r) /\ req[r].snap.status = "APIFOX_SYNCED"
    BY <1>6 DEF CloseWorkitem, Calling, Started
  <2> DEFINE merged(i) == [req[r].snap.ctx EXCEPT !.close = i]
  <2>2. ASSUME NEW i, NEW u, Answers(r, u), u = TaskClosed(merged(i))
        PROVE  Outcome(r)
    <3>1. merged(i).created = req[r].snap.ctx.created
      BY <1>2, <2>1 DEF Contexts
    <3> HIDE DEF merged
    <3>2. /\ u.from = "APIFOX_SYNCED" /\ u.to = "YUNXIAO_TASK_CLOSED"
          /\ u.taskId = None /\ u.ctx = merged(i)
      BY <2>2 DEF TaskClosed, StateUpdate
    <3>3. Attributes(u) /\ Merges(r, u) /\ Forward(r, u)
      BY <1>2, <2>1, <3>1, <3>2 DEF Attributes, Merges, Forward, Early, Late, Building
    <3>4. QED
      BY <1>1, <2>1, <2>2, <3>2, <3>3
  <2>3. ASSUME NEW u, Answers(r, u), u = NeedsHuman("APIFOX_SYNCED", None)
        PROVE  Outcome(r)
    <3>1. /\ u.from = "APIFOX_SYNCED" /\ u.to = "NEEDS_HUMAN" /\ u.error = "set"
          /\ u.taskId = None /\ u.ctx = None
      BY <2>3 DEF NeedsHuman, StateUpdate
    <3>2. Attributes(u) /\ Merges(r, u) /\ Forward(r, u)
      BY <1>2, <2>1, <3>1 DEF Attributes, Merges, Forward, Early, Late, Building
    <3>3. QED
      BY <1>1, <2>1, <2>3, <3>1, <3>2
  <2>4. QED
    BY <1>6, <2>2, <2>3 DEF CloseWorkitem, Outcome
<1>7. CASE ImportOpenapi(r)
  <2>1. Started(r) /\ req[r].pc = "import"
    BY <1>7 DEF ImportOpenapi, Started
  <2>2. ASSUME NEW u, Answers(r, u),
               u = ApifoxSynced(req[r].snap.ctx) \/ u = ApifoxResult(req[r].snap.ctx)
        PROVE  Outcome(r)
    <3>1. /\ u.from = "PIPELINE_SUCCESS" /\ u.to \in {"APIFOX_SYNCED", "PIPELINE_SUCCESS"}
          /\ u.taskId = None /\ u.build = None /\ u.ctx = req[r].snap.ctx
      BY <2>2 DEF ApifoxSynced, ApifoxResult, StateUpdate
    <3>2. Attributes(u) /\ Merges(r, u) /\ Forward(r, u)
      BY <1>2, <2>1, <3>1 DEF Attributes, Merges, Forward, Early, Late, Building
    <3>3. QED
      BY <1>1, <2>1, <2>2, <3>1, <3>2
  <2>3. QED
    BY <1>7, <2>2 DEF ImportOpenapi, Outcome
<1>8. CASE InsertEvent(r)
  <2>1. req[r].pc = "log" /\ ~Started(r)
    BY <1>8 DEF InsertEvent, Started
  <2>2. Known(r) = Snapshot /\ Snapshot.ctx = row.ctx
    BY <2>1 DEF Known, Snapshot
  <2>3. ASSUME req[r].upd.to = "YUNXIAO_TASK_CREATED", NEW u,
               Decides(r, req[r].kind, None, u), u = CodingRequested(row.ctx)
        PROVE  Outcome(r)
    <3>1. /\ u.from = "YUNXIAO_TASK_CREATED" /\ u.to = "CODING_REQUESTED"
          /\ u.taskId = None /\ u.ctx = row.ctx
      BY <2>3 DEF CodingRequested, StateUpdate
    <3>2. Attributes(u) /\ Merges(r, u) /\ Forward(r, u)
      BY <2>1, <2>2, <3>1 DEF Attributes, Merges, Forward, Early, Late, Building
    <3>3. QED
      BY <2>1, <2>3, <3>1, <3>2 DEF Outcome, Reasoned, KindKept
  <2>4. QED
    BY <1>8, <2>1, <2>3 DEF InsertEvent, Outcome
<1>9. QED
  BY <1>4, <1>5, <1>6, <1>7, <1>8 DEF Proceed
\* A request that dies, or whose UPDATE finds nothing, ends.
LEMMA OutcomeElse ==
    ASSUME NEW r \in Requests, Abort(r)
    PROVE  Outcome(r)
BY DEF Abort, Outcome

\* The UPDATE takes effect.
Writes(r) ==
    /\ req[r].pc = "write"
    /\ row.status = req[r].upd.from
    /\ row' = Applied(req[r].upd, row)
    /\ req' = [req EXCEPT ![r].pc = "log"]
    /\ retries' = IF req[r].kind = "retry" THEN retries + 1 ELSE retries

\* The thread of r after any other step of it.
Continues(r) ==
    /\ row' = row /\ retries' = retries
    /\ \A s \in Requests : s # r => req'[s] = req[s]
    /\ \/ req'[r].pc = "idle"
       \/ /\ req'[r].pc \in {"call", "import"}
          /\ req'[r].snap = Snapshot
          /\ req'[r].kind \in {"advance", "success"}
          /\ req'[r].pc = "import" =>
                \/ row.status = "PIPELINE_SUCCESS"
                \/ req[r].pc = "log" /\ req[r].upd.to = "PIPELINE_SUCCESS"
       \/ /\ req'[r].pc = "write"
          /\ Reasoned(r, req'[r].kind, req'[r].upd)

LEMMA OutcomeContinues ==
    ASSUME TypeOK, NEW r \in Requests, Outcome(r), row' = row, retries' = retries
    PROVE  Continues(r)
<1>1. req \in [Requests -> Threads]
  BY DEF TypeOK
<1>2. CASE Ends(r)
  BY <1>1, <1>2 DEF Ends, Idle, Continues
<1>3. ASSUME NEW pc \in {"call", "import"}, NEW kind \in {"advance", "success"}, NEW build,
             CallsOut(r, pc, kind, build),
             pc = "import" => \/ row.status = "PIPELINE_SUCCESS"
                              \/ req[r].pc = "log" /\ req[r].upd.to = "PIPELINE_SUCCESS"
      PROVE  Continues(r)
  <2>1. req'[r] = [pc |-> pc, kind |-> kind, build |-> build,
                   snap |-> Snapshot, upd |-> None]
    BY <1>1, <1>3 DEF CallsOut
  <2>2. req'[r].pc = pc /\ req'[r].kind = kind /\ req'[r].snap = Snapshot
    BY <2>1
  <2>3. \A s \in Requests : s # r => req'[s] = req[s]
    BY <1>1, <1>3 DEF CallsOut
  <2>4. QED
    BY <1>3, <2>2, <2>3 DEF Continues
<1>4. ASSUME NEW kind, NEW build, NEW u, Decides(r, kind, build, u), Reasoned(r, kind, u)
      PROVE  Continues(r)
  <2>1. req'[r] = [pc |-> "write", kind |-> kind, build |-> build,
                   snap |-> None, upd |-> u]
    BY <1>1, <1>4 DEF Decides
  <2>2. req'[r].pc = "write" /\ req'[r].kind = kind /\ req'[r].upd = u
    BY <2>1
  <2>3. \A s \in Requests : s # r => req'[s] = req[s]
    BY <1>1, <1>4 DEF Decides
  <2>4. QED
    BY <1>4, <2>2, <2>3 DEF Continues
<1>5. QED
  BY <1>2, <1>3, <1>4 DEF Outcome

\* Only the UPDATE counts a retry.
LEMMA CountsUntouched ==
    ASSUME NEW r \in Requests, Arrive(r) \/ Proceed(r) \/ Abort(r), ~UpdateRow(r)
    PROVE  retries' = retries
<1>1. CASE Arrive(r)
  BY <1>1 DEF Arrive, SubmitRequirement, ResolveWorkflow, SubmitCodingResult,
     RetryWorkflow, HandlePipelineRunning, HandlePipelineFailure, HandlePipelineSuccess,
     AdvanceWorkflow, history
<1>2. CASE Proceed(r) \/ Abort(r)
  BY <1>2 DEF Proceed, ReadDoc, CreateWorkitem, CloseWorkitem, ImportOpenapi, InsertEvent,
     Abort, history
<1>3. QED
  BY <1>1, <1>2

\* Every step is one of two: an UPDATE takes effect, or one thread goes on over a
\* row that stays.
LEMMA StepCases ==
    ASSUME TypeOK, [Next]_vars, ~UNCHANGED vars
    PROVE  \E r \in Requests : Writes(r) \/ Continues(r)
<1>1. PICK r \in Requests : Arrive(r) \/ Proceed(r) \/ Abort(r)
  BY DEF Next
<1>2. CASE UpdateRow(r)
  <2>1. CASE Ends(r) /\ row' = row /\ retries' = retries
    BY <2>1, OutcomeContinues DEF Outcome
  <2>2. CASE ~(Ends(r) /\ row' = row /\ retries' = retries)
    BY <1>2, <2>2 DEF UpdateRow, Writes, outside
  <2>3. QED
    BY <2>1, <2>2
<1>3. CASE ~UpdateRow(r)
  <2>1. Outcome(r)
    BY <1>1, <1>3, OutcomeArrive, OutcomeProceed, OutcomeElse
  <2>2. row' = row /\ retries' = retries
    BY <1>1, <1>3, RowUntouched, CountsUntouched
  <2>3. QED
    BY <2>1, <2>2, OutcomeContinues
<1>4. QED
  BY <1>2, <1>3

\* The columns and the threads after an UPDATE that takes effect.
LEMMA Written ==
    ASSUME TypeOK, NEW r \in Requests, Writes(r)
    PROVE  LET u == req[r].upd IN
           /\ u \in Updates
           /\ row.status = u.from /\ row'.status = u.to
           /\ row'.taskId = IF u.taskId = None THEN row.taskId ELSE u.taskId
           /\ row'.build = IF u.build = None THEN row.build ELSE u.build
           /\ row'.ctx = IF u.ctx = None THEN row.ctx ELSE u.ctx
           /\ row'.attempts = IF u.bump THEN row.attempts + 1 ELSE row.attempts
           /\ u.error = "set" => row'.error
           /\ req'[r].pc = "log" /\ req'[r].upd = u /\ req'[r].kind = req[r].kind
           /\ \A s \in Requests : s # r => req'[s] = req[s]
<1> DEFINE u == req[r].upd
<1>1. u \in Updates /\ row \in Rows /\ req \in [Requests -> Threads]
  BY DEF TypeOK, Pending, Writes
<1>2. /\ req'[r].pc = "log" /\ req'[r].upd = u /\ req'[r].kind = req[r].kind
      /\ \A s \in Requests : s # r => req'[s] = req[s]
  BY <1>1 DEF Writes, Threads
<1>3. row.status = u.from /\ row' = Applied(u, row)
  BY DEF Writes
<1> HIDE DEF u
<1>4. QED
  BY <1>1, <1>2, <1>3, AppliedColumns DEF u

-----------------------------------------------------------------------------
(* A failure is attributed. *)

FailureInv ==
    /\ TypeOK
    /\ FailureIsAttributed
    /\ \A r \in Requests : req[r].pc = "write" => Attributes(req[r].upd)

LEMMA FailureInit == Init => FailureInv
BY TypeInit DEF Init, FailureInv, FailureIsAttributed, Idle

LEMMA FailureStep == FailureInv /\ [Next]_vars => FailureInv'
<1> SUFFICES ASSUME FailureInv, [Next]_vars PROVE FailureInv'
  OBVIOUS
<1>1. TypeOK /\ TypeOK' /\ FailureIsAttributed
  BY TypeStep DEF FailureInv
<1>2. ASSUME NEW r \in Requests, Writes(r)
      PROVE  FailureInv'
  <2>1. Attributes(req[r].upd)
    BY <1>2 DEF FailureInv, Writes
  <2>2. FailureIsAttributed'
    BY <1>1, <1>2, <2>1, Written, NoneIsNoValue DEF FailureIsAttributed, Attributes
  <2>3. ASSUME NEW s \in Requests, req'[s].pc = "write"
        PROVE  Attributes(req'[s].upd)
    BY <1>1, <1>2, <2>3, Written DEF FailureInv
  <2>4. QED
    BY <1>1, <2>2, <2>3 DEF FailureInv, Attributes
<1>3. ASSUME NEW r \in Requests, Continues(r)
      PROVE  FailureInv'
  <2>1. FailureIsAttributed'
    BY <1>1, <1>3 DEF FailureIsAttributed, Continues
  <2>2. ASSUME NEW s \in Requests, req'[s].pc = "write"
        PROVE  Attributes(req'[s].upd)
    BY <1>3, <2>2 DEF FailureInv, Continues, Reasoned
  <2>3. QED
    BY <1>1, <2>1, <2>2 DEF FailureInv, Attributes
<1>4. CASE UNCHANGED vars
  BY <1>1, <1>4 DEF vars, FailureInv, FailureIsAttributed, Attributes
<1>5. QED
  BY <1>1, <1>2, <1>3, <1>4, StepCases

\* A failed workflow names one build in its columns, its pipeline context and its
\* failure analysis, and one that waits for a person says why, whichever callbacks
\* and people overlap: no UPDATE into these statuses leaves a part of it to another.
THEOREM FailuresAreAttributed == Spec => []FailureIsAttributed
<1>1. Init => FailureInv
  BY FailureInit
<1>2. FailureInv /\ [Next]_vars => FailureInv'
  BY FailureStep
<1>3. FailureInv => FailureIsAttributed
  BY DEF FailureInv
<1>4. QED
  BY <1>1, <1>2, <1>3, PTL DEF Spec
-----------------------------------------------------------------------------
(* Retries overshoot their limit by the requests that overlap, no more. *)

\* Requests that passed the check and have not written their retry.
Retriers == {r \in Requests : req[r].pc = "write" /\ req[r].kind = "retry"}

RetryInv ==
    /\ TypeOK
    /\ retries <= row.attempts
    /\ retries + Cardinality(Retriers) <= Limit + Cardinality(Requests) - 1
    /\ \A r \in Requests : /\ Started(r) => req[r].kind # "retry"
                           /\ Pending(r) /\ req[r].kind = "retry" => req[r].upd = Retried

\* Counting the retriers.
LEMMA RetrierCounts ==
    ASSUME NEW S \in SUBSET Requests
    PROVE  /\ Cardinality(S) \in Nat /\ Cardinality(Requests) \in Nat
           /\ Cardinality(S) <= Cardinality(Requests)
           /\ \A T \in SUBSET S : Cardinality(T) \in Nat /\ Cardinality(T) <= Cardinality(S)
           /\ \A r \in S : Cardinality(S \ {r}) = Cardinality(S) - 1
<1>1. IsFiniteSet(S) /\ Cardinality(S) <= Cardinality(Requests)
  BY SetsAreFinite, FS_Subset
<1>2. Cardinality(S) \in Nat /\ Cardinality(Requests) \in Nat
  BY <1>1, SetsAreFinite, FS_CardinalityType
<1>3. \A T \in SUBSET S : Cardinality(T) \in Nat /\ Cardinality(T) <= Cardinality(S)
  BY <1>1, FS_Subset, FS_CardinalityType
<1>4. \A r \in S : Cardinality(S \ {r}) = Cardinality(S) - 1
  BY <1>1, FS_RemoveElement
<1>5. QED
  BY <1>1, <1>2, <1>3, <1>4

LEMMA RetryInit == Init => RetryInv
<1> SUFFICES ASSUME Init PROVE RetryInv
  OBVIOUS
<1>1. Retriers = {} /\ \A r \in Requests : ~Started(r) /\ ~Pending(r)
  BY DEF Init, Idle, Retriers, Started, Pending
<1>2. Cardinality(Retriers) = 0 /\ Cardinality(Requests) \in Nat
  BY <1>1, FS_EmptySet, RetrierCounts
<1>3. retries = 0 /\ row.attempts = 0
  BY DEF Init
<1>4. QED
  BY <1>1, <1>2, <1>3, TypeInit, LimitsAreNatural DEF RetryInv

LEMMA RetryStep == RetryInv /\ [Next]_vars => RetryInv'
<1> SUFFICES ASSUME RetryInv, [Next]_vars PROVE RetryInv'
  OBVIOUS
<1>1. TypeOK /\ TypeOK'
  BY TypeStep DEF RetryInv
<1>2. /\ retries \in Nat /\ row.attempts \in Nat /\ Limit \in Nat
      /\ Retriers \subseteq Requests /\ Retriers' \subseteq Requests
  BY <1>1, LimitsAreNatural DEF TypeOK, Rows, Retriers
<1>3. /\ Cardinality(Retriers) \in Nat /\ Cardinality(Retriers') \in Nat
      /\ Cardinality(Requests) \in Nat /\ Cardinality(Retriers') <= Cardinality(Requests)
  BY <1>2, RetrierCounts
<1>4. ASSUME NEW r \in Requests, Writes(r)
      PROVE  RetryInv'
  <2>1. /\ req[r].pc = "write" /\ req'[r].pc = "log" /\ req'[r].upd = req[r].upd
        /\ req'[r].kind = req[r].kind
        /\ \A s \in Requests : s # r => req'[s] = req[s]
        /\ row'.attempts = IF req[r].upd.bump THEN row.attempts + 1 ELSE row.attempts
    BY <1>1, <1>4, Written DEF Writes
  <2>2. Retriers' = Retriers \ {r}
    BY <2>1 DEF Retriers
  <2>3. \A s \in Requests : /\ Started(s)' => req'[s].kind # "retry"
                            /\ Pending(s)' /\ req'[s].kind = "retry" => req'[s].upd = Retried
    <3>1. TAKE s \in Requests
    <3>2. CASE s = r
      BY <2>1, <3>2 DEF RetryInv, Started, Pending
    <3>3. CASE s # r
      BY <2>1, <3>3 DEF RetryInv, Started, Pending
    <3>4. QED
      BY <3>2, <3>3
  <2>4. CASE req[r].kind = "retry"
    <3>1. req[r].upd.bump
      BY <2>1, <2>4 DEF RetryInv, Pending, Retried, StateUpdate
    <3>2. retries' = retries + 1 /\ row'.attempts = row.attempts + 1
      BY <1>4, <2>1, <2>4, <3>1 DEF Writes
    <3>3. Cardinality(Retriers') = Cardinality(Retriers) - 1
      BY <1>2, <2>1, <2>2, <2>4, RetrierCounts DEF Retriers
    <3>4. retries' + Cardinality(Retriers') <= Limit + Cardinality(Requests) - 1
      BY <1>2, <1>3, <3>2, <3>3 DEF RetryInv
    <3>5. retries' <= row'.attempts
      BY <1>2, <3>2 DEF RetryInv
    <3>6. QED
      BY <1>1, <2>3, <3>4, <3>5 DEF RetryInv, Retried, StateUpdate
  <2>5. CASE req[r].kind # "retry"
    <3>1. retries' = retries /\ row'.attempts >= row.attempts /\ row'.attempts \in Nat
      BY <1>2, <1>4, <2>1, <2>5 DEF Writes
    <3>2. Cardinality(Retriers') <= Cardinality(Retriers)
      BY <1>2, <2>2, RetrierCounts
    <3>3. retries' + Cardinality(Retriers') <= Limit + Cardinality(Requests) - 1
      BY <1>2, <1>3, <3>1, <3>2 DEF RetryInv
    <3>4. retries' <= row'.attempts
      BY <1>2, <3>1 DEF RetryInv
    <3>5. QED
      BY <1>1, <2>3, <3>3, <3>4 DEF RetryInv, Retried, StateUpdate
  <2>6. QED
    BY <2>4, <2>5
<1>5. ASSUME NEW r \in Requests, Continues(r)
      PROVE  RetryInv'
  <2>1. /\ retries' = retries /\ row' = row
        /\ \A s \in Requests : s # r => req'[s] = req[s]
    BY <1>5 DEF Continues
  <2>2. Started(r)' => req'[r].kind # "retry"
    BY <1>5 DEF Continues, Started
  <2>3. ASSUME Pending(r)', req'[r].kind = "retry"
        PROVE  /\ req'[r].upd = Retried /\ row.attempts < Limit
    <3>1. Reasoned(r, req'[r].kind, req'[r].upd)
      BY <1>5, <2>3 DEF Continues, Pending
    <3>2. KindKept(r, "retry", req'[r].upd)
      BY <2>3, <3>1 DEF Reasoned
    <3>3. ~(Started(r) /\ req[r].kind = "retry")
      BY DEF RetryInv
    <3>4. ~(req[r].pc = "log" /\ req[r].kind = "retry" /\ req[r].upd.to = "YUNXIAO_TASK_CREATED")
      BY DEF RetryInv, Pending, Retried, StateUpdate
    <3>5. QED
      BY <3>2, <3>3, <3>4 DEF KindKept
  <2>4. \A s \in Requests : /\ Started(s)' => req'[s].kind # "retry"
                            /\ Pending(s)' /\ req'[s].kind = "retry" => req'[s].upd = Retried
    <3>1. TAKE s \in Requests
    <3>2. CASE s = r
      BY <2>2, <2>3, <3>2
    <3>3. CASE s # r
      BY <2>1, <3>3 DEF RetryInv, Started, Pending
    <3>4. QED
      BY <3>2, <3>3
  <2>5. retries' + Cardinality(Retriers') <= Limit + Cardinality(Requests) - 1
    <3>1. CASE Pending(r)' /\ req'[r].kind = "retry"
      BY <1>2, <1>3, <2>1, <2>3, <3>1 DEF RetryInv
    <3>2. CASE ~(Pending(r)' /\ req'[r].kind = "retry")
      <4>1. Retriers' \subseteq Retriers
        BY <2>1, <3>2 DEF Retriers, Pending
      <4>2. Cardinality(Retriers') <= Cardinality(Retriers)
        BY <1>2, <4>1, RetrierCounts
      <4>3. QED
        BY <1>2, <1>3, <2>1, <4>2 DEF RetryInv
    <3>3. QED
      BY <3>1, <3>2
  <2>6. QED
    BY <1>1, <2>1, <2>4, <2>5 DEF RetryInv, Retried, StateUpdate
<1>6. CASE UNCHANGED vars
  BY <1>1, <1>6 DEF vars, RetryInv, Retriers, Started, Pending, Retried, StateUpdate
<1>7. QED
  BY <1>1, <1>4, <1>5, <1>6, StepCases

\* The retries written exceed the limit by at most one for every further request
\* in flight: each retry that is still to be written passed the check on a row
\* that had not reached the limit, and each one that is written costs an attempt.
THEOREM RetriesAreBounded == Spec => []RetryOvershootBounded
<1>1. Init => RetryInv
  BY RetryInit
<1>2. RetryInv /\ [Next]_vars => RetryInv'
  BY RetryStep
<1>3. RetryInv => RetryOvershootBounded
  <2>1. ASSUME RetryInv PROVE RetryOvershootBounded
    <3>1. /\ retries \in Nat /\ Limit \in Nat /\ Cardinality(Requests) \in Nat
          /\ Cardinality(Retriers) \in Nat
      BY <2>1, RetrierCounts, LimitsAreNatural DEF RetryInv, TypeOK, Retriers
    <3>2. QED
      BY <2>1, <3>1 DEF RetryInv, RetryOvershootBounded
  <2>2. QED
    BY <2>1
<1>4. QED
  BY <1>1, <1>2, <1>3, PTL DEF Spec
-----------------------------------------------------------------------------
(* Columns and context agree until somebody retries or resolves. *)

RowMatches == /\ row.taskId = row.ctx.created
              /\ row.status \in Building => row.build = row.ctx.pipeline
              /\ row.status \in Early => row.taskId = None

\* A kept row: taken early it knows of no work item, taken later of the bound one;
\* and an import knows the build of the success it imports.
SnapMatches(r) ==
    /\ Started(r) =>
          IF req[r].snap.status \in Early
          THEN req[r].pc = "call" /\ req[r].snap.ctx.created = None
          ELSE row.status \notin Early /\ req[r].snap.ctx.created = row.taskId
    /\ req[r].pc = "import" =>
          /\ row.status \in Late
          /\ row.status = "PIPELINE_SUCCESS" => req[r].snap.ctx.pipeline = row.build

\* An UPDATE keeps to the order of the phases, and if the row still has the status
\* it asks for, then what it writes agrees.
UpdateMatches(u) ==
    /\ IF u.from \in Early
       THEN u.ctx # None => u.ctx.created = u.taskId
       ELSE /\ row.status \notin Early /\ u.taskId = None
            /\ u.ctx # None => u.ctx.created = row.taskId
    /\ u.ctx = None => u.taskId = None
    /\ u.taskId # None => u.from = "REQUIREMENT_PARSED" /\ u.to \notin Early
    /\ u.to \in Early => u.from \in Early
    /\ u.from \in Late => u.to \in Late
    /\ u.to = "PIPELINE_SUCCESS" /\ u.from # u.to => u.from \notin Late
    /\ u.to \in Building /\ u.from # u.to =>
          u.ctx # None /\ u.build \in Builds /\ u.ctx.pipeline = u.build
    /\ u.to \in Building /\ u.from = u.to =>
          /\ u.to = "PIPELINE_SUCCESS" /\ u.build = None /\ u.ctx # None
          /\ row.status \in Late
          /\ row.status = "PIPELINE_SUCCESS" => u.ctx.pipeline = row.build

LogMatches(u) ==
    /\ u.to \notin Early => row.status \notin Early
    /\ u.to = "PIPELINE_SUCCESS" => row.status \in Late

ThreadMatches(r) ==
    /\ req[r].pc # "idle" => req[r].kind \notin {"retry", "resolve"}
    /\ SnapMatches(r)
    /\ req[r].pc = "write" => UpdateMatches(req[r].upd)
    /\ req[r].pc = "log" => LogMatches(req[r].upd)

MatchInv == TypeOK /\ RowMatches /\ \A r \in Requests : ThreadMatches(r)

\* The row moves forward only, and with it what is final.
MovesOn ==
    /\ row.status \notin Early => row'.status \notin Early /\ row'.taskId = row.taskId
    /\ row.status \in Late =>
          /\ row'.status \in Late
          /\ row'.status = "PIPELINE_SUCCESS" =>
                row.status = "PIPELINE_SUCCESS" /\ row'.build = row.build

LEMMA MatchInit == Init => MatchInv
<1> SUFFICES ASSUME Init PROVE MatchInv
  OBVIOUS
<1>1. RowMatches
  BY DEF Init, RowMatches, EmptyContext, Building
<1>2. \A r \in Requests : req[r].pc = "idle"
  BY DEF Init, Idle
<1>3. QED
  BY <1>1, <1>2, TypeInit DEF MatchInv, ThreadMatches, SnapMatches, Started

\* A thread that takes no step keeps its agreement while the row moves on.
LEMMA OthersMatch ==
    ASSUME MovesOn, NEW s \in Requests, ThreadMatches(s), req'[s] = req[s]
    PROVE  ThreadMatches(s)'
<1>1. PICK u : u = req[s].upd
  OBVIOUS
<1>2. req'[s].upd = u /\ req'[s].pc = req[s].pc /\ req'[s].snap = req[s].snap
      /\ req'[s].kind = req[s].kind
  BY <1>1
<1>3. SnapMatches(s)'
  BY <1>2 DEF MovesOn, ThreadMatches, SnapMatches, Started
<1>4. ASSUME UpdateMatches(u) PROVE UpdateMatches(u)'
  BY <1>4 DEF MovesOn, UpdateMatches
<1>5. ASSUME LogMatches(u) PROVE LogMatches(u)'
  BY <1>5 DEF MovesOn, LogMatches
<1>6. req'[s].pc = "write" => UpdateMatches(req[s].upd)'
  BY <1>1, <1>2, <1>4 DEF ThreadMatches, UpdateMatches
<1>7. req'[s].pc = "log" => LogMatches(req[s].upd)'
  BY <1>1, <1>2, <1>5 DEF ThreadMatches, LogMatches
<1>8. QED
  BY <1>2, <1>3, <1>6, <1>7 DEF ThreadMatches

\* An UPDATE that takes effect.
LEMMA MatchWrites ==
    ASSUME MatchInv, TypeOK', NEW r \in Requests, Writes(r)
    PROVE  MatchInv'
<1>1. PICK u \in Updates : u = req[r].upd
  BY Written DEF MatchInv
<1>2. /\ row.status = u.from /\ row'.status = u.to
      /\ row'.taskId = IF u.taskId = None THEN row.taskId ELSE u.taskId
      /\ row'.build = IF u.build = None THEN row.build ELSE u.build
      /\ row'.ctx = IF u.ctx = None THEN row.ctx ELSE u.ctx
      /\ req'[r].pc = "log" /\ req'[r].upd = u /\ req'[r].kind = req[r].kind
      /\ \A s \in Requests : s # r => req'[s] = req[s]
  BY <1>1, Written DEF MatchInv
<1>3. UpdateMatches(u) /\ req[r].kind \notin {"retry", "resolve"}
  BY <1>1 DEF MatchInv, ThreadMatches, Writes
<1>4. RowMatches
  BY DEF MatchInv
<1>5. row'.taskId = row'.ctx.created
  BY <1>2, <1>3, <1>4 DEF UpdateMatches, RowMatches
<1>6. row'.status \in Building => row'.build = row'.ctx.pipeline
  BY <1>2, <1>3, <1>4, NoneIsNoValue DEF UpdateMatches, RowMatches, Building, Late
<1>7. row'.status \in Early => row'.taskId = None
  BY <1>2, <1>3, <1>4 DEF UpdateMatches, RowMatches, Early
<1>8. MovesOn
  BY <1>2, <1>3 DEF UpdateMatches, MovesOn, Early, Late, Building
<1>9. ThreadMatches(r)'
  BY <1>2, <1>3 DEF ThreadMatches, SnapMatches, LogMatches, Started, Late
<1>10. \A s \in Requests : ThreadMatches(s)'
  <2>1. TAKE s \in Requests
  <2>2. CASE s = r
    BY <1>9, <2>2
  <2>3. CASE s # r
    BY <1>2, <1>8, <2>3, OthersMatch DEF MatchInv
  <2>4. QED
    BY <2>2, <2>3
<1>11. QED
  BY <1>5, <1>6, <1>7, <1>10 DEF MatchInv, RowMatches

\* A request that goes on over a row that stays.
LEMMA MatchContinues ==
    ASSUME Kinds \cap {"retry", "resolve"} = {},
           MatchInv, TypeOK', NEW r \in Requests, Continues(r)
    PROVE  MatchInv'
<1>1. /\ row' = row
      /\ \A s \in Requests : s # r => req'[s] = req[s]
  BY DEF Continues
<1>2. RowMatches /\ RowMatches' /\ MovesOn
  BY <1>1 DEF MatchInv, RowMatches, MovesOn
<1>3. ThreadMatches(r)
  BY DEF MatchInv
<1>4. ThreadMatches(r)'
  <2>1. CASE req'[r].pc = "idle"
    BY <2>1 DEF ThreadMatches, SnapMatches, Started
  <2>2. CASE req'[r].pc \in {"call", "import"}
    <3>1. req'[r].snap.status = row.status /\ req'[r].snap.ctx = row.ctx
      BY <2>2 DEF Continues, Snapshot
    <3>2. req'[r].pc = "import" => row.status \in Late
      BY <1>3, <2>2 DEF Continues, ThreadMatches, LogMatches, Late
    <3>3. SnapMatches(r)'
      BY <1>1, <1>2, <2>2, <3>1, <3>2
         DEF SnapMatches, RowMatches, Early, Late, Building
    <3>4. req'[r].kind \notin {"retry", "resolve"}
      BY <2>2 DEF Continues
    <3>5. QED
      BY <2>2, <3>3, <3>4 DEF ThreadMatches
  <2>3. CASE req'[r].pc = "write"
    <3>1. PICK u : u = req'[r].upd
      OBVIOUS
    <3>2. PICK kind : kind = req'[r].kind
      OBVIOUS
    <3>3. Merges(r, u) /\ KindKept(r, kind, u)
          /\ (kind \notin {"retry", "resolve"} => Forward(r, u))
      BY <2>3, <3>1, <3>2 DEF Continues, Reasoned
    <3>4. kind \notin {"retry", "resolve"}
      BY <1>3, <3>3 DEF KindKept, ThreadMatches, Started
    <3>5. Forward(r, u)
      BY <3>3, <3>4
    <3>6. /\ u.from \in Early => Known(r).ctx.created = None
          /\ u.from \notin Early => row.status \notin Early /\ Known(r).ctx.created = row.taskId
      <4>1. CASE Started(r)
        <5>1. Known(r) = req[r].snap
          BY <4>1 DEF Known
        <5>2. QED
          BY <1>3, <3>5, <4>1, <5>1 DEF Forward, ThreadMatches, SnapMatches, Started
      <4>2. CASE ~Started(r)
        <5>1. Known(r).status = row.status /\ Known(r).ctx = row.ctx
          BY <4>2 DEF Known, Snapshot
        <5>2. req[r].pc = "log" => row.status \notin Early
          BY <1>3, <3>3, <4>2 DEF KindKept, ThreadMatches, LogMatches, Early
        <5>3. QED
          BY <1>2, <3>5, <4>2, <5>1, <5>2 DEF Forward, RowMatches, Started
      <4>3. QED
        BY <4>1, <4>2
    <3>7. u.to \in Building /\ u.from = u.to =>
             /\ row.status \in Late
             /\ row.status = "PIPELINE_SUCCESS" => Known(r).ctx.pipeline = row.build
      BY <1>3, <3>5 DEF Forward, ThreadMatches, SnapMatches, Known, Started
    <3>8. UpdateMatches(u)
      BY <3>3, <3>5, <3>6, <3>7 DEF Merges, Forward, UpdateMatches, Early
    <3>9. UpdateMatches(req[r].upd)'
      BY <1>1, <3>1, <3>8 DEF UpdateMatches
    <3>10. QED
      BY <2>3, <3>2, <3>4, <3>9 DEF ThreadMatches, SnapMatches, Started
  <2>4. QED
    BY <2>1, <2>2, <2>3 DEF Continues
<1>5. \A s \in Requests : ThreadMatches(s)'
  <2>1. TAKE s \in Requests
  <2>2. CASE s = r
    BY <1>4, <2>2
  <2>3. CASE s # r
    BY <1>1, <1>2, <2>3, OthersMatch DEF MatchInv
  <2>4. QED
    BY <2>2, <2>3
<1>6. QED
  BY <1>2, <1>5 DEF MatchInv

\* In a workload without retries and resolutions (the two ways back to an earlier
\* status), the bound work item is the one in the context, and a status of a build
\* has that build in its columns and its context alike: no stale context is ever
\* written back over newer columns, however the requests overlap or die.
THEOREM ContextMatches ==
    ASSUME Kinds \cap {"retry", "resolve"} = {}
    PROVE  Spec => []ContextMatchesColumns
<1>1. Init => MatchInv
  BY MatchInit
<1>2. MatchInv /\ [Next]_vars => MatchInv'
  <2> SUFFICES ASSUME MatchInv, [Next]_vars PROVE MatchInv'
    OBVIOUS
  <2>1. TypeOK /\ TypeOK'
    BY TypeStep DEF MatchInv
  <2>2. CASE UNCHANGED vars
    <3>1. MovesOn /\ RowMatches'
      BY <2>2 DEF vars, MovesOn, MatchInv, RowMatches
    <3>2. \A s \in Requests : ThreadMatches(s)'
      BY <2>2, <3>1, OthersMatch DEF vars, MatchInv
    <3>3. QED
      BY <2>1, <3>1, <3>2 DEF MatchInv
  <2>3. CASE ~UNCHANGED vars
    BY <2>1, <2>3, StepCases, MatchWrites, MatchContinues
  <2>4. QED
    BY <2>2, <2>3
<1>3. MatchInv => ContextMatchesColumns
  BY DEF MatchInv, RowMatches, ContextMatchesColumns, Building
<1>4. QED
  BY <1>1, <1>2, <1>3, PTL DEF Spec
-----------------------------------------------------------------------------
(* The events account for the status. *)

\* The threads that Logging counts.
Loggers(edge, status) == {r \in Requests : req[r].pc = "log" /\ req[r].upd[edge] = status}

\* A number for a truth value.
Unit(b) == IF b THEN 1 ELSE 0

LEMMA LoggersCount ==
    ASSUME NEW edge, NEW status
    PROVE  /\ IsFiniteSet(Loggers(edge, status))
           /\ Cardinality(Loggers(edge, status)) = Logging(edge, status)
           /\ Logging(edge, status) \in Nat
<1>1. Loggers(edge, status) \subseteq Requests
  BY DEF Loggers
<1>2. IsFiniteSet(Loggers(edge, status))
  BY <1>1, SetsAreFinite, FS_Subset
<1>3. Cardinality(Loggers(edge, status)) = Logging(edge, status)
  BY DEF Loggers, Logging
<1>4. QED
  BY <1>2, <1>3, FS_CardinalityType

\* A set that gains or loses the element it may.
LEMMA OneMore ==
    ASSUME NEW S, IsFiniteSet(S), NEW r, r \notin S, NEW b \in BOOLEAN
    PROVE  Cardinality(IF b THEN S \cup {r} ELSE S) = Cardinality(S) + Unit(b)
<1>1. Cardinality(S) \in Nat
  BY FS_CardinalityType
<1>2. Cardinality(S \cup {r}) = Cardinality(S) + 1
  BY FS_AddElement
<1>3. QED
  BY <1>1, <1>2 DEF Unit

\* A thread that starts to log counts from then on,
LEMMA LoggingStarts ==
    ASSUME NEW r \in Requests, req[r].pc # "log", req'[r].pc = "log",
           \A s \in Requests : s # r => req'[s] = req[s],
           NEW edge, NEW status
    PROVE  Logging(edge, status)'
              = Logging(edge, status) + Unit(req'[r].upd[edge] = status)
<1> DEFINE S == Loggers(edge, status)
           b == req'[r].upd[edge] = status
<1>1. /\ r \notin S
      /\ IsFiniteSet(S) /\ Cardinality(S) = Logging(edge, status)
  <2>1. r \notin S
    BY DEF Loggers
  <2>2. QED
    BY <2>1, LoggersCount
<1>2. Loggers(edge, status)' = IF b THEN S \cup {r} ELSE S
  BY DEF Loggers
<1>3. Logging(edge, status)' = Cardinality(Loggers(edge, status)')
  BY DEF Loggers, Logging
<1>4. b \in BOOLEAN
  OBVIOUS
<1> HIDE DEF S, b
<1>5. Cardinality(IF b THEN S \cup {r} ELSE S) = Cardinality(S) + Unit(b)
  BY <1>1, <1>4, OneMore
<1>6. QED
  BY <1>1, <1>2, <1>3, <1>5 DEF b

\* one that stops does not,
LEMMA LoggingStops ==
    ASSUME NEW r \in Requests, req[r].pc = "log", req'[r].pc # "log",
           \A s \in Requests : s # r => req'[s] = req[s],
           NEW edge, NEW status
    PROVE  Logging(edge, status)'
              = Logging(edge, status) - Unit(req[r].upd[edge] = status)
<1> DEFINE S == Loggers(edge, status) \ {r}
           b == req[r].upd[edge] = status
<1>1. r \notin S /\ IsFiniteSet(S)
  BY LoggersCount, FS_Subset
<1>2. Loggers(edge, status) = IF b THEN S \cup {r} ELSE S
  BY DEF Loggers
<1>3. Loggers(edge, status)' = S
  BY DEF Loggers
<1>4. /\ Logging(edge, status)' = Cardinality(Loggers(edge, status)')
      /\ Logging(edge, status) = Cardinality(Loggers(edge, status))
  BY DEF Loggers, Logging
<1>5. b \in BOOLEAN
  OBVIOUS
<1> HIDE DEF S, b
<1>6. Cardinality(IF b THEN S \cup {r} ELSE S) = Cardinality(S) + Unit(b)
  BY <1>1, <1>5, OneMore
<1>7. Cardinality(S) \in Nat
  BY <1>1, FS_CardinalityType
<1>8. QED
  BY <1>2, <1>3, <1>4, <1>6, <1>7 DEF b, Unit

\* and any other step leaves the count alone.
LEMMA LoggingStays ==
    ASSUME NEW r \in Requests, req[r].pc # "log", req'[r].pc # "log",
           \A s \in Requests : s # r => req'[s] = req[s],
           NEW edge, NEW status
    PROVE  Logging(edge, status)' = Logging(edge, status)
<1>1. Loggers(edge, status)' = Loggers(edge, status)
  BY DEF Loggers
<1>2. /\ Logging(edge, status)' = Cardinality(Loggers(edge, status)')
      /\ Logging(edge, status) = Cardinality(Loggers(edge, status))
  BY DEF Loggers, Logging
<1>3. QED
  BY <1>1, <1>2

\* What a status is owed by the events, written and unwritten.
Owed(s) == logged[s] + Logging("to", s) - Logging("from", s)

LEMMA LogInit == Init => LogAccountsForStatus
<1> SUFFICES ASSUME Init, NEW s \in Statuses
             PROVE  Owed(s) = IF row.status = s THEN 1 ELSE 0
  BY DEF LogAccountsForStatus, Owed
<1>1. \A r \in Requests : req[r].pc # "log"
  BY DEF Init, Idle
<1>2. Loggers("to", s) = {} /\ Loggers("from", s) = {}
  BY <1>1 DEF Loggers
<1>3. Logging("to", s) = 0 /\ Logging("from", s) = 0
  BY <1>2, FS_EmptySet DEF Loggers, Logging
<1>4. logged[s] = (IF s = "CREATED" THEN 1 ELSE 0) /\ row.status = "CREATED"
  BY DEF Init
<1>5. QED
  BY <1>3, <1>4 DEF Owed

\* Only these steps touch what the accounts are made of.
LEMMA AccountsUntouched ==
    ASSUME TypeOK, NEW r \in Requests, Arrive(r) \/ Proceed(r) \/ Abort(r), ~InsertEvent(r),
           ~(Abort(r) /\ req[r].pc = "log")
    PROVE  /\ logged' = logged /\ lost' = lost
           /\ Writes(r) \/ (Continues(r) /\ req[r].pc # "log")
<1>1. CASE Arrive(r)
  <2>1. /\ logged' = logged /\ lost' = lost /\ req[r].pc # "log"
        /\ retries' = retries /\ row' = row
    BY <1>1 DEF Arrive, SubmitRequirement, ResolveWorkflow, SubmitCodingResult,
       RetryWorkflow, HandlePipelineRunning, HandlePipelineFailure, HandlePipelineSuccess,
       AdvanceWorkflow, history, Arrives
  <2>2. QED
    BY <1>1, <2>1, OutcomeArrive, OutcomeContinues
<1>2. CASE ReadDoc(r) \/ CreateWorkitem(r) \/ CloseWorkitem(r) \/ ImportOpenapi(r)
  <2>1. /\ logged' = logged /\ lost' = lost /\ req[r].pc # "log" /\ req[r].pc # "write"
        /\ retries' = retries /\ row' = row
    BY <1>2 DEF ReadDoc, CreateWorkitem, CloseWorkitem, ImportOpenapi, Calling, history
  <2>2. ~UpdateRow(r)
    BY <2>1 DEF UpdateRow
  <2>3. Outcome(r)
    BY <1>2, <2>2, OutcomeProceed DEF Proceed
  <2>4. QED
    BY <2>1, <2>3, OutcomeContinues
<1>3. CASE UpdateRow(r)
  <2>1. logged' = logged /\ lost' = lost /\ req[r].pc = "write"
    BY <1>3 DEF UpdateRow
  <2>2. CASE Ends(r) /\ row' = row /\ retries' = retries
    BY <2>1, <2>2, OutcomeContinues DEF Outcome
  <2>3. CASE ~(Ends(r) /\ row' = row /\ retries' = retries)
    BY <1>3, <2>1, <2>3 DEF UpdateRow, Writes, outside
  <2>4. QED
    BY <2>1, <2>2, <2>3
<1>4. CASE Abort(r)
  <2>1. logged' = logged /\ lost' = lost /\ row' = row /\ retries' = retries
        /\ req[r].pc # "log"
    BY <1>4 DEF Abort
  <2>2. QED
    BY <1>4, <2>1, OutcomeElse, OutcomeContinues
<1>5. QED
  BY <1>1, <1>2, <1>3, <1>4 DEF Proceed

LEMMA LogWrites ==
    ASSUME TypeOK, LogAccountsForStatus, NEW r \in Requests, Writes(r),
           logged' = logged, ~lost, NEW s \in Statuses
    PROVE  Owed(s)' = IF row'.status = s THEN 1 ELSE 0
<1>1. PICK u \in Updates : u = req[r].upd
  BY Written
<1>2. /\ row.status = u.from /\ row'.status = u.to
      /\ req'[r].pc = "log" /\ req'[r].upd = u /\ req[r].pc = "write"
      /\ \A t \in Requests : t # r => req'[t] = req[t]
  BY <1>1, Written DEF Writes
<1>3. /\ Logging("to", s)' = Logging("to", s) + Unit(u["to"] = s)
      /\ Logging("from", s)' = Logging("from", s) + Unit(u["from"] = s)
  BY <1>2, LoggingStarts
<1>4. Logging("to", s) \in Nat /\ Logging("from", s) \in Nat /\ logged[s] \in Int
  BY LoggersCount DEF TypeOK
<1>5. logged[s] + Logging("to", s) - Logging("from", s) = Unit(u.from = s)
  BY <1>2 DEF LogAccountsForStatus, Unit
<1>6. Owed(s)' = logged[s] + Logging("to", s)' - Logging("from", s)'
  BY DEF Owed
<1>7. u["to"] = u.to /\ u["from"] = u.from
  OBVIOUS
<1>8. QED
  BY <1>2, <1>3, <1>4, <1>5, <1>6, <1>7 DEF Unit

LEMMA LogInsert ==
    ASSUME TypeOK, LogAccountsForStatus, NEW r \in Requests, InsertEvent(r),
           ~lost, NEW s \in Statuses
    PROVE  Owed(s)' = IF row'.status = s THEN 1 ELSE 0
<1>1. PICK u \in Updates : u = req[r].upd
  BY DEF TypeOK, Pending, InsertEvent
<1>2. row' = row /\ retries' = retries /\ req[r].pc = "log"
  BY DEF InsertEvent
<1>3. Continues(r)
  BY <1>2, OutcomeProceed, OutcomeContinues DEF Proceed, UpdateRow
<1>4. /\ req'[r].pc # "log"
      /\ \A t \in Requests : t # r => req'[t] = req[t]
  BY <1>3 DEF Continues
<1>5. /\ Logging("to", s)' = Logging("to", s) - Unit(u["to"] = s)
      /\ Logging("from", s)' = Logging("from", s) - Unit(u["from"] = s)
  BY <1>1, <1>2, <1>4, LoggingStops
<1>6. Logging("to", s) \in Nat /\ Logging("from", s) \in Nat
      /\ logged \in [Statuses -> Int]
  BY LoggersCount DEF TypeOK
<1>7. logged' = [logged EXCEPT ![u.from] = @ - 1, ![u.to] = @ + 1]
  BY <1>1 DEF InsertEvent
<1>8. logged'[s] = logged[s] + Unit(u.to = s) - Unit(u.from = s)
  BY <1>6, <1>7 DEF Updates, Unit
<1>9. logged[s] + Logging("to", s) - Logging("from", s) = Unit(row.status = s)
  BY DEF LogAccountsForStatus, Unit
<1>10. Owed(s)' = logged'[s] + Logging("to", s)' - Logging("from", s)'
  BY DEF Owed
<1>11. u["to"] = u.to /\ u["from"] = u.from
  OBVIOUS
<1>12. QED
  BY <1>2, <1>5, <1>6, <1>8, <1>9, <1>10, <1>11 DEF Unit

LEMMA LogStep == TypeOK /\ LogAccountsForStatus /\ [Next]_vars => LogAccountsForStatus'
<1> SUFFICES ASSUME TypeOK, LogAccountsForStatus, [Next]_vars, ~lost', NEW s \in Statuses
             PROVE  Owed(s)' = IF row'.status = s THEN 1 ELSE 0
  BY DEF LogAccountsForStatus, Owed
<1>1. ASSUME NEW r \in Requests, InsertEvent(r)
      PROVE  Owed(s)' = IF row'.status = s THEN 1 ELSE 0
  BY <1>1, LogInsert DEF InsertEvent
<1>2. ASSUME NEW r \in Requests, Arrive(r) \/ Proceed(r) \/ Abort(r), ~InsertEvent(r)
      PROVE  Owed(s)' = IF row'.status = s THEN 1 ELSE 0
  <2>1. ~(Abort(r) /\ req[r].pc = "log")
    BY DEF Abort
  <2>2. /\ logged' = logged /\ ~lost
        /\ Writes(r) \/ (Continues(r) /\ req[r].pc # "log")
    BY <1>2, <2>1, AccountsUntouched
  <2>3. CASE Writes(r)
    BY <2>2, <2>3, LogWrites
  <2>4. CASE Continues(r) /\ req[r].pc # "log"
    <3>1. /\ row' = row /\ req'[r].pc # "log"
          /\ \A t \in Requests : t # r => req'[t] = req[t]
      BY <2>4 DEF Continues
    <3>2. Logging("to", s)' = Logging("to", s) /\ Logging("from", s)' = Logging("from", s)
      BY <2>4, <3>1, LoggingStays
    <3>3. Owed(s)' = Owed(s)
      BY <2>2, <3>2 DEF Owed
    <3>4. QED
      BY <2>2, <3>1, <3>3 DEF LogAccountsForStatus, Owed
  <2>5. QED
    BY <2>2, <2>3, <2>4
<1>3. CASE UNCHANGED vars
  <2>1. req' = req /\ logged' = logged /\ row' = row /\ ~lost
    BY <1>3 DEF vars
  <2>2. Logging("to", s)' = Logging("to", s) /\ Logging("from", s)' = Logging("from", s)
    BY <2>1 DEF Logging
  <2>3. QED
    BY <2>1, <2>2 DEF Owed, LogAccountsForStatus
<1>4. QED
  BY <1>1, <1>2, <1>3 DEF Next

\* The events explain the status: in whatever order concurrent requests write their
\* rows and their events, the events appended and the events still to be appended
\* form a path from CREATED to the present status, until a crash loses one.
THEOREM EventsAccountForStatus == Spec => []LogAccountsForStatus
<1>1. Init => LogAccountsForStatus
  BY LogInit
<1>2. TypeOK /\ LogAccountsForStatus /\ [Next]_vars => LogAccountsForStatus'
  BY LogStep
<1>3. QED
  BY <1>1, <1>2, TypeCorrect, PTL DEF Spec
=============================================================================
