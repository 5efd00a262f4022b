--------------------------- MODULE CallbackBinding ---------------------------
(* How a pipeline callback finds the workflow it is about:                   *)
(* _find_workflow_for_callback in app/yunxiao_pipeline.py, the normalization *)
(* of flow events in app/main.py and the lookups of app/db.py.               *)
(*                                                                           *)
(* WorkflowLedger follows one workflow whose callbacks are bound already.    *)
(* Here there are several, and a callback carries what the pipeline gave it: *)
(* perhaps a workflow id, work item references in parameters and in the      *)
(* commit message, a build, a commit.  Each lookup is a SELECT of its own,   *)
(* and what a bound callback writes is what later lookups find.              *)
EXTENDS Naturals, Sequences, FiniteSets

CONSTANTS
    Workflows,  \* the rows of adapter_workflow_instance
    WorkflowIds,\* what callbacks may give as a workflow id
    Refs,       \* identifiers and display ids of work items
    Builds,     \* pairs of pipelineId and buildNumber
    Commits,    \* pairs of branchName and commitId
    Unknown,    \* the build ("unknown", "0") of an event that names none
    Threads,    \* callbacks in progress at the same time
    TaskOf,     \* the work item that a creation binds to each workflow
    TreeOf,     \* the other references its creation result holds
    About,      \* the workflows whose code a build or a commit is
    Payloads,   \* what callbacks may carry
    Window,     \* PROJECT_BINDING_LIMIT
    MaxCalls,   \* bound: callbacks in all
    None

Kinds == {"running", "success", "failure"}

\* A callback: what it reports, the workflow id and work item reference of its
\* parameters, those of its commit message, its build and its commit.
PayloadType == [kind : Kinds, id : WorkflowIds \cup {None}, param : Refs \cup {None},
                msgId : WorkflowIds \cup {None}, message : Seq(Refs),
                build : Builds \cup {Unknown}, commit : Commits \cup {None}]

Carriers(r) == {w \in Workflows : TaskOf[w] = r \/ r \in TreeOf[w]}

\* The names a payload carries.
Ids(p) == {p.id, p.msgId} \ {None}
Names(p) == ({p.param} \ {None}) \cup {p.message[i] : i \in DOMAIN p.message}

\* The workflows a callback is about, as far as its build and commit tell.
Mine(p) == IF p.build # Unknown THEN About[p.build]
           ELSE IF p.commit # None THEN About[p.commit] ELSE Workflows

\* A pipeline says the truth: whatever it names is something its code is for.
Truthful(p) ==
    /\ Ids(p) \cap Workflows \subseteq Mine(p)
    /\ \A r \in Names(p) : Carriers(r) \subseteq Mine(p)
    /\ p.commit # None => About[p.commit] = Mine(p)

ASSUME ReferencesOfWorkflows == TaskOf \in [Workflows -> Refs] /\ TreeOf \in [Workflows -> SUBSET Refs]
ASSUME IdsOfWorkflows == Workflows \subseteq WorkflowIds
ASSUME NothingIsNone ==
    None \notin WorkflowIds \cup Refs \cup Builds \cup Commits \cup {Unknown}
ASSUME WorkflowsAreFinite == IsFiniteSet(Workflows)
ASSUME UnknownIsNoBuild == Unknown \notin Builds
ASSUME AboutIsKnown == About \in [Builds \cup Commits -> SUBSET Workflows]
ASSUME PayloadsAreTruthful == \A p \in Payloads : p \in PayloadType /\ Truthful(p)
ASSUME BoundsAreNatural == Window \in Nat /\ MaxCalls \in Nat

VARIABLES
    rows,    \* the row of each workflow
    run,     \* what each thread is doing
    calls,   \* how many callbacks there were
    guessed  \* history: workflows bound by a build that was no build

vars == <<rows, run, calls, guessed>>

Statuses == {"REQUIREMENT_PARSED", "CODING_REQUESTED", "CODE_SUBMITTED",
             "PIPELINE_RUNNING", "PIPELINE_SUCCESS", "PIPELINE_FAILED",
             "APIFOX_SYNCED"}

PIPELINE_RUNNING_FROM_STATUSES == {"CODING_REQUESTED", "CODE_SUBMITTED"}
PIPELINE_SUCCESS_FROM_STATUSES == PIPELINE_RUNNING_FROM_STATUSES \cup {"PIPELINE_RUNNING"}
PIPELINE_FAILURE_FROM_STATUSES == PIPELINE_SUCCESS_FROM_STATUSES \cup {"PIPELINE_SUCCESS"}

Rows == [status : Statuses,
         build : Builds \cup {Unknown, None},  \* yunxiao_pipeline_id, _build_number
         commit : Commits \cup {None}]         \* branch_name, commit_id

\* Where a callback is: at one of the lookups, at the handler with the row that
\* was found, or at its import.  The last two are the outcomes without a row.
Pcs == {"idle", "id", "param", "paramShown", "msgId", "ref", "refShown", "build",
        "commit", "found", "import", "ambiguous", "notFound", "notMatched"}

Runs == [pc : Pcs, p : PayloadType \cup {None},
         todo : Seq(Refs),             \* references of the message not tried yet
         w : Workflows \cup {None},    \* the row found
         status : Statuses \cup {None},\* its status when it was loaded
         \* history: what waited for the callback all the time, and whether a
         \* lookup left some of it out
         steady : SUBSET Workflows, cut : BOOLEAN]

Idle == [pc |-> "idle", p |-> None, todo |-> <<>>, w |-> None,
         status |-> None, steady |-> {}, cut |-> FALSE]

\* The statuses in which a workflow is found by the references in its context.
BindingStatuses(kind) ==
    IF kind = "running" THEN PIPELINE_RUNNING_FROM_STATUSES
    ELSE PIPELINE_FAILURE_FROM_STATUSES

Waiting(kind) == {w \in Workflows : rows[w].status \in BindingStatuses(kind)}

\* The thread a is next as next says; each thread notes who stopped waiting.
Becomes(a, next) ==
    run' = [x \in Threads |->
              LET r == IF x = a THEN next ELSE run[x] IN
              [r EXCEPT !.steady =
                  {w \in @ : rows'[w].status \in BindingStatuses(r.p.kind)}]]

-----------------------------------------------------------------------------
(* The lookups. *)

\* The first lookup a payload calls for, and the first after the parameters.
AfterParam(p) ==
    IF p.msgId # None THEN "msgId" ELSE IF p.message # <<>> THEN "ref" ELSE "build"

FirstLookup(p) ==
    IF p.id # None THEN "id" ELSE IF p.param # None THEN "param" ELSE AfterParam(p)

\* An event is normalized and its first lookup chosen.
Arrive(a) ==
    /\ run[a].pc = "idle"
    /\ calls < MaxCalls
    /\ calls' = calls + 1
    /\ UNCHANGED <<rows, guessed>>
    /\ \E p \in Payloads :
          Becomes(a, [Idle EXCEPT !.pc = FirstLookup(p), !.p = p, !.todo = p.message,
                                  !.steady = Waiting(p.kind)])

Item(w) == IF rows[w].status = "REQUIREMENT_PARSED" THEN None ELSE TaskOf[w]
Shown(w) == IF rows[w].status = "REQUIREMENT_PARSED" THEN {} ELSE {TaskOf[w]} \cup TreeOf[w]

\* The waiting workflows the window shows: the Window updated last, which are any.
Windows(kind) ==
    LET all == Waiting(kind) IN
    IF Cardinality(all) <= Window THEN {all}
    ELSE {s \in SUBSET all : Cardinality(s) = Window}

\* The reference of the parameters or of the message that is being tried.
Ref(r) == IF r.pc \in {"param", "paramShown"} THEN r.p.param ELSE Head(r.todo)

\* Mutation: without a row of the commit, whoever waits in the project is taken.
MatchesByProject(r) ==
    CASE r.pc = "id" -> {r.p.id} \cap Workflows
      [] r.pc = "msgId" -> {r.p.msgId} \cap Workflows
      [] r.pc \in {"param", "ref"} -> {w \in Workflows : Item(w) = Ref(r)}
      [] r.pc = "build" -> {w \in Workflows : rows[w].build = r.p.build}
      [] OTHER -> {w \in Workflows : rows[w].commit = r.p.commit} \cup
                  (IF \A w \in Workflows : rows[w].commit # r.p.commit THEN Waiting(r.p.kind) ELSE {})

\* The rows that a lookup by a column selects.
Matches(r) ==
    CASE r.pc = "id" -> {r.p.id} \cap Workflows
      [] r.pc = "msgId" -> {r.p.msgId} \cap Workflows
      [] r.pc \in {"param", "ref"} -> {w \in Workflows : Item(w) = Ref(r)}
      [] r.pc = "build" -> {w \in Workflows : rows[w].build = r.p.build}
      [] OTHER -> {w \in Workflows : rows[w].commit = r.p.commit}

\* Mutation: a message whose first reference is not found is given up.
FallThroughFirst(r) ==
    CASE r.pc = "param" -> [r EXCEPT !.pc = "paramShown"]
      [] r.pc = "paramShown" -> [r EXCEPT !.pc = AfterParam(r.p)]
      [] r.pc = "ref" -> [r EXCEPT !.pc = "refShown"]
      [] r.pc = "build" /\ r.p.commit # None -> [r EXCEPT !.pc = "commit"]
      [] r.pc \in {"build", "commit"} -> [r EXCEPT !.pc = "notMatched"]
      [] OTHER -> [r EXCEPT !.pc = "notFound"]

\* Nothing was found: what is tried next.  A workflow id, and the references of a
\* message, are not followed by other lookups; a reference in parameters is.
FallThrough(r) ==
    CASE r.pc = "param" -> [r EXCEPT !.pc = "paramShown"]
      [] r.pc = "paramShown" -> [r EXCEPT !.pc = AfterParam(r.p)]
      [] r.pc = "ref" -> [r EXCEPT !.pc = "refShown"]
      [] r.pc = "refShown" /\ Tail(r.todo) # <<>> ->
             [r EXCEPT !.pc = "ref", !.todo = Tail(@)]
      [] r.pc = "build" /\ r.p.commit # None -> [r EXCEPT !.pc = "commit"]
      [] r.pc \in {"build", "commit"} -> [r EXCEPT !.pc = "notMatched"]
      [] OTHER -> [r EXCEPT !.pc = "notFound"]

\* Mutation: of several rows, the one that was updated last is taken.
ResultLatest(r, found) ==
    IF found = {} THEN {FallThrough(r)}
    ELSE {[r EXCEPT !.pc = "found", !.w = w, !.status = rows[w].status] : w \in found}

\* What a callback makes of the rows a lookup found.
Result(r, found) ==
    IF found = {} THEN {FallThrough(r)}
    ELSE IF Cardinality(found) > 1 THEN {[r EXCEPT !.pc = "ambiguous"]}
    ELSE {[r EXCEPT !.pc = "found", !.w = w, !.status = rows[w].status] : w \in found}

LookUp(a) ==
    /\ run[a].pc \in {"id", "param", "msgId", "ref", "build", "commit"}
    /\ UNCHANGED <<rows, calls>>
    /\ \E next \in Result(run[a], Matches(run[a])) :
          /\ Becomes(a, next)
          /\ guessed' = IF next.pc = "found" /\ run[a].pc = "build" /\ run[a].p.build = Unknown
                        THEN guessed \cup {next.w} ELSE guessed

\* A reference that is nobody's column is looked for in the creation results of
\* the waiting workflows, of which only the last ones are read.
LookUpShown(a) ==
    /\ run[a].pc \in {"paramShown", "refShown"}
    /\ UNCHANGED <<rows, calls, guessed>>
    /\ \E window \in Windows(run[a].p.kind) :
       \E next \in Result(run[a], {w \in window : Ref(run[a]) \in Shown(w)}) :
          Becomes(a, [next EXCEPT !.cut = @ \/ window # Waiting(run[a].p.kind)])

-----------------------------------------------------------------------------
(* The handlers, with the row that was found. *)

\* UPDATE ... WHERE status = from: columns the callback has no value for are kept.
Recorded(w, p, to) ==
    [rows EXCEPT ![w] = [status |-> to, build |-> p.build,
                         commit |-> IF p.commit = None THEN @.commit ELSE p.commit]]

Updates(w, p, from, to) ==
    IF rows[w].status = from THEN rows' = Recorded(w, p, to) ELSE UNCHANGED rows

\* The running handler accepts more statuses than its UPDATE expects.
HandleRunning(a) ==
    LET r == run[a] IN
    /\ r.pc = "found" /\ r.p.kind = "running"
    /\ IF r.status \in PIPELINE_RUNNING_FROM_STATUSES
       THEN Updates(r.w, r.p, "CODE_SUBMITTED", "PIPELINE_RUNNING")
       ELSE UNCHANGED rows
    /\ Becomes(a, Idle)
    /\ UNCHANGED <<calls, guessed>>

HandleFailure(a) ==
    LET r == run[a] IN
    /\ r.pc = "found" /\ r.p.kind = "failure"
    /\ IF r.status \in PIPELINE_FAILURE_FROM_STATUSES
       THEN Updates(r.w, r.p, r.status, "PIPELINE_FAILED")
       ELSE UNCHANGED rows
    /\ Becomes(a, Idle)
    /\ UNCHANGED <<calls, guessed>>

\* A success is marked and then imported; one that was marked is imported again.
HandleSuccess(a) ==
    LET r == run[a] IN
    /\ r.pc = "found" /\ r.p.kind = "success"
    /\ IF r.status \in PIPELINE_SUCCESS_FROM_STATUSES
       THEN Updates(r.w, r.p, r.status, "PIPELINE_SUCCESS")
       ELSE UNCHANGED rows
    /\ LET imports == r.status = "PIPELINE_SUCCESS" \/ rows' # rows
       IN  Becomes(a, IF imports THEN [Idle EXCEPT !.pc = "import", !.p = r.p, !.w = r.w] ELSE Idle)
    /\ UNCHANGED <<calls, guessed>>

\* The import of a bound callback, and its record: no build column is assigned.
RecordImport(a) ==
    LET r == run[a] IN
    /\ r.pc = "import"
    /\ rows' \in {rows} \cup (IF rows[r.w].status = "PIPELINE_SUCCESS"
                              THEN {[rows EXCEPT ![r.w].status = "APIFOX_SYNCED"]} ELSE {})
    /\ Becomes(a, Idle)
    /\ UNCHANGED <<calls, guessed>>

\* Without a row there is nothing to write; notMatched imports before it answers.
Answer(a) ==
    /\ run[a].pc \in {"ambiguous", "notFound", "notMatched"}
    /\ UNCHANGED <<rows, calls, guessed>>
    /\ Becomes(a, Idle)

-----------------------------------------------------------------------------
(* What else moves a row. *)

\* advance creates the work item: from then on references find the workflow.
CreateWorkitem(w) ==
    /\ rows[w].status = "REQUIREMENT_PARSED"
    /\ rows' = [rows EXCEPT ![w].status = "CODING_REQUESTED"]

SubmitCodingResult(w) ==
    /\ rows[w].status = "CODING_REQUESTED"
    /\ \E c \in {x \in Commits : w \in About[x]} :
          rows' = [rows EXCEPT ![w].status = "CODE_SUBMITTED", ![w].commit = c]

RetryWorkflow(w) ==
    /\ rows[w].status = "PIPELINE_FAILED"
    /\ rows' = [rows EXCEPT ![w].status = "CODING_REQUESTED"]

\* Left out: a coding result without a commit, and one at REQUIREMENT_PARSED.
Elsewhere(w) ==
    /\ CreateWorkitem(w) \/ SubmitCodingResult(w) \/ RetryWorkflow(w)
    /\ Becomes(None, Idle)
    /\ UNCHANGED <<calls, guessed>>

Init ==
    /\ rows = [w \in Workflows |->
                 [status |-> "REQUIREMENT_PARSED", build |-> None, commit |-> None]]
    /\ run = [a \in Threads |-> Idle]
    /\ calls = 0
    /\ guessed = {}

Callback(a) ==
    \/ Arrive(a) \/ LookUp(a) \/ LookUpShown(a)
    \/ HandleRunning(a) \/ HandleFailure(a) \/ HandleSuccess(a)
    \/ RecordImport(a) \/ Answer(a)

Next == (\E a \in Threads : Callback(a)) \/ (\E w \in Workflows : Elsewhere(w))

Spec == Init /\ [][Next]_vars

-----------------------------------------------------------------------------
(* Properties. *)

TypeOK ==
    /\ rows \in [Workflows -> Rows]
    /\ run \in [Threads -> Runs]
    /\ calls \in Nat
    /\ guessed \subseteq Workflows
    /\ \A a \in Threads :
          LET r == run[a] IN
          /\ r.pc # "idle" => r.p \in Payloads
          /\ r.pc \in {"ref", "refShown"} => r.todo # <<>>
          /\ r.pc \in {"found", "import"} => r.w \in Workflows
          /\ r.pc = "found" => r.status \in Statuses

\* A row holds a build or a commit of another workflow only if a callback was
\* bound to it by the build ("unknown", "0"), which every event without a build
\* carries: what pipelines report truthfully does not lead callbacks astray,
\* though each binding writes what later bindings are found by.
StraysAreGuesses ==
    \A w \in Workflows \ guessed :
        /\ rows[w].build \in Builds => w \in About[rows[w].build]
        /\ rows[w].commit # None => w \in About[rows[w].commit]

\* With the types and StraysAreGuesses: a callback is bound to a workflow it is
\* about, or to one that was guessed before.
BindingInv ==
    /\ TypeOK
    /\ StraysAreGuesses
    /\ \A a \in Threads :
          run[a].pc = "found" => run[a].w \in Mine(run[a].p) \cup guessed

\* A callback that names its workflow by a work item is not dropped, nor imported
\* past it, while the workflow waits for it, whatever is created and moved
\* between its lookups; only the limit of the list of waiting workflows hides one.
NamedIsFound ==
    \A a \in Threads :
        LET r == run[a] IN
        r.pc \in {"notFound", "notMatched"} /\ Ids(r.p) = {} /\ ~r.cut =>
            \A ref \in Names(r.p) : Carriers(ref) \cap r.steady = {}

\* A reference that two waiting workflows show is no reason to move either one,
\* unless it is the work item of the one that is moved.
NoGuessBetweenTwo ==
    \A a \in Threads :
        LET r == run[a] IN
        r.pc = "found" /\ Ids(r.p) = {} /\ ~r.cut =>
            \A ref \in Refs : Names(r.p) = {ref} /\ TaskOf[r.w] # ref =>
                Cardinality(Carriers(ref) \cap r.steady) <= 1
=============================================================================
