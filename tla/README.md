# Verification of the delivery adapter

Adapter MVP (`src/app`) drives a delivery from a DingTalk requirement document to closed Yunxiao
work items: it reads the document, takes the parsed requirement from an agent, creates the work items,
follows the pipeline through callbacks, imports the interfaces into Apifox and closes the work items.
Its FastAPI handlers are synchronous functions, so they run concurrently in the server's thread pool;
their shared state is MySQL, where every helper of `db.py` opens its own autocommit connection. Beside it
run the CodeGraph worker, which answers queries from cached indexes, and the scripts of the operators.

## 1. Inventory

| Component | Source | State | Operations | Interacts through |
| --- | --- | --- | --- | --- |
| Workflow ledger | `app/workflow.py`, `app/db.py` 836-1646, 2471-2640 | a row of `adapter_workflow_instance`, the events of `adapter_workflow_event` | start, advance, requirement, coding-result, retry, resolve | calls DingTalk, Yunxiao; row and context shared with the callbacks |
| Pipeline callbacks | `app/yunxiao_pipeline.py`, `app/main.py` 422-656 | none of their own | running, success, failure; binding of a callback to a workflow | update the row; call Apifox |
| Yunxiao client | `app/yunxiao.py` | work items, sprints, comments (remote) | create item or tree, close, delete, restore demands | called by advance with the row it loaded |
| Workflow guard | `app/yunxiao_guard.py` | none | validates creation results and close plans | called by the client |
| Apifox import, pipeline lookup | `app/apifox.py`, `app/yunxiao_flow.py`, `scripts/upsert_apifox_*` | project and pipeline tables, endpoints (remote) | resolve, discover, preflight, serve the document, import | called by success callbacks; Apifox calls back |
| DingTalk reader | `app/dingtalk_docs.py`, `scripts/upsert_dingtalk_config.py` | app, configuration and old table with cached tokens | read, refresh a token, upsert, migrate | called by advance and by people |
| Status store | `app/status_store.py` | dictionary over `adapter_status` | put, get | adapter execution |
| Audit | `app/audit.py` | `adapter_audit`, a file | write, find | every handler |
| Authentication and approval | `app/auth.py`, `app/security.py` | `adapter_api_client` | verdict on a token | in front of every handler |
| Registry, SSH adapter | `app/registry.py`, `app/adapters/` | none | preview, execute | adapter execution |
| CodeGraph worker | `codegraph_worker/service.py`, `app/codegraph.py`, `scripts/codegraph_build_and_upload.sh` | OSS objects, `adapter_codegraph_index`, cache directories with a `.ready` mark | build, upload, register, prepare, query | the worker's threads share a directory; builds replace objects |
| Knowledge, failure analysis, request models | `app/knowledge.py`, `app/pipeline_agent.py`, `app/models.py` | none | text matching, validation | below and before the handlers |
| Schema, other configuration | `app/db.py` 53-835, 1647-2470; `scripts/` | configuration | upserts | constant while a workflow runs |

What is hard in it: requests that overlap between the load of a row and its conditional UPDATE; the
UPDATE and its event being two transactions; external calls that fail with their work done; crashes
between the steps of one handler; callbacks that come late, twice or out of order, and that must be
attributed to a workflow by what earlier ones wrote; state kept twice (memory and MySQL, file and
MySQL, cached token and credentials, cached index and objects) and written in two steps; lookups whose
failure is answered like an absence. The list with lines is `hazards` in `PROJECT.json`.

What makes each component correct:

- ledger: the status moves along the documented edges only; a change is explained by its event; a
  close is earned; retries respect the limit; nothing is left where no operation accepts it;
- callbacks: they never invent a build, a late one does no more than an early one may, and each
  moves the workflow it is about;
- Yunxiao client: an item that is bound exists completely and is found again when it is not bound; a
  close never closes what is not referenced; a deletion leaves no demand less deep than its tasks;
- Apifox: documents go to the project they are of, and are those that were looked at;
- status store, audit, caches: a reader sees what was written last, or something that was written whole.

## 2. Modules

Each component module has a module `MC...` that gives the model checker its instance and symmetries, and,
where theorems are proved about it, a module `...Proofs`.

| Module | What it models | Takes as given |
| --- | --- | --- |
| `DeliveryLifecycle` | one workflow as seen from outside: the abstract specification | |
| `WorkflowLedger` | the row, the threads that serve requests for it, the events | creation, closing and import by outcome |
| `CallbackBinding` | several workflows, and how a callback finds its own | the ledger's updates, without recovery |
| `RequirementTree` | what `CreateWorkitem` of the ledger stands for, request by request; deletion | a parsed requirement |
| `TaskClosing` | the closing of a workflow's tasks as seen from outside: the abstract specification | |
| `YunxiaoClose` | what `CloseWorkitem` of the ledger stands for, request by request | the references of the row |
| `ApifoxImport` | what `ImportOpenapi` of the ledger stands for, lookup by lookup | callbacks of one pipeline |
| `DingTalkConfig` | tokens, credentials and configurations | the answers of DingTalk |
| `AdapterTasks` | executions, status store, audit, authentication | the outcome of an SSH command |
| `CodegraphCache` | indexes from build to answer | whole objects in OSS |

`DeliveryLifecycle` has `status`, `attempts`, whether an item is `filed` and whether an import was reported.
Its actions are the edges of the lifecycle; it has no requests, rows or calls. `WorkflowLedger` implements it.

### How `WorkflowLedger` corresponds to the code

A request is a thread. Its `pc` says where it is:

| `pc` | In the code |
| --- | --- |
| `idle` | no request |
| `call` | in `read_dingtalk_doc`, `create_yunxiao_workitem` or `close_yunxiao_workitem`, holding the row it loaded (`snap`) |
| `import` | in `maybe_import_from_flow_event`, holding the row it loaded |
| `write` | about to issue its `UPDATE ... WHERE workflow_id = ? AND status = ?` (`upd`) |
| `log` | the UPDATE is committed, the `INSERT INTO adapter_workflow_event` is next |

An arrival (`SubmitRequirement`, `AdvanceWorkflow`, `HandlePipelineSuccess`, ...) is the load of the
row with every check made on it. It is one action since the load is one SELECT and the rest is local.
`UpdateRow` is the UPDATE with its rowcount test, `InsertEvent` the INSERT with the reload and what the
handler does next: the second update of advance, the import after a marked success. `Abort` is the
death of a request. The records `DocRead`, `TaskCreated`, ... are the UPDATEs of `db.py`: their WHERE
status, the columns they assign and those they leave alone. Early returns that change nothing are
stuttering.

Merged into one action: the load and the `SELECT ... FOR UPDATE` of retry with its checks (the lock
ends with the SELECT, in autocommit, so that a state read by the earlier load and found changed by the
SELECT is a refused request, which changes nothing); the INSERT and the reload after it.

Abstracted: `context_json` to the parts that columns and external state relate to (creation result,
close result, pipeline, failure); a build to one value for (pipelineId, buildNumber); what one creation
makes in Yunxiao, item or tree, to one item that is bound as a whole (what a creation leaves half made is in
`RequirementTree`, `BoundIsWhole`); branch, commit, messages and operators are left out. The other contents of the context may or may not differ, so that the
rowcount of an UPDATE that assigns equal modelled values is a free choice in `UpdateRow`. Assumed: the context that
the caller of `start_workflow` sends along, which is stored as it is (`app/workflow.py:41`), holds none of the modelled
parts, so that every workflow begins with an empty one.

History variables, read by no action: `imported` (Apifox reported an import), `retries` (written
retries), `logged` (per status, events into it less events out of it), `lost` (a crash lost an event).
`CloseIsEarned` also rests on `closed`, the items whose tasks were moved to done.

### How `YunxiaoClose` corresponds to the code

An attempt is a call of `close_yunxiao_workitem` by an advance that loaded `APIFOX_SYNCED`. Its `pc` is
the request to Yunxiao that comes next:

| `pc` | In the code |
| --- | --- |
| `snapshot` | `_snapshot_requirement_demand_statuses`, at the demands left in `tree` |
| `read`, `comment`, `update`, `verify` | the loop over the matched tasks, at the task `item` or, for `read`, one of `todo` |
| `restore`, `reopen`, `check` | `_restore_requirement_demand_statuses`, over the demands the snapshot found `open` |
| `closed`, `failed` | about to record the outcome, which is an UPDATE that expects `APIFOX_SYNCED` |

A GET and the local decision on its answer are one action. `Begin` chooses the references, which name
any tasks and demands of the tree; `Matched` is what `_match_requirement_tree_task_ids` leaves of them.
A workflow with a single work item is the case of no demands. Statuses are abstracted to open and done, all
that the code compares but for equality with the snapshot. Tasks are visited in any order,
which is any order of references, and so are the demands.

Of Yunxiao the module assumes that completing a task may complete its parent, at once, and that
nobody else moves the items meanwhile. What may go wrong with a request is the constant `Troubles`: an
error, which the code turns into `NEEDS_HUMAN`; a loss (an exception `urlopen` does not wrap, or the death of
the process), which leaves no record; a change that is acknowledged and not made, which the verification is
there for; an answer without a status, which the verification accepts. The repetition after
`NEEDS_HUMAN` is `ResolveWorkflow`. History: `before`, `referenced`, `broken`, `unread`, `reported`, `oddities`.

`TaskClosing` is the promise behind it, with no attempts, requests or snapshots: only tasks that a delivery named are commented on
or completed, the latter only with a comment; nothing is set back but demands that were open at first; the
workflow is closed once, for tasks that are done or whose status could not be read back. Its `named` is
`referenced`, its other variables are those of the same name; requests that only read, and the bookkeeping of
attempts, are stuttering steps. It lets changes come after the close, since an attempt that overlapped the one that closed may still make them.

### How `CallbackBinding` corresponds to the code

A callback is a thread that goes through the lookups of `_find_workflow_for_callback`, each a SELECT on a
connection of its own: by workflow id, by a reference of the parameters (column, then creation results), by a
workflow id and the references of the commit message, by build, by branch and commit. `pc` is the lookup that
comes next, `FallThrough` the order, `Result` what is made of no row, one row and several. The handlers write
build and commit into the row they were bound to, which is what later lookups find: that is why bindings
are modelled with several workflows and not as a function of one payload.

The creation of a work item makes references known, a coding result writes the commit, a retry goes
back (`Elsewhere`). Left out: the other moves of the ledger, which write none of these columns, coding results at
`REQUIREMENT_PARSED` and coding results without a commit, after which a callback finds less.
`PROJECT_BINDING_LIMIT` shows the workflows that were updated last; since anything may update a row, the window
is any subset of its size. `Truthful` is the assumption about the outside: a pipeline names only workflows its
build is for, and builds of one commit are for one set of workflows. History: `guessed` (bound through the build
("unknown", "0"), which `main.py` gives an event that has none), `steady` (what was waiting all the time), `cut`
(the window left something out).

### How `RequirementTree` corresponds to the code

An attempt is a call of `create_yunxiao_workitem` by an advance. Its position `n` in the plan (the demands, each
followed by its tasks) is the loop of `_create_yunxiao_requirement_tree`; before the first demand and before the first task the
sprint is resolved: `FindSprint`, `CreateSprint`, and the look that follows it. `CheckResult` is
`assert_yunxiao_create_result_valid`, after everything was made. `RecordResult` binds the tree, or records the
`partialResult` with the error, in a row that is still at `REQUIREMENT_PARSED`. `BeginDelete` and `DeleteItem` are
`delete_yunxiao_workitems` with its plan, tasks first; `DeleteByHand` the same with an explicit id.

Items are (attempt, position, sprint): titles, assignees and descriptions are left out. The two requests that list
sprints (by name, then all) are one step. Scope: the requirements name one version, the project has no configured
sprint and uses a personal token; otherwise no sprint is looked for. `Blank` are demands whose title is blank,
`Miscategorized` the workflows whose categories the guard refuses. History: `deleted`, `byHand`, `unknown`
(creations that were not answered), `broken` (attempts that ended without a record), `raced` (a sprint was created while
another request was about to).

### How `ApifoxImport` corresponds to the code

A callback goes through `_resolve_config`: the mapping of its pipeline, the discovery from Yunxiao's description
(`ListProjects`, `AskYunxiao`, `WriteMapping`, `ReadAgain`), the row of the project by id or by name. Every
lookup may fail, which `db.py` answers like no row. `Resolve` fixes what the import uses; `Preflight` fetches the document once,
`Fetch` is Apifox's own request to `GET /adapter/openapi/{project}`, which looks the address up again unless the
payload's address is signed in the request. The operator's scripts are `WriteProject` and `MapPipeline`.

A row is represented by its version, which stands for the Apifox project, the address and the delay written
with it; the description of the pipeline by the set of project names it mentions (`text`, fixed). The payload is truthful, does not
give `APIFOX_PROJECT_ID` itself, and `APIFOX_AUTO_IMPORT` and `APIFOX_STRIP_PROJECT_PATH` are on. A time-out while the answer of
`AskYunxiao` is read, which the code does not wrap and which ends the callback, is left out. History: who wrote a mapping and
whether the service had no row then (`by`, `early`), `blind`, `excused`.

### How `DingTalkConfig` corresponds to the code

`rows` are the rows of `adapter_dingtalk_app` and, for what is still there, of the old `adapter_dingtalk_app_config`, with
credentials, token and expiry; `configs` is `adapter_dingtalk_doc_config`, `olds` the rest of the old table. A
reader that finds no usable token loads the credentials (`Refresh`), gets an answer (`Receive`) and stores it with
the row its configuration names by then (`Save`). The operators' upsert reads, merges, writes and mirrors, of all settings or
of some (`named`): what it is not given it takes from the configuration's row, or from defaults (`Current`) when there is no row, which is so too
while the migration has not copied the old one (`db.py:2677`, `2801`; its second INSERT may fail unnoticed). The script writes
app, configuration and old row as three statements. `Migrate` is what the first access of a process does.

Time is in minutes: the margin of the code is 120 seconds, so is the reserve, and the floor of 60 seconds is one. Expiries are
counted as what is left. The code's time-out is one for each read of a socket, so nothing bounds how long an answer is under
way: `Late` stands for five minutes and anything longer. An answer may name the token's lifetime, none or 0, and in the last two
cases the code takes 7200 seconds (`Default`, `Answer`). `recorded` is what `token_expires_at` says, `left` (history) how
long the token really is good, counted no further than it is used (`Time`), and `doubtful` (history) marks tokens of which the
code cannot know: those with a lifetime shorter than what was counted for them, and those of a late answer.

The remark of an old row, which takes the place of its app there, is the app or any other text (`Mirror`); the comparison of
names by MySQL's collation is left out, and no two answers bring the same token with an expiry in the same second (the UPDATE
of the app would then count no row and fall back to the old table).

### How `AdapterTasks` corresponds to the code

A request arrives with a token that `Verdict` accepts, and goes through its accesses one by one: `Execute` (the adapter and
`put` into memory), `PutRow`, `GetMemory`, `GetRow`, `FillMemory`, `AppendFile`, `InsertRow`. What MySQL refuses is dropped by
the code, and noted in `unsaved` and `unlisted`. A status is the number of the execution it comes from. Previews and callbacks are
"note": they leave an audit entry and go on in components of their own. An audit query changes nothing; what it
may answer in each state is the operator `Shown`.

### How `CodegraphCache` corresponds to the code

One commit is built several times; a build replaces the three objects one by one and is registered under its version, which
by default is the commit (version 1). A query of the worker downloads the three objects into the directory of its
version, compares the digest, opens the archive, extracts file after file and writes `.ready`. Queries are for registered versions: the
worker does not look (`codegraph_worker/service.py:55`), the adapter that calls it does. A file is represented by the build
it is of, by `Torn` while it is written, or `Mixed` when two builds were written to it at once. Builds of one commit follow each other,
and ossutil replaces a local file as a whole. History: `overlapped`, the versions whose directory two queries prepared
at once.

## 3. Runs

Passing:

| Run | Instance | Question and answer |
| --- | --- | --- |
| `LedgerOverlap` | 2 requests that may die anywhere, 2 builds, 1 item, limit 1, 1 fault | Do overlapping and dying requests keep the row explained by its events and failures attributed to one build, is a close earned, does the ledger implement the lifecycle, and by how much can the retry limit be exceeded? Yes to all, and by the requests that race, less one: the bound of 2 is attained. |
| `LedgerForward` | 2 requests, 2 builds, 2 items, no retry or resolve, no crashes, fairness | Do columns and context agree although each is written from what a request loaded, and is a created work item followed by the coding request? Yes, until a recovery interface lets a status come back, or a crash comes between the two updates. |
| `CloseOverlap` | 2 attempts, overlapping or not, 2 demands with a task each, all troubles | Is closing limited to referenced tasks, documented by a comment, and true when recorded? Yes, up to answers without a status. One at a time, is nothing commented on twice without reason, and does Yunxiao's completion of demands leave no trace? Yes, unless an attempt is broken off. Does it all implement `TaskClosing`? Yes. |
| `Tree` | 3 workflows of one version (one with a blank second demand, one the guard refuses), 2 threads, 3 attempts, 2 sprints, 1 deletion by hand | Is a bound tree whole, is everything in Yunxiao recorded, bound or explained, does a tree stay in one sprint, does a second sprint need a race, and is a deletion always a prefix of its plan? Yes. |
| `Binding` | 3 workflows (two under one parent demand), 2 threads, 3 callbacks of 8 kinds, a window of 2 | Does no chain of bindings lead a callback to a foreign workflow, is none passed over that a callback names while it waits, and are two that match both left alone? Yes, but through the build that stands for none. |
| `Apifox` | 2 callbacks, the service and another project, 2 versions of a row | Do documents go to the project they are of, are operators' mappings respected, and is what Apifox gets what the preflight saw? Yes, with the reasons named by the history variables. |
| `DingTalk` | 2 apps, 1 configuration, 2 credentials, 2 threads, tokens of 0, 1 and 5 minutes, a default of 5, answers under way for 0 to 5 minutes, 2 changes | Is a token that is used from the cache alive, however short it lives and whatever becomes of its row? Yes, unless its answer named no lifetime and it has less than the default, or took five minutes or more. Is a cached token of the credentials it is stored with, and are the settings those given last? Yes, unless they were changed during a refresh, a partial upsert overlapped another write, or a partial upsert met a configuration that was not copied. |
| `Tasks` | 2 tasks, 2 threads, 3 requests, 1 restart, a limit of 2 entries | Do status and audit follow the last execution, and does an audit query miss only what MySQL refused? Yes, but for overlapping executions of one task. |
| `Codegraph` | 2 queries, 2 builds of one commit, 2 files | Is a marked directory the archive that was verified, is an answer of one build, and is a registered version never served by an older one? Yes; for the first two unless two queries prepared the directory at once. |

Disagreements between code and documents, each with its line in `findings`:

| Run | What it shows |
| --- | --- |
| `RunningRefused` | the running handler accepts `CODING_REQUESTED`, its UPDATE does not |
| `CascadeKept` | an attempt that fails after closing a task leaves its demand completed, and the repetition takes it for a demand that was done before |
| `TornCache` | a directory is marked ready although one of its files is torn: two queries prepared it at once |

Bounds. Threads (`Requests`, `Attempts`, `Callbacks`, `Queries`) bound what overlaps, not how
much happens: a thread serves any number of requests one after another, up to the bounds on calls. The code's
races are between one request's read and another's write, so two threads show them. In the ledger, `Items` bounds
creations: a request calls out only while an item is left for it; `MaxFaults` the answered failures of external calls, and
`Limit` the retries, since both are charged to `retry_count`; a failure that is not answered (a
time-out while the answer is read, which no handler expects) costs nothing and is not bounded. `MaxCalls` (closing) are attempts in
all: two show a repetition and an overlap, and a third differs from the second only by the statuses and comments it finds.
`MaxCalls` (binding) are callbacks: the first writes, the second is found by it and writes, the third is led astray if one ever
is. `Window` is less than the workflows, so that one can be hidden. `MaxAttempts` lets one workflow fail, be repeated, and race with
another. `MaxVersion` lets a row be rewritten once during an import, `MaxChanges` two operators overlap. Lifetimes of 0 and 1 are
below the reserve and get the floor, or the default if the answer names none or 0; a lifetime of 5 is the least of which a token is
used (recorded as 3, more than the margin of 2) while it may be shorter by the 4 minutes its answer took. 2 files are the least of which one can be
torn. Symmetry is used for safety only.

`CHECK_DEADLOCK FALSE` in every run: the service only reacts to requests; a workflow that is closed, or whose
workload has no request for its status, rightly stops, and so does a run whose bounded calls are used up.

Fairness. `FairSpec` of `WorkflowLedger` assumes weak fairness of `Proceed(r)`, the steps of a started request, and nothing
of arrivals or crashes. It holds because every socket, MySQL's included, has a time-out and no step
waits for another request. The other modules state no fairness: what their requests owe is
what they leave behind wherever they stop, and every property of theirs is one of safety.

## 4. Proofs

TLAPS checks each theorem for every value of the constants that satisfies the module's named assumptions: that sets of
threads, items or sprints are finite where they are counted, that `None` and its like are no data, and what is said below.

`WorkflowLedgerProofs`, for any finite set of requests, any builds and items, any limit, with or
without crashes.

- `TypeCorrect`: `Spec => []TypeOK`, one case per action; lemmas say that each UPDATE record is one and
  that applying it to a row gives a row. (`EarnedInv`, which the run checks, contains `TypeOK`.)
- `EveryStepIsEarned`: `Spec => []EarnedInv`. `CloseIsEarned` is not inductive: a request that is about
  to write `YUNXIAO_TASK_CLOSED` decided on it long before, from a row that has changed since.
  `EarnedInv` adds that every UPDATE a thread carries is an edge of the lifecycle with the columns it may
  assign (`Allowed`), that a snapshot's bound item is still bound, and what the row alone must satisfy
  (`RowIsEarned`: a workflow that waits for a person, is synced or closed, with an item bound, was
  imported, which is why resolve's choice of target does no harm). The argument is that bound items,
  imports and closed items only grow (`Grows`), so what a thread knew stays true; `OthersEarned` states
  that once, and each action then only has to justify its own thread.
- `ClosingIsEarned`: `Spec => []CloseIsEarned`, its consequence.
- `LedgerRefinesLifecycle`: `Spec => LifecycleSpec`. Only `UpdateRow` touches the row, and the edge it
  takes is one of `Allowed`: one case each (`WriteRefines`).
- `FailuresAreAttributed`, `RetriesAreBounded`, `ContextMatches` and `EventsAccountForStatus` share a summary of the
  handlers (`Outcome`, `StepCases`): a step of a request sets down what it has decided, writes its row, appends its event or ends.
  Each property of the row is inductive only together with the same property of every UPDATE a request carries: `FailureInv` says
  that it names one build and a reason. `RetryInv` counts
  (`FS_` theorems on the finite set of requests): retries written, plus those who are still to write one, minus one, never exceed the
  limit, since each of them passed its check on a row below the limit and every retry charges the row.
  `MatchInv` says which phases of the lifecycle a snapshot and an UPDATE can be of, relative to the row: what a request loaded is no later than the
  row, and in an earlier phase its UPDATE, which asks for the status it saw, no longer applies. That argument needs a line without
  ways back, hence the hypothesis that `Kinds` has no "retry" and no "resolve" (the workload of `LedgerForward`); with them
  the property is false. `LogAccountsForStatus` is inductive with the types: a row that is written adds an edge
  to those whose events are due, the event moves it among those appended, a crash loses it.

`YunxiaoCloseProofs`, for any tree, any number of attempts and any set of troubles. Assumptions: tasks and
demands are disjoint (the guard on the close plan checks it), a task's parent is a demand or none.

- `ClosingIsSound`: `Spec => [](TypeOK /\ ClosingInv)`; the run leaves the types to it. None of the three properties below is inductive: a
  task is changed, and the workflow closed, on what an attempt found many steps before.
  `ClosingInv` adds what an attempt knows at each `pc` (`AttemptKnows`): the tasks behind it are done or were
  answered without a status, the one about to change carries its comment, all of them are referenced. The types
  need it too, since only a task's parent is defined. Tasks are never reopened and comments and references
  never taken back (`Grows`), so what others know stays true (`OthersKnow`); each action then justifies
  its own attempt (`StopStep`, `GoOnStep`).
- `WhiteList`, `WritebackComesFirst`, `ClosedIsTrue`: its consequences.
- `CommentsAreNotRepeated` from `EarnedInv`: while attempts come one at a time, a task that carries more comments than attempts stopped at
  it is done or is the one being closed, so the next attempt passes it over.
- `DemandsComeBack` from `DemandInv`: without failures, what differs from `before` is among the demands that were open at the start (`WasOpen`)
  and that the attempt has still to look at (`Touched`): its snapshot found exactly those open, and each of them is restored or
  seen open before it leaves the loop. Both rest on `Moves`, what a step of an attempt changes at each `pc`.
- `AttemptsImplementClosing`: `Spec => ClosingSpec`, each action mapped to an action of `TaskClosing` or to a stutter. `ClosingInv` gives the
  guards on tasks. The guard on demands needs `ReopenInv`: a demand that was done at first (not in `WasOpen`) is done still,
  so a snapshot, whenever it is taken, finds only demands open that were open at first, and only those of its snapshot
  are restored (`RestoresOwn`). This is where overlapping attempts could have hurt each other; they cannot.

`CallbackBindingProofs`, for any workflows, references and payloads that satisfy `Truthful`.

- `TypeCorrect`, `NoChainStrays`, `BindingIsSound`, from one invariant `Inv`. `StraysAreGuesses` alone is not inductive: a
  binding is written steps after it was found. `Inv` adds `RunOK`, which says of a callback at each lookup which
  references of its payload are left and, once it has found a workflow, that this one is about its build or was
  guessed. Since `guessed` only grows and rows only take builds from bound callbacks, a lookup by build or commit leads to
  a workflow the payload is about (`ResultOK`, `UpdatesOK`).
- `ReferencesFind` and `SharedReferencesMoveNone` from `SeekInv`: of the references a callback has come past (`Left` are the others), no workflow
  that waited all the time carries one, and if a creation result led it to a row, no other such workflow carries that reference.
  What waits now is what its lookups read (`Steady`); that `steady` only shrinks keeps what was ruled out ruled out (`SoughtShrinks`). Workflows are
  assumed to be finitely many, since "more than one row" is a count.

`RequirementTreeProofs`, for any plans that begin with a demand, any number of workflows, attempts, threads and sprints.

- `Invariance`: `Spec => []Inv`, and from it `TypeCorrect`, `BoundTreesAreWhole`, `OrphansAreKnown`, `SprintsAgree`,
  `OneSprintWithoutRace` and `DeletionFollowsPlan`. `RunsInv` is what makes them inductive: what a creating request at position `n`
  has made so far (every position before `n`, each with an id it knows), and what a deletion has left of its plan (every
  position it passed is deleted). `ItemsInv` says that items belong to attempts that were numbered, `RaceInv` that a request that is
  about to create a sprint while there is one has made the history variable say so. Another
  thread's step leaves both alone, since items once made stay in `Made` and rows once bound stay bound (`OneMoves`).

`CodegraphCacheProofs`, for any number of builds, queries and files.

- `VersionsAreFresh` from `FreshInv`: a version is registered after its objects are uploaded, and objects only get newer, so
  nothing a query holds or a directory contains is older than its version.
- `ReadyMeansVerified` and `AnswersAreOfOneBuild` from `CleanInv`: as long as a version is not in `overlapped`, at most
  one query prepares it (`OneAtATime`), and its directory is exactly what that query has done so far; if none does and it is marked,
  it is the verified archive (`VerifiedDir`).

`ApifoxImportProofs`, for any projects, callbacks and versions.

- `StraysHaveReason` from `MentionInv` (what a discovery carries was mentioned, and the service had no row if it was passed
  over), `MappingsAreRespected` from `BlindInv` (a discovery on its way is blind as soon as an operator's mapping is in
  place), `ImportsAreChecked` from `CheckInv` (what an import without excuse carries at each `pc`: target, checked and
  fetched document are of one version).

`AdapterTasksProofs`, for any threads, tasks, requests and restarts.

- `StatusCorrect` (`StatusIsNewest`) from `StatusInv`, which fills the gaps between the two writes of a status and between its read
  from MySQL and its write to memory: while an execution saves, memory holds its status, so nobody goes to MySQL for it
  and nobody else is at that status; what a read found in MySQL is still the newest, or the newest did not get there.
- `TrailCorrect` (`TrailEndsInStatus`) from `TrailInv`: at most one execution of a task is between its status and its audit entry,
  and it is the newest; a restart puts its entry among the lost ones.
- `AuditIsComplete` (`AuditHidesOnlyLost`) from `TraceInv`: an entry of the file is in MySQL too, on its way there, or lost, and each log has at
  most one entry of a request. `LastOfAll` is the counting: a query that answers with fewer entries than its limit
  has left none out, because the last one it left out (`HasGreatest`) would have as many behind it as the limit, and those were shown.

`DingTalkConfigProofs`, for any apps, configurations, threads, changes, lifetimes (0 among them) and any default.

- `TokensLive`, `TokensAreOwn` and `SettingsHold` are consequences of one invariant `Inv`. `CachedIsAlive` is not inductive: a minute later
  nothing may be left. `Alive` says that what is recorded of a token that is used and not doubtful exceeds what is left by at most the
  margin of two minutes, which the answer brings (four minutes at most, less the reserve of two) and time keeps. `Knows` says of a request whose rows nobody changed that the
  credentials it loaded are still those of its row, and that the columns it does not write are those given last, unless it found no row or something was lost before; `MovedInv` that
  the old table has the values given last of what was not moved.

Model-checked only: the liveness property `TaskCreatedLeadsOn`, which is out of the prover's reach. Every other property a passing run
checks is a theorem.

## 5. What else was met

Disagreements of code and documents that need no run of their own: each is a state or a step that the modules above contain.

- An UPDATE and its event are two transactions (`UpdateRow`, `InsertEvent`), so a crash leaves a change no event explains
  (`lost`), against `delivery/docs/工作流编排设计.md:48`; an audit file that cannot be written ends a request after its
  effects, against
  `delivery/docs/AI研发闭环与多项目CodeGraph接入方案.md:535` (every action has an audit record).
- A creation that is answered with a failure, or two advances that overlap, make a second tree, against
  `delivery/docs/主流程落地方案.md:198` (`NothingUnaccounted` says where the first one is found).
- Two requests both retry where the limit allows one, against `delivery/docs/工作流编排设计.md:318` (`RetryOvershootBounded`), and failed
  steps and escalations of every step are charged to the same counter, which is never reset (`app/db.py:1528`) and which `app/db.py:416`
  calls the retries of the current step: a workflow that was escalated and resolved once has, under a limit of 1, no retry for its build.
- An answer that names no lifetime is taken to name 7200 seconds (`app/dingtalk_docs.py:195`), and a partial upsert of a configuration that
  the migration did not copy takes defaults for the rest (`app/db.py:2677`); no document says otherwise (`doubtful`, `lost`).
- A crash inside advance leaves `YUNXIAO_TASK_CREATED`, which no operation accepts (`TaskCreatedLeadsOn` holds without crashes only).
- `app/main.py:608` gives an event without a build the build ("unknown", 0), by which such an event is then found (`guessed`).
- `README.md:224` of the repository describes a fallback to the active workflow of a project that the code no longer has.
- `delivery/docs/后续配置清单.md:18` lets a creation fail when no sprint matches; the code creates the sprint (`CreateSprint`).
- A second `start_workflow` with a `requirementKey` that another start inserts at the same time ends in an exception of the unique key.

## 6. Not modelled, and what is left

Text matching (`knowledge.py`, `pipeline_agent.py`) and request validation keep no state; of validation only its bounds appear,
as assumptions. Creation of a workflow row is the initial state: its find-or-insert rests on MySQL's unique key alone.
`mark_workflow_failed` has no caller, so `FAILED` is never reached. The configuration of Yunxiao and of adapter projects is constant while
a workflow runs, so its scripts are left out; so are the registration of API clients and what an SSH command does on its
host. The stripping of paths in `apifox.py` is a function of one document. What people do in Yunxiao by hand is left out of closing and
is one deletion in the tree. If two advances close at once and one of them fails, the workflow is left at `NEEDS_HUMAN` although the
other has closed everything; no document says otherwise, and a repetition closes it.

Worth doing next: an abstract specification of creation that `RequirementTree` implements, as `YunxiaoClose` implements `TaskClosing`, both tied
to the actions `CreateWorkitem` and `CloseWorkitem` of the ledger; and a property of two starts with one `requirementKey`.
