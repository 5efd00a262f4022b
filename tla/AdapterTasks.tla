---------------------------- MODULE AdapterTasks ----------------------------
(* The requests of the adapter proper: preview and execute an action, ask    *)
(* for the status or the audit of a task, and callbacks as far as they leave *)
(* an audit entry (app/main.py), with the authentication of app/auth.py, the *)
(* SSH adapter, the status store and the audit log.                          *)
(*                                                                           *)
(* Status and audit are both written twice: the status to memory and to      *)
(* MySQL, an audit entry to a file and to MySQL, and what MySQL does not     *)
(* take is dropped silently.  Every access is a step, so that requests about *)
(* one task overlap and a restart comes between any two steps.  A status is  *)
(* represented by the number of the execution it comes from.                 *)
EXTENDS Naturals, Sequences, FiniteSets

CONSTANTS
    Tasks,        \* task ids
    Threads,      \* requests served at the same time
    Configured,   \* MySQL is configured
    EnvToken,     \* ADAPTER_API_TOKEN is set
    MaxRequests,  \* bound: requests that leave an audit entry
    MaxRestarts,  \* bound: restarts of the process
    Limit,        \* the limit of an audit query
    None

ASSUME SettingsAreBoolean == {Configured, EnvToken} \subseteq BOOLEAN
ASSUME BoundsAreNatural == {MaxRequests, MaxRestarts} \subseteq Nat
ASSUME LimitIsPositive == Limit \in Nat \ {0}
ASSUME NoneIsNothing == None \notin Tasks \cup Nat \cup {"execute", "status", "note"}

VARIABLES
    memory,     \* per task: the status of InMemoryStatusStore
    row,        \* per task: adapter_status
    file,       \* audit.jsonl
    rows,       \* adapter_audit
    run,        \* what each thread is doing
    requests,   \* requests numbered so far
    restarts,
    \* history
    newest,     \* per task: the execution that wrote its status last
    unsaved,    \* executions whose status did not get into MySQL
    unlisted,   \* requests whose audit entry did not get into MySQL
    overlapped  \* tasks whose executions overlapped with requests that write their status

store == <<memory, row>>
audit == <<file, rows>>
history == <<newest, unsaved, unlisted, overlapped>>
vars == <<memory, row, file, rows, run, requests, restarts,
          newest, unsaved, unlisted, overlapped>>

-----------------------------------------------------------------------------
(* Authentication. *)

\* The token of a request: none, that of the environment, another; and how the
\* look at the client table ended: it fails with its SELECT or with the UPDATE of
\* last_used_at.
Tokens == {"none", "env", "other"}
Lookups == {"found", "scoped", "absent", "failed"}

\* _authenticate_api_token: the client table first, then the token of the
\* environment, which has no scope.
Verdict(delete, token, lookup) ==
    LET anonymous == ~delete /\ ~EnvToken /\ ~Configured
    IN  CASE token = "none" -> IF anonymous THEN 200 ELSE 401
          [] token # "none" /\ lookup = "scoped" -> 200
          [] token # "none" /\ lookup = "found" -> IF delete THEN 403 ELSE 200
          [] token # "none" /\ lookup \in {"absent", "failed"} ->
               IF anonymous \/ (token = "env" /\ EnvToken /\ ~delete) THEN 200
               ELSE IF lookup = "failed" THEN 503 ELSE 403

-----------------------------------------------------------------------------
(* Requests. *)

Requests == 1 .. MaxRequests

\* "note" is a preview, or a callback that leaves an entry and goes on elsewhere
Logged == {"execute", "status", "note"}
Entries == [id : Requests, task : Tasks, kind : Logged]

\* "adapter" is the action with its status, which "save" writes to MySQL; "get",
\* "load" and "fill" read one; "file" and "list" write the audit
Pcs == {"idle", "adapter", "save", "get", "load", "fill", "file", "list"}

Runs == [pc : Pcs, kind : Logged \cup {None}, task : Tasks \cup {None},
         id : Requests \cup {None},
         status : Requests \cup {None}]

Idle == [pc |-> "idle", kind |-> None, task |-> None, id |-> None, status |-> None]

Go(a, pc) == run' = [run EXCEPT ![a].pc = pc]
End(a) == run' = [run EXCEPT ![a] = Idle]

Arrive(a) ==
    /\ run[a].pc = "idle"
    /\ \E token \in Tokens, lookup \in IF Configured THEN Lookups ELSE {"absent"} :
          Verdict(FALSE, token, lookup) = 200
    /\ requests < MaxRequests
    /\ requests' = requests + 1
    /\ \E t \in Tasks,
          start \in {<<"execute", "adapter">>, <<"status", "get">>, <<"note", "file">>} :
          run' = [run EXCEPT ![a] = [Idle EXCEPT !.task = t, !.id = requests',
                                       !.kind = start[1], !.pc = start[2]]]
    /\ UNCHANGED <<store, audit, restarts, history>>

-----------------------------------------------------------------------------
(* The status store. *)

\* Threads that are writing the status of a task, and executions that have not
\* written their audit entry yet.
Writing(t) ==
    {a \in Threads : run[a].task = t /\
        (run[a].pc \in {"save", "load", "fill"} \/
         (run[a].kind = "execute" /\ run[a].pc \in {"file", "list"}))}

\* Without an approval or an adapter, or with an exception, there is no result; an
\* unknown host, disabled remote execution, a missing password and a failed
\* connection are results like success.  put, memory first.
Execute(a) ==
    LET t == run[a].task IN
    /\ run[a].pc = "adapter"
    /\ \/ /\ memory' = [memory EXCEPT ![t] = run[a].id]
          /\ newest' = [newest EXCEPT ![t] = run[a].id]
          /\ overlapped' = IF Writing(t) # {} THEN overlapped \cup {t} ELSE overlapped
          /\ Go(a, "save")
       \/ End(a) /\ UNCHANGED <<memory, newest, overlapped>>
    /\ UNCHANGED <<row, audit, requests, restarts, unsaved, unlisted>>

\* Mutation: the row is inserted, never updated.
PutRowOnce(a) ==
    LET t == run[a].task IN
    /\ run[a].pc = "save"
    /\ \/ /\ Configured
          /\ row' = [row EXCEPT ![t] = IF @ = None THEN run[a].id ELSE @]
          /\ UNCHANGED unsaved
       \/ /\ unsaved' = unsaved \cup {run[a].id}
          /\ UNCHANGED row
    /\ Go(a, "file")
    /\ UNCHANGED <<memory, audit, requests, restarts, newest, unlisted, overlapped>>

\* put, then MySQL: what goes wrong there is dropped.
PutRow(a) ==
    LET t == run[a].task IN
    /\ run[a].pc = "save"
    /\ \/ /\ Configured
          /\ row' = [row EXCEPT ![t] = run[a].id]
          /\ UNCHANGED unsaved
       \/ /\ unsaved' = unsaved \cup {run[a].id}
          /\ UNCHANGED row
    /\ Go(a, "file")
    /\ UNCHANGED <<memory, audit, requests, restarts, newest, unlisted, overlapped>>

\* get: what memory holds is the answer.
GetMemory(a) ==
    LET s == memory[run[a].task] IN
    /\ run[a].pc = "get"
    /\ run' = [run EXCEPT ![a].pc = IF s = None THEN "load" ELSE "file", ![a].status = s]
    /\ UNCHANGED <<store, audit, requests, restarts, history>>

\* Mutation: a missing row is taken for a status.
GetRowMissing(a) ==
    /\ run[a].pc = "load"
    /\ \E s \in {None} \cup (IF Configured THEN {row[run[a].task]} ELSE {}) :
          run' = [run EXCEPT ![a].pc = "fill", ![a].status = s]
    /\ UNCHANGED <<store, audit, requests, restarts, history>>

\* get, then MySQL; a failure is like no row.
GetRow(a) ==
    /\ run[a].pc = "load"
    /\ \E s \in {None} \cup (IF Configured THEN {row[run[a].task]} ELSE {}) :
          run' = [run EXCEPT ![a].pc = IF s = None THEN "file" ELSE "fill", ![a].status = s]
    /\ UNCHANGED <<store, audit, requests, restarts, history>>

\* get: what was read goes into memory, whatever memory holds by now.
FillMemory(a) ==
    /\ run[a].pc = "fill"
    /\ memory' = [memory EXCEPT ![run[a].task] = run[a].status]
    /\ Go(a, "file")
    /\ UNCHANGED <<row, audit, requests, restarts, history>>

-----------------------------------------------------------------------------
(* The audit log. *)

Entry(r) == [id |-> r.id, task |-> r.task, kind |-> r.kind]

\* _write: a file that cannot be appended to is an error of the request.
AppendFile(a) ==
    /\ run[a].pc = "file"
    /\ \/ file' = Append(file, Entry(run[a])) /\ Go(a, "list") /\ UNCHANGED unlisted
       \/ End(a) /\ unlisted' = unlisted \cup {run[a].id} /\ UNCHANGED file
    /\ UNCHANGED <<store, rows, requests, restarts, newest, unsaved, overlapped>>

\* _write_db: what goes wrong here is dropped.
InsertRow(a) ==
    /\ run[a].pc = "list"
    /\ \/ /\ Configured
          /\ rows' = Append(rows, Entry(run[a]))
          /\ UNCHANGED unlisted
       \/ /\ unlisted' = unlisted \cup {run[a].id}
          /\ UNCHANGED rows
    /\ End(a)
    /\ UNCHANGED <<store, file, requests, restarts, newest, unsaved, overlapped>>

\* The last entries of a task, at most as many as the limit.
LastOf(log, t) ==
    {log[i].id : i \in {j \in DOMAIN log :
        /\ log[j].task = t
        /\ Cardinality({k \in j + 1 .. Len(log) : log[k].task = t}) < Limit}}

\* Mutation: the file is only read without MySQL.
ShownRowsOnly(t) ==
    IF Configured THEN {LastOf(rows, t), {}} ELSE {LastOf(file, t)}

\* find_by_task_id: the rows, if there are any, else the file; a failure is like no
\* rows.  (A query changes nothing: what it may answer in each state is enough.)
Shown(t) ==
    {LastOf(file, t)} \cup
    (IF Configured /\ LastOf(rows, t) # {} THEN {LastOf(rows, t)} ELSE {})

-----------------------------------------------------------------------------

\* The process ends, with what it holds in memory, and starts again.
Restart ==
    /\ restarts < MaxRestarts
    /\ restarts' = restarts + 1
    /\ memory' = [t \in Tasks |-> None]
    /\ run' = [a \in Threads |-> Idle]
    /\ unlisted' = unlisted \cup {run[a].id : a \in {b \in Threads : run[b].kind \in Logged}}
    /\ unsaved' = unsaved \cup {run[a].id : a \in {b \in Threads : run[b].pc = "save"}}
    /\ UNCHANGED <<row, audit, requests, newest, overlapped>>

Init ==
    /\ memory = [t \in Tasks |-> None] /\ row = [t \in Tasks |-> None]
    /\ file = <<>> /\ rows = <<>>
    /\ run = [a \in Threads |-> Idle]
    /\ requests = 0 /\ restarts = 0
    /\ newest = [t \in Tasks |-> None]
    /\ unsaved = {} /\ unlisted = {} /\ overlapped = {}

Step(a) ==
    \/ Arrive(a) \/ Execute(a)
    \/ PutRow(a) \/ GetMemory(a) \/ GetRow(a) \/ FillMemory(a)
    \/ AppendFile(a) \/ InsertRow(a)

Next == (\E a \in Threads : Step(a)) \/ Restart

Spec == Init /\ [][Next]_vars

-----------------------------------------------------------------------------
(* Properties. *)

TypeOK ==
    /\ memory \in [Tasks -> Requests \cup {None}] /\ row \in [Tasks -> Requests \cup {None}]
    /\ newest \in [Tasks -> Requests \cup {None}]
    /\ file \in Seq(Entries) /\ rows \in Seq(Entries)
    /\ run \in [Threads -> Runs]
    /\ requests \in 0 .. MaxRequests /\ restarts \in 0 .. MaxRestarts
    /\ unsaved \subseteq 1 .. requests /\ unlisted \subseteq 1 .. requests /\ overlapped \subseteq Tasks
    /\ \A a \in Threads :
          LET r == run[a] IN
          /\ r.pc # "idle" => r.id \in 1 .. requests /\ r.kind \in Logged /\ r.task \in Tasks
          /\ r.pc = "fill" => r.status # None

\* Memory and MySQL hold the status of the last execution of a task, unless two
\* requests about the task wrote it at the same time or MySQL did not take it;
\* restarts and requests about other tasks change nothing about that.
StatusIsNewest ==
    \A t \in Tasks \ overlapped :
        Writing(t) = {} /\ newest[t] \notin unsaved =>
            row[t] = newest[t] /\ memory[t] \in {None, newest[t]}

\* Under the same conditions the audit ends with the execution the status is of.
TrailEndsInStatus ==
    \A t \in Tasks \ overlapped :
        Writing(t) = {} /\ newest[t] \notin unsaved \cup unlisted /\ row[t] # None =>
            \E i \in DOMAIN rows :
                /\ rows[i] = [id |-> row[t], task |-> t, kind |-> "execute"]
                /\ \A j \in i + 1 .. Len(rows) : rows[j].task = t => rows[j].kind # "execute"

\* An audit query shows every entry of the requests about its task that are over,
\* up to its limit, but for those MySQL refused: the file makes up for MySQL as a
\* whole, not for an entry.
AuditHidesOnlyLost ==
    \A t \in Tasks : \A ids \in Shown(t) :
        Cardinality(ids) < Limit =>
            \A i \in DOMAIN file :
                file[i].task = t /\ (\A a \in Threads : run[a].id # file[i].id) =>
                    file[i].id \in ids \cup unlisted
=============================================================================
