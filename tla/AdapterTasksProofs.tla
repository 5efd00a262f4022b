-------------------------- MODULE AdapterTasksProofs --------------------------
(* Proofs about AdapterTasks: its types, that memory and MySQL hold the      *)
(* status of the last execution, and that the audit ends with it.            *)
EXTENDS AdapterTasks, FiniteSetTheorems, TLAPS

\* A request that is over holds nothing.
RunInv == \A a \in Threads : run[a].pc = "idle" => run[a].kind = None

TypeInv == TypeOK /\ RunInv

LEMMA IdleTyped == Idle \in Runs /\ Idle.pc = "idle" /\ Idle.kind = None
                   /\ Idle.task = None /\ Idle.id = None
BY DEF Idle, Runs, Pcs

\* One thread moves, to a request that is in order.
Moved(a, r) == run' = [run EXCEPT ![a] = r]

LEMMA MovedTyped ==
    ASSUME TypeInv, NEW a \in Threads, NEW r \in Runs, Moved(a, r),
           requests' \in 0 .. MaxRequests, requests <= requests',
           r.pc # "idle" => r.id \in 1 .. requests' /\ r.kind \in Logged /\ r.task \in Tasks,
           r.pc = "fill" => r.status # None,
           r.pc = "idle" => r.kind = None
    PROVE  /\ run' \in [Threads -> Runs] /\ RunInv'
           /\ run'[a] = r /\ \A b \in Threads \ {a} : run'[b] = run[b]
           /\ \A b \in Threads :
                 /\ run'[b].pc # "idle" =>
                       /\ run'[b].id \in 1 .. requests'
                       /\ run'[b].kind \in Logged /\ run'[b].task \in Tasks
                 /\ run'[b].pc = "fill" => run'[b].status # None
<1>1. run \in [Threads -> Runs] /\ requests \in 0 .. MaxRequests /\ MaxRequests \in Nat
  BY BoundsAreNatural DEF TypeInv, TypeOK
<1>2. run'[a] = r /\ run' \in [Threads -> Runs] /\ \A b \in Threads \ {a} : run'[b] = run[b]
  BY <1>1 DEF Moved
<1>3. \A b \in Threads :
         /\ run[b].pc # "idle" =>
               run[b].id \in 1 .. requests /\ run[b].kind \in Logged /\ run[b].task \in Tasks
         /\ run[b].pc = "fill" => run[b].status # None
         /\ run[b].pc = "idle" => run[b].kind = None
  BY DEF TypeInv, TypeOK, RunInv
<1>4. 1 .. requests \subseteq 1 .. requests'
  BY <1>1
<1>5. \A b \in Threads : b = a \/ run'[b] = run[b]
  BY <1>2
<1>6. QED
  BY <1>2, <1>3, <1>4, <1>5 DEF RunInv

-----------------------------------------------------------------------------
(* What each step makes of the request it is of. *)

LEMMA ArriveStep ==
    ASSUME TypeInv, NEW a \in Threads, Arrive(a)
    PROVE  \E r \in Runs :
              /\ Moved(a, r) /\ run[a].pc = "idle" /\ r.pc \in {"adapter", "get", "file"}
              /\ r.id = requests' /\ r.kind \in Logged /\ r.task \in Tasks
              /\ r.pc = "adapter" => r.kind = "execute"
              /\ r.pc = "file" => r.kind # "execute"
              /\ r.pc = "get" => r.kind = "status"
              /\ requests' \in 1 .. MaxRequests /\ requests <= requests'
              /\ UNCHANGED <<memory, row, file, rows, restarts, newest, unsaved, unlisted, overlapped>>
<1>1. requests' \in 1 .. MaxRequests /\ requests <= requests' /\ run[a].pc = "idle"
      /\ UNCHANGED <<memory, row, file, rows, restarts, newest, unsaved, unlisted, overlapped>>
  BY BoundsAreNatural DEF Arrive, TypeInv, TypeOK, store, audit, history
<1>2. PICK t \in Tasks,
           start \in {<<"execute", "adapter">>, <<"status", "get">>, <<"note", "file">>} :
             run' = [run EXCEPT ![a] = [Idle EXCEPT !.task = t, !.id = requests',
                                          !.kind = start[1], !.pc = start[2]]]
  BY DEF Arrive
<1> DEFINE r == [Idle EXCEPT !.task = t, !.id = requests', !.kind = start[1], !.pc = start[2]]
<1>3. /\ start[1] \in Logged /\ start[2] \in {"adapter", "get", "file"}
      /\ start[2] = "adapter" => start[1] = "execute"
      /\ start[2] = "file" => start[1] # "execute"
      /\ start[2] = "get" => start[1] = "status"
  BY DEF Logged
<1>4. Moved(a, r)
  BY <1>2 DEF Moved
<1>5. /\ r \in Runs /\ r.pc = start[2] /\ r.kind = start[1] /\ r.task = t /\ r.id = requests'
  <2>1. start[2] \in Pcs /\ requests' \in Requests
    BY <1>1, <1>3 DEF Pcs, Requests
  <2>2. QED
    BY <1>3, <2>1, IdleTyped DEF Runs
<1> HIDE DEF r
<1>6. QED
  BY <1>1, <1>3, <1>4, <1>5

-----------------------------------------------------------------------------
(* Types. *)

LEMMA EntryTyped ==
    ASSUME TypeInv, NEW a \in Threads, run[a].pc # "idle"
    PROVE  Entry(run[a]) \in Entries /\ run[a].id \in 1 .. requests /\ run[a].id \in Requests
BY BoundsAreNatural DEF TypeInv, TypeOK, Entry, Entries, Requests

\* A step of one request, given what it does to it and that the rest has its type.
LEMMA StepTyped ==
    ASSUME TypeInv, NEW a \in Threads, NEW r \in Runs, Moved(a, r),
           requests' \in 0 .. MaxRequests, requests <= requests',
           r.pc # "idle" => r.id \in 1 .. requests' /\ r.kind \in Logged /\ r.task \in Tasks,
           r.pc = "fill" => r.status # None,
           r.pc = "idle" => r.kind = None,
           memory' \in [Tasks -> Requests \cup {None}], row' \in [Tasks -> Requests \cup {None}],
           newest' \in [Tasks -> Requests \cup {None}],
           file' \in Seq(Entries), rows' \in Seq(Entries),
           UNCHANGED restarts,
           unsaved' \subseteq 1 .. requests', unlisted' \subseteq 1 .. requests',
           overlapped' \subseteq Tasks
    PROVE  TypeInv'
BY MovedTyped DEF TypeInv, TypeOK

\* Where a request goes on, with the status it holds or has read.
GoesOn(a, pc, s) ==
    LET r == [pc |-> pc, kind |-> run[a].kind, task |-> run[a].task, id |-> run[a].id, status |-> s]
    IN  Moved(a, r)

LEMMA GoesOnTyped ==
    ASSUME TypeInv, NEW a \in Threads, run[a].pc # "idle", NEW pc \in Pcs \ {"idle"},
           NEW s \in Requests \cup {None}, pc = "fill" => s # None, GoesOn(a, pc, s),
           UNCHANGED <<requests, restarts>>,
           memory' \in [Tasks -> Requests \cup {None}], row' \in [Tasks -> Requests \cup {None}],
           newest' \in [Tasks -> Requests \cup {None}],
           file' \in Seq(Entries), rows' \in Seq(Entries),
           unsaved' \subseteq 1 .. requests, unlisted' \subseteq 1 .. requests,
           overlapped' \subseteq Tasks
    PROVE  /\ TypeInv'
           /\ run'[a].pc = pc /\ run'[a].kind = run[a].kind /\ run'[a].task = run[a].task
           /\ run'[a].id = run[a].id /\ run'[a].status = s
           /\ \A b \in Threads \ {a} : run'[b] = run[b]
<1> DEFINE r == [pc |-> pc, kind |-> run[a].kind, task |-> run[a].task, id |-> run[a].id, status |-> s]
<1>1. run[a] \in Runs /\ run[a].id \in 1 .. requests /\ run[a].kind \in Logged
      /\ run[a].task \in Tasks /\ requests \in 0 .. MaxRequests /\ requests \in Nat
      /\ run \in [Threads -> Runs]
  BY BoundsAreNatural DEF TypeInv, TypeOK
<1>2. r \in Runs /\ Moved(a, r)
  BY <1>1 DEF Runs, GoesOn
<1>3. run'[a] = r /\ \A b \in Threads \ {a} : run'[b] = run[b]
  BY <1>1, <1>2 DEF Moved
<1>4. /\ r.pc = pc /\ r.kind = run[a].kind /\ r.task = run[a].task /\ r.id = run[a].id
      /\ r.status = s
  OBVIOUS
<1> HIDE DEF r
<1>5. TypeInv'
  BY <1>1, <1>2, <1>4, StepTyped
<1>6. QED
  BY <1>3, <1>4, <1>5

\* The code changes one or two fields of the request.
LEMMA GoIs ==
    ASSUME TypeInv, NEW a \in Threads, NEW pc, Go(a, pc)
    PROVE  GoesOn(a, pc, run[a].status)
<1>1. run[a] \in Runs
  BY DEF TypeInv, TypeOK
<1>2. [run[a] EXCEPT !.pc = pc] = [pc |-> pc, kind |-> run[a].kind, task |-> run[a].task,
                                   id |-> run[a].id, status |-> run[a].status]
  BY <1>1 DEF Runs
<1>3. run' = [run EXCEPT ![a] = [run[a] EXCEPT !.pc = pc]]
  BY DEF Go
<1>4. QED
  BY <1>2, <1>3 DEF GoesOn, Moved

LEMMA GoWithIs ==
    ASSUME TypeInv, NEW a \in Threads, NEW pc, NEW s,
           run' = [run EXCEPT ![a].pc = pc, ![a].status = s]
    PROVE  GoesOn(a, pc, s)
<1>1. run[a] \in Runs /\ run \in [Threads -> Runs]
  BY DEF TypeInv, TypeOK
<1>2. [[run[a] EXCEPT !.pc = pc] EXCEPT !.status = s] =
         [pc |-> pc, kind |-> run[a].kind, task |-> run[a].task, id |-> run[a].id, status |-> s]
  <2> DEFINE moved == [run[a] EXCEPT !.pc = pc]
  <2>1. moved = [pc |-> pc, kind |-> run[a].kind, task |-> run[a].task, id |-> run[a].id,
                 status |-> run[a].status]
    BY <1>1 DEF Runs
  <2> HIDE DEF moved
  <2>2. [moved EXCEPT !.status = s] =
           [pc |-> pc, kind |-> run[a].kind, task |-> run[a].task, id |-> run[a].id, status |-> s]
    BY <2>1
  <2>3. QED
    BY <2>2 DEF moved
<1>3. run' = [run EXCEPT ![a] = [[run[a] EXCEPT !.pc = pc] EXCEPT !.status = s]]
  BY <1>1
<1>4. QED
  BY <1>2, <1>3 DEF GoesOn, Moved

LEMMA EndTyped ==
    ASSUME TypeInv, NEW a \in Threads, End(a), UNCHANGED <<requests, restarts>>,
           memory' \in [Tasks -> Requests \cup {None}], row' \in [Tasks -> Requests \cup {None}],
           newest' \in [Tasks -> Requests \cup {None}],
           file' \in Seq(Entries), rows' \in Seq(Entries),
           unsaved' \subseteq 1 .. requests, unlisted' \subseteq 1 .. requests,
           overlapped' \subseteq Tasks
    PROVE  /\ TypeInv' /\ run'[a] = Idle
           /\ \A b \in Threads \ {a} : run'[b] = run[b]
<1>1. requests \in 0 .. MaxRequests /\ requests \in Nat /\ run \in [Threads -> Runs]
  BY BoundsAreNatural DEF TypeInv, TypeOK
<1>2. Moved(a, Idle) /\ Idle \in Runs /\ Idle.pc = "idle" /\ Idle.kind = None
  BY IdleTyped DEF End, Moved
<1>3. TypeInv'
  BY <1>1, <1>2, StepTyped
<1>4. QED
  BY <1>1, <1>2, <1>3 DEF Moved

\* What the types say of the variables and of a request in progress.
LEMMA Typed ==
    ASSUME TypeInv
    PROVE  /\ memory \in [Tasks -> Requests \cup {None}] /\ row \in [Tasks -> Requests \cup {None}]
           /\ newest \in [Tasks -> Requests \cup {None}]
           /\ file \in Seq(Entries) /\ rows \in Seq(Entries)
           /\ unsaved \subseteq 1 .. requests /\ unlisted \subseteq 1 .. requests
           /\ overlapped \subseteq Tasks
           /\ \A a \in Threads : run[a].pc # "idle" =>
                 /\ run[a].id \in 1 .. requests /\ run[a].id \in Requests
                 /\ run[a].task \in Tasks /\ run[a].status \in Requests \cup {None}
                 /\ Entry(run[a]) \in Entries
BY EntryTyped DEF TypeInv, TypeOK, Runs

LEMMA ExecuteTyped ==
    ASSUME TypeInv, NEW a \in Threads, Execute(a)
    PROVE  /\ TypeInv' /\ run[a].pc = "adapter"
           /\ \A b \in Threads \ {a} : run'[b] = run[b]
           /\ UNCHANGED <<row, audit, unsaved, unlisted>>
           /\ \/ /\ memory' = [memory EXCEPT ![run[a].task] = run[a].id]
                 /\ newest' = [newest EXCEPT ![run[a].task] = run[a].id]
                 /\ overlapped' = IF Writing(run[a].task) # {} THEN overlapped \cup {run[a].task}
                                  ELSE overlapped
                 /\ run'[a].pc = "save" /\ run'[a].kind = run[a].kind
                 /\ run'[a].task = run[a].task /\ run'[a].id = run[a].id
              \/ run'[a] = Idle /\ UNCHANGED <<memory, newest, overlapped>>
<1>1. run[a].pc = "adapter" /\ UNCHANGED <<row, audit, requests, restarts, unsaved, unlisted>>
  BY DEF Execute
<1>2. /\ run[a].id \in Requests /\ run[a].task \in Tasks /\ run[a].status \in Requests \cup {None}
      /\ overlapped \subseteq Tasks
      /\ memory \in [Tasks -> Requests \cup {None}] /\ newest \in [Tasks -> Requests \cup {None}]
  BY <1>1, Typed
<1>3. file' \in Seq(Entries) /\ rows' \in Seq(Entries) /\ row' \in [Tasks -> Requests \cup {None}]
      /\ unsaved' \subseteq 1 .. requests /\ unlisted' \subseteq 1 .. requests
  BY <1>1, Typed DEF audit
<1>4. CASE /\ memory' = [memory EXCEPT ![run[a].task] = run[a].id]
           /\ newest' = [newest EXCEPT ![run[a].task] = run[a].id]
           /\ overlapped' = IF Writing(run[a].task) # {} THEN overlapped \cup {run[a].task}
                            ELSE overlapped
           /\ Go(a, "save")
  <2>1. GoesOn(a, "save", run[a].status)
    BY <1>4, GoIs
  <2>2. "save" \in Pcs \ {"idle"}
    BY DEF Pcs
  <2>3. memory' \in [Tasks -> Requests \cup {None}] /\ newest' \in [Tasks -> Requests \cup {None}]
        /\ overlapped' \subseteq Tasks
    BY <1>2, <1>4
  <2>4. QED
    BY <1>1, <1>2, <1>3, <1>4, <2>1, <2>2, <2>3, GoesOnTyped
<1>5. CASE End(a) /\ UNCHANGED <<memory, newest, overlapped>>
  BY <1>1, <1>2, <1>3, <1>5, EndTyped
<1>6. QED
  BY <1>1, <1>4, <1>5 DEF Execute

LEMMA PutRowTyped ==
    ASSUME TypeInv, NEW a \in Threads, PutRow(a)
    PROVE  /\ TypeInv' /\ run[a].pc = "save"
           /\ run'[a].pc = "file" /\ run'[a].kind = run[a].kind
           /\ run'[a].task = run[a].task /\ run'[a].id = run[a].id
           /\ \A b \in Threads \ {a} : run'[b] = run[b]
           /\ UNCHANGED <<memory, audit, newest, unlisted, overlapped>>
           /\ \/ row' = [row EXCEPT ![run[a].task] = run[a].id] /\ unsaved' = unsaved
              \/ unsaved' = unsaved \cup {run[a].id} /\ row' = row
<1>1. /\ run[a].pc = "save"
      /\ UNCHANGED <<memory, audit, requests, restarts, newest, unlisted, overlapped>>
      /\ \/ row' = [row EXCEPT ![run[a].task] = run[a].id] /\ unsaved' = unsaved
         \/ unsaved' = unsaved \cup {run[a].id} /\ row' = row
  BY DEF PutRow
<1>2. GoesOn(a, "file", run[a].status) /\ "file" \in Pcs \ {"idle"}
  BY GoIs DEF PutRow, Pcs
<1>3. /\ memory' \in [Tasks -> Requests \cup {None}] /\ row' \in [Tasks -> Requests \cup {None}]
      /\ newest' \in [Tasks -> Requests \cup {None}]
      /\ file' \in Seq(Entries) /\ rows' \in Seq(Entries)
      /\ unsaved' \subseteq 1 .. requests /\ unlisted' \subseteq 1 .. requests
      /\ overlapped' \subseteq Tasks /\ run[a].status \in Requests \cup {None}
  BY <1>1, Typed DEF audit
<1>4. QED
  BY <1>1, <1>2, <1>3, GoesOnTyped

\* The two reads of a status.
LEMMA ReadTyped ==
    ASSUME TypeInv, NEW a \in Threads, GetMemory(a) \/ GetRow(a)
    PROVE  /\ TypeInv' /\ run[a].pc \in {"get", "load"}
           /\ run'[a].kind = run[a].kind /\ run'[a].task = run[a].task /\ run'[a].id = run[a].id
           /\ \A b \in Threads \ {a} : run'[b] = run[b]
           /\ UNCHANGED <<store, audit, history>>
           /\ \/ run'[a].pc = "file"
              \/ /\ run[a].pc = "get" /\ memory[run[a].task] = None /\ run'[a].pc = "load"
              \/ /\ run[a].pc = "load" /\ run'[a].pc = "fill"
                 /\ row[run[a].task] # None /\ run'[a].status = row[run[a].task]
<1>1. run[a].pc \in {"get", "load"} /\ UNCHANGED <<store, audit, requests, restarts, history>>
  BY DEF GetMemory, GetRow
<1>2. PICK pc \in {"load", "file", "fill"}, s \in {None, memory[run[a].task], row[run[a].task]} :
        /\ run' = [run EXCEPT ![a].pc = pc, ![a].status = s]
        /\ \/ pc = "file"
           \/ run[a].pc = "get" /\ memory[run[a].task] = None /\ pc = "load"
           \/ run[a].pc = "load" /\ pc = "fill" /\ s = row[run[a].task] /\ s # None
  BY DEF GetMemory, GetRow
<1>3. GoesOn(a, pc, s)
  BY <1>2, GoWithIs
<1>4. pc \in Pcs \ {"idle"} /\ s \in Requests \cup {None} /\ (pc = "fill" => s # None)
  BY <1>1, <1>2, Typed DEF Pcs
<1>5. /\ memory' \in [Tasks -> Requests \cup {None}] /\ row' \in [Tasks -> Requests \cup {None}]
      /\ newest' \in [Tasks -> Requests \cup {None}]
      /\ file' \in Seq(Entries) /\ rows' \in Seq(Entries)
      /\ unsaved' \subseteq 1 .. requests /\ unlisted' \subseteq 1 .. requests
      /\ overlapped' \subseteq Tasks
  BY <1>1, Typed DEF store, audit, history
<1>6. /\ TypeInv' /\ run'[a].pc = pc /\ run'[a].status = s
      /\ run'[a].kind = run[a].kind /\ run'[a].task = run[a].task /\ run'[a].id = run[a].id
      /\ \A b \in Threads \ {a} : run'[b] = run[b]
  BY <1>1, <1>3, <1>4, <1>5, GoesOnTyped
<1>7. QED
  BY <1>1, <1>2, <1>6

LEMMA FillTyped ==
    ASSUME TypeInv, NEW a \in Threads, FillMemory(a)
    PROVE  /\ TypeInv' /\ run[a].pc = "fill"
           /\ run'[a].pc = "file" /\ run'[a].kind = run[a].kind
           /\ run'[a].task = run[a].task /\ run'[a].id = run[a].id
           /\ \A b \in Threads \ {a} : run'[b] = run[b]
           /\ UNCHANGED <<row, audit, history>>
           /\ memory' = [memory EXCEPT ![run[a].task] = run[a].status]
<1>1. /\ run[a].pc = "fill" /\ UNCHANGED <<row, audit, requests, restarts, history>>
      /\ memory' = [memory EXCEPT ![run[a].task] = run[a].status]
  BY DEF FillMemory
<1>2. GoesOn(a, "file", run[a].status) /\ "file" \in Pcs \ {"idle"}
  BY GoIs DEF FillMemory, Pcs
<1>3. /\ memory' \in [Tasks -> Requests \cup {None}] /\ row' \in [Tasks -> Requests \cup {None}]
      /\ newest' \in [Tasks -> Requests \cup {None}]
      /\ file' \in Seq(Entries) /\ rows' \in Seq(Entries)
      /\ unsaved' \subseteq 1 .. requests /\ unlisted' \subseteq 1 .. requests
      /\ overlapped' \subseteq Tasks /\ run[a].status \in Requests \cup {None}
  BY <1>1, Typed DEF audit, history
<1>4. QED
  BY <1>1, <1>2, <1>3, GoesOnTyped

\* The two writes of an audit entry.
LEMMA ListTyped ==
    ASSUME TypeInv, NEW a \in Threads, AppendFile(a) \/ InsertRow(a)
    PROVE  /\ TypeInv' /\ run[a].pc \in {"file", "list"}
           /\ \A b \in Threads \ {a} : run'[b] = run[b]
           /\ UNCHANGED <<store, newest, unsaved, overlapped>>
           /\ \/ /\ run[a].pc = "file" /\ run'[a].pc = "list" /\ run'[a].kind = run[a].kind
                 /\ run'[a].task = run[a].task /\ run'[a].id = run[a].id
                 /\ UNCHANGED <<rows, unlisted>> /\ file' = Append(file, Entry(run[a]))
              \/ /\ run'[a] = Idle /\ UNCHANGED <<file, rows>>
                 /\ unlisted' = unlisted \cup {run[a].id}
              \/ /\ run[a].pc = "list" /\ run'[a] = Idle /\ UNCHANGED <<file, unlisted>>
                 /\ rows' = Append(rows, Entry(run[a]))
<1>1. /\ run[a].pc \in {"file", "list"}
      /\ UNCHANGED <<store, requests, restarts, newest, unsaved, overlapped>>
      /\ \/ /\ run[a].pc = "file" /\ Go(a, "list") /\ UNCHANGED <<rows, unlisted>>
            /\ file' = Append(file, Entry(run[a]))
         \/ End(a) /\ UNCHANGED <<file, rows>> /\ unlisted' = unlisted \cup {run[a].id}
         \/ /\ run[a].pc = "list" /\ End(a) /\ UNCHANGED <<file, unlisted>>
            /\ rows' = Append(rows, Entry(run[a]))
  BY DEF AppendFile, InsertRow
<1>2. /\ memory' \in [Tasks -> Requests \cup {None}] /\ row' \in [Tasks -> Requests \cup {None}]
      /\ newest' \in [Tasks -> Requests \cup {None}]
      /\ unsaved' \subseteq 1 .. requests /\ unlisted' \subseteq 1 .. requests
      /\ overlapped' \subseteq Tasks /\ run[a].status \in Requests \cup {None}
  BY <1>1, Typed DEF store
<1>3. file' \in Seq(Entries) /\ rows' \in Seq(Entries)
  <2>1. Entry(run[a]) \in Entries /\ file \in Seq(Entries) /\ rows \in Seq(Entries)
    BY <1>1, Typed
  <2>2. Append(file, Entry(run[a])) \in Seq(Entries) /\ Append(rows, Entry(run[a])) \in Seq(Entries)
    BY <2>1
  <2>3. QED
    BY <1>1, <2>1, <2>2
<1>4. CASE /\ run[a].pc = "file" /\ Go(a, "list") /\ UNCHANGED <<rows, unlisted>>
           /\ file' = Append(file, Entry(run[a]))
  <2>1. GoesOn(a, "list", run[a].status) /\ "list" \in Pcs \ {"idle"}
    BY <1>4, GoIs DEF Pcs
  <2>2. QED
    BY <1>1, <1>2, <1>3, <1>4, <2>1, GoesOnTyped
<1>5. CASE End(a)
  <2>1. /\ TypeInv' /\ run'[a] = Idle /\ \A b \in Threads \ {a} : run'[b] = run[b]
    BY <1>1, <1>2, <1>3, <1>5, EndTyped
  <2>2. \/ UNCHANGED <<file, rows>> /\ unlisted' = unlisted \cup {run[a].id}
        \/ /\ run[a].pc = "list" /\ UNCHANGED <<file, unlisted>>
           /\ rows' = Append(rows, Entry(run[a]))
        \/ /\ run[a].pc = "file" /\ Go(a, "list") /\ UNCHANGED <<rows, unlisted>>
           /\ file' = Append(file, Entry(run[a]))
    BY <1>1
  <2>3. QED
    BY <1>1, <1>4, <2>1, <2>2
<1>6. QED
  BY <1>1, <1>4, <1>5

LEMMA RestartTyped ==
    ASSUME TypeInv, Restart
    PROVE  /\ TypeInv' /\ \A a \in Threads : run'[a] = Idle
           /\ memory' = [t \in Tasks |-> None]
           /\ UNCHANGED <<row, audit, newest, overlapped>>
           /\ unlisted \subseteq unlisted' /\ unsaved \subseteq unsaved'
           /\ \A a \in Threads : run[a].kind \in Logged => run[a].id \in unlisted'
           /\ \A a \in Threads : run[a].pc = "save" => run[a].id \in unsaved'
<1>1. /\ restarts' = restarts + 1 /\ restarts < MaxRestarts
      /\ memory' = [t \in Tasks |-> None] /\ run' = [a \in Threads |-> Idle]
      /\ unlisted' = unlisted \cup {run[a].id : a \in {b \in Threads : run[b].kind \in Logged}}
      /\ unsaved' = unsaved \cup {run[a].id : a \in {b \in Threads : run[b].pc = "save"}}
      /\ UNCHANGED <<row, audit, requests, newest, overlapped>>
  BY DEF Restart
<1>2. \A a \in Threads : run[a].kind \in Logged \/ run[a].pc = "save" => run[a].id \in 1 .. requests
  <2>1. None \notin Logged
    BY NoneIsNothing DEF Logged
  <2>2. QED
    BY <2>1, Typed DEF TypeInv, RunInv
<1>3. TypeInv'
  <2>1. /\ row \in [Tasks -> Requests \cup {None}] /\ newest \in [Tasks -> Requests \cup {None}]
        /\ file \in Seq(Entries) /\ rows \in Seq(Entries)
        /\ unsaved \subseteq 1 .. requests /\ unlisted \subseteq 1 .. requests
        /\ overlapped \subseteq Tasks
    BY Typed
  <2>2. unlisted' \subseteq 1 .. requests /\ unsaved' \subseteq 1 .. requests
    BY <1>1, <1>2, <2>1
  <2>3. requests \in 0 .. MaxRequests /\ restarts' \in 0 .. MaxRestarts
    BY <1>1, BoundsAreNatural DEF TypeInv, TypeOK
  <2>4. run' \in [Threads -> Runs] /\ \A a \in Threads : run'[a] = Idle
    BY <1>1, IdleTyped
  <2>5. \A a \in Threads : run'[a].pc = "idle" /\ run'[a].kind = None
    BY <2>4, IdleTyped
  <2>6. memory' \in [Tasks -> Requests \cup {None}]
    BY <1>1
  <2>7. QED
    BY <1>1, <2>1, <2>2, <2>3, <2>4, <2>5, <2>6 DEF TypeInv, TypeOK, RunInv, audit
<1>4. QED
  BY <1>1, <1>3

LEMMA ArriveTyped ==
    ASSUME TypeInv, NEW a \in Threads, Arrive(a)
    PROVE  /\ TypeInv' /\ run[a].pc = "idle" /\ run'[a].pc \in {"adapter", "get", "file"}
           /\ run'[a].pc = "file" => run'[a].kind # "execute"
           /\ run'[a].pc = "adapter" => run'[a].kind = "execute"
           /\ run'[a].pc = "get" => run'[a].kind = "status"
           /\ run'[a].id = requests'
           /\ \A b \in Threads \ {a} : run'[b] = run[b]
           /\ UNCHANGED <<memory, row, file, rows, newest, unsaved, unlisted, overlapped>>
<1>1. PICK r \in Runs :
         /\ Moved(a, r) /\ run[a].pc = "idle" /\ r.pc \in {"adapter", "get", "file"}
         /\ r.id = requests' /\ r.kind \in Logged /\ r.task \in Tasks
         /\ r.pc = "adapter" => r.kind = "execute"
         /\ r.pc = "file" => r.kind # "execute"
         /\ r.pc = "get" => r.kind = "status"
         /\ requests' \in 1 .. MaxRequests /\ requests <= requests'
         /\ UNCHANGED <<memory, row, file, rows, restarts, newest, unsaved, unlisted, overlapped>>
  BY ArriveStep
<1>2. requests \in Nat /\ requests' \in Nat /\ run \in [Threads -> Runs]
  BY <1>1, BoundsAreNatural DEF TypeInv, TypeOK
<1>3. 1 .. requests \subseteq 1 .. requests' /\ requests' \in 1 .. requests'
      /\ requests' \in 0 .. MaxRequests
  BY <1>1, <1>2, BoundsAreNatural
<1>4. /\ memory' \in [Tasks -> Requests \cup {None}] /\ row' \in [Tasks -> Requests \cup {None}]
      /\ newest' \in [Tasks -> Requests \cup {None}]
      /\ file' \in Seq(Entries) /\ rows' \in Seq(Entries)
      /\ unsaved' \subseteq 1 .. requests' /\ unlisted' \subseteq 1 .. requests'
      /\ overlapped' \subseteq Tasks
  BY <1>1, <1>3, Typed
<1>5. TypeInv'
  BY <1>1, <1>3, <1>4, StepTyped
<1>6. run'[a] = r /\ \A b \in Threads \ {a} : run'[b] = run[b]
  BY <1>1, <1>2 DEF Moved
<1>7. QED
  BY <1>1, <1>5, <1>6

LEMMA TypeInit == Init => TypeInv
<1> SUFFICES ASSUME Init PROVE TypeInv
  OBVIOUS
<1>1. run \in [Threads -> Runs] /\ \A a \in Threads : run[a].pc = "idle" /\ run[a].kind = None
  BY IdleTyped DEF Init
<1>2. /\ memory \in [Tasks -> Requests \cup {None}] /\ row \in [Tasks -> Requests \cup {None}]
      /\ newest \in [Tasks -> Requests \cup {None}]
      /\ file \in Seq(Entries) /\ rows \in Seq(Entries)
  BY DEF Init
<1>3. requests \in 0 .. MaxRequests /\ restarts \in 0 .. MaxRestarts
      /\ unsaved \subseteq 1 .. requests /\ unlisted \subseteq 1 .. requests
      /\ overlapped \subseteq Tasks
  BY BoundsAreNatural DEF Init
<1>4. QED
  BY <1>1, <1>2, <1>3 DEF TypeInv, TypeOK, RunInv

LEMMA TypeNext == TypeInv /\ [Next]_vars => TypeInv'
<1> SUFFICES ASSUME TypeInv, [Next]_vars PROVE TypeInv'
  OBVIOUS
<1>1. ASSUME NEW a \in Threads, Step(a) PROVE TypeInv'
  BY <1>1, ArriveTyped, ExecuteTyped, PutRowTyped, ReadTyped, FillTyped, ListTyped DEF Step
<1>2. CASE Restart
  BY <1>2, RestartTyped
<1>3. CASE UNCHANGED vars
  BY <1>3 DEF TypeInv, TypeOK, RunInv, vars
<1>4. QED
  BY <1>1, <1>2, <1>3 DEF Next

\* The variables have their types, and a request in progress knows its number, its
\* kind and its task, whatever the numbers of threads, tasks and restarts.
THEOREM TypeCorrect == Spec => []TypeOK
<1>1. TypeInv => TypeOK
  BY DEF TypeInv
<1>2. QED
  BY TypeInit, TypeNext, <1>1, PTL DEF Spec

-----------------------------------------------------------------------------
(* The status in memory and in MySQL. *)

\* A request is about to write the status of a task, or to read it from MySQL.
Busy(a, t) == run[a].task = t /\ run[a].pc \in {"save", "load", "fill"}

Saves(a, t) == run[a].task = t /\ run[a].pc = "save"

\* What is between the two writes of a status, and between its read from MySQL and
\* its write to memory: nobody else is at the status of the task while it is saved,
\* and what a read has found is still the newest.
MemoryOK(t) == newest[t] \in unsaved \/ memory[t] \in {None, newest[t]}
RowOK(t) == newest[t] \in unsaved \/ row[t] = newest[t] \/ \E a \in Threads : Saves(a, t)
SaveOK(t) ==
    \A a \in Threads : Saves(a, t) =>
        /\ run[a].id = newest[t] /\ memory[t] = newest[t]
        /\ \A b \in Threads \ {a} : ~Busy(b, t)
FillOK(t) ==
    \A a \in Threads : run[a].task = t /\ run[a].pc = "fill" =>
        newest[t] \in unsaved \/ run[a].status = newest[t]

StatusOK(t) == MemoryOK(t) /\ RowOK(t) /\ SaveOK(t) /\ FillOK(t)

StatusInv == \A t \in Tasks \ overlapped : StatusOK(t)

LEMMA StatusInit == Init => StatusInv
<1> SUFFICES ASSUME Init, NEW t \in Tasks PROVE StatusOK(t)
  BY DEF StatusInv
<1>1. memory[t] = None /\ row[t] = None /\ newest[t] = None
  BY DEF Init
<1>2. \A a \in Threads : run[a].pc = "idle"
  BY IdleTyped DEF Init
<1>3. QED
  BY <1>1, <1>2 DEF StatusOK, MemoryOK, RowOK, SaveOK, FillOK, Saves, Busy

\* A request that neither is nor gets at the status of a task leaves it in order.
LEMMA StatusStays ==
    ASSUME NEW t \in Tasks, StatusOK(t), NEW a \in Threads,
           \A b \in Threads \ {a} : run'[b] = run[b], ~Busy(a, t), ~Busy(a, t)',
           memory'[t] = memory[t], row'[t] = row[t], newest'[t] = newest[t],
           unsaved \subseteq unsaved'
    PROVE  StatusOK(t)'
<1>1. \A b \in Threads : b # a => run'[b] = run[b]
  OBVIOUS
<1>2. \A b \in Threads : (Busy(b, t)' => Busy(b, t)) /\ (Saves(b, t)' => Saves(b, t))
                         /\ (Saves(b, t) => Saves(b, t)' /\ run'[b] = run[b])
  BY <1>1 DEF Busy, Saves
<1>3. MemoryOK(t)'
  BY DEF StatusOK, MemoryOK
<1>4. RowOK(t)'
  BY <1>2 DEF StatusOK, RowOK
<1>5. SaveOK(t)'
  BY <1>2 DEF StatusOK, SaveOK
<1>6. FillOK(t)'
  BY <1>1 DEF StatusOK, FillOK, Busy
<1>7. QED
  BY <1>3, <1>4, <1>5, <1>6 DEF StatusOK

LEMMA StatusArrive ==
    ASSUME TypeInv, StatusInv, NEW a \in Threads, Arrive(a)
    PROVE  StatusInv'
<1> SUFFICES ASSUME NEW t \in Tasks \ overlapped PROVE StatusOK(t)'
  BY ArriveTyped DEF StatusInv
<1>1. ~Busy(a, t) /\ ~Busy(a, t)'
  BY ArriveTyped DEF Busy
<1>2. QED
  BY <1>1, ArriveTyped, StatusStays DEF StatusInv

LEMMA StatusExecute ==
    ASSUME TypeInv, StatusInv, NEW a \in Threads, Execute(a)
    PROVE  StatusInv'
<1> SUFFICES ASSUME NEW t \in Tasks \ overlapped' PROVE StatusOK(t)'
  BY DEF StatusInv
<1>1. /\ run[a].pc = "adapter" /\ \A b \in Threads \ {a} : run'[b] = run[b]
      /\ row' = row /\ unsaved' = unsaved
  BY ExecuteTyped
<1>2. ~Busy(a, t)
  BY <1>1 DEF Busy
<1>3. run[a].task \in Tasks /\ run[a].id \in Requests
      /\ memory \in [Tasks -> Requests \cup {None}] /\ newest \in [Tasks -> Requests \cup {None}]
  BY <1>1, Typed
<1>4. CASE /\ memory' = [memory EXCEPT ![run[a].task] = run[a].id]
           /\ newest' = [newest EXCEPT ![run[a].task] = run[a].id]
           /\ overlapped' = IF Writing(run[a].task) # {} THEN overlapped \cup {run[a].task}
                            ELSE overlapped
           /\ run'[a].pc = "save" /\ run'[a].kind = run[a].kind
           /\ run'[a].task = run[a].task /\ run'[a].id = run[a].id
  <2>0. t \notin overlapped
    BY <1>4
  <2>1. CASE t = run[a].task
    <3>1. Writing(t) = {}
      BY <1>4, <2>1
    <3>2. \A b \in Threads : ~Busy(b, t)
      BY <3>1 DEF Writing, Busy
    <3>3. memory'[t] = run[a].id /\ newest'[t] = run[a].id /\ Saves(a, t)' /\ run'[a].id = run[a].id
      BY <1>3, <1>4, <2>1 DEF Saves
    <3>4. \A b \in Threads \ {a} : ~Busy(b, t)'
      BY <1>1, <3>2 DEF Busy
    <3>5. MemoryOK(t)' /\ RowOK(t)'
      BY <3>3 DEF MemoryOK, RowOK
    <3>6. SaveOK(t)'
      BY <3>3, <3>4 DEF SaveOK, Saves, Busy
    <3>7. FillOK(t)'
      BY <1>4, <3>4 DEF FillOK, Busy
    <3>8. QED
      BY <3>5, <3>6, <3>7 DEF StatusOK
  <2>2. CASE t # run[a].task
    <3>1. memory'[t] = memory[t] /\ newest'[t] = newest[t] /\ ~Busy(a, t)'
      BY <1>3, <1>4, <2>2 DEF Busy
    <3>2. QED
      BY <1>1, <1>2, <2>0, <3>1, StatusStays DEF StatusInv
  <2>3. QED
    BY <2>1, <2>2
<1>5. CASE run'[a] = Idle /\ UNCHANGED <<memory, newest, overlapped>>
  <2>1. ~Busy(a, t)'
    BY <1>5, IdleTyped DEF Busy
  <2>2. QED
    BY <1>1, <1>2, <1>5, <2>1, StatusStays DEF StatusInv
<1>6. QED
  BY <1>4, <1>5, ExecuteTyped

LEMMA StatusPutRow ==
    ASSUME TypeInv, StatusInv, NEW a \in Threads, PutRow(a)
    PROVE  StatusInv'
<1> SUFFICES ASSUME NEW t \in Tasks \ overlapped PROVE StatusOK(t)'
  BY PutRowTyped DEF StatusInv
<1>1. /\ run[a].pc = "save" /\ run'[a].pc = "file" /\ run'[a].task = run[a].task
      /\ \A b \in Threads \ {a} : run'[b] = run[b]
      /\ memory' = memory /\ newest' = newest /\ unsaved \subseteq unsaved'
      /\ \/ row' = [row EXCEPT ![run[a].task] = run[a].id]
         \/ unsaved' = unsaved \cup {run[a].id} /\ row' = row
  BY PutRowTyped
<1>2. row \in [Tasks -> Requests \cup {None}] /\ StatusOK(t) /\ ~Busy(a, t)'
  BY <1>1, Typed DEF StatusInv, Busy
<1>3. CASE run[a].task = t
  <2>1. Saves(a, t)
    BY <1>1, <1>3 DEF Saves
  <2>2. run[a].id = newest[t] /\ memory[t] = newest[t] /\ \A b \in Threads \ {a} : ~Busy(b, t)
    BY <1>2, <2>1 DEF StatusOK, SaveOK
  <2>3. \A b \in Threads : ~Busy(b, t)'
    BY <1>1, <1>2, <2>2 DEF Busy
  <2>4. MemoryOK(t)'
    BY <1>1, <2>2 DEF MemoryOK
  <2>5. RowOK(t)'
    BY <1>1, <1>2, <1>3, <2>2 DEF RowOK
  <2>6. SaveOK(t)' /\ FillOK(t)'
    BY <2>3 DEF SaveOK, FillOK, Saves, Busy
  <2>7. QED
    BY <2>4, <2>5, <2>6 DEF StatusOK
<1>4. CASE run[a].task # t
  <2>1. ~Busy(a, t) /\ row'[t] = row[t]
    BY <1>1, <1>2, <1>4 DEF Busy
  <2>2. QED
    BY <1>1, <1>2, <2>1, StatusStays
<1>5. QED
  BY <1>3, <1>4

\* A read goes to MySQL only when memory holds nothing, which is never while the
\* status is saved; what it finds is the newest, or the newest is not to be found.
LEMMA StatusRead ==
    ASSUME TypeInv, StatusInv, NEW a \in Threads, GetMemory(a) \/ GetRow(a)
    PROVE  StatusInv'
<1> SUFFICES ASSUME NEW t \in Tasks \ overlapped PROVE StatusOK(t)'
  BY ReadTyped DEF StatusInv, history
<1>1. /\ run[a].pc \in {"get", "load"} /\ run'[a].task = run[a].task
      /\ \A b \in Threads \ {a} : run'[b] = run[b]
      /\ memory' = memory /\ row' = row /\ newest' = newest /\ unsaved' = unsaved
  BY ReadTyped DEF store, history
<1>2. /\ StatusOK(t) /\ newest[t] \in Requests \cup {None} /\ ~Saves(a, t)
      /\ \A b \in Threads : Saves(b, t) => run[b].id \in Requests
  BY <1>1, Typed DEF StatusInv, Saves
<1>3. CASE run'[a].pc = "file" \/ run[a].task # t
  <2>1. ~Busy(a, t)'
    BY <1>1, <1>3 DEF Busy
  <2>2. \A b \in Threads : (Busy(b, t)' => Busy(b, t)) /\ (Saves(b, t)' <=> Saves(b, t))
                           /\ (Saves(b, t) => run'[b] = run[b])
    BY <1>1, <1>2, <2>1 DEF Busy, Saves
  <2>3. MemoryOK(t)' /\ RowOK(t)' /\ SaveOK(t)'
    BY <1>1, <1>2, <2>2 DEF StatusOK, MemoryOK, RowOK, SaveOK
  <2>4. FillOK(t)'
    BY <1>1, <1>2, <2>1 DEF StatusOK, FillOK, Busy
  <2>5. QED
    BY <2>3, <2>4 DEF StatusOK
<1>4. CASE /\ run[a].task = t /\ run'[a].pc \in {"load", "fill"}
           /\ \/ run[a].pc = "get" /\ memory[t] = None /\ run'[a].pc = "load"
              \/ run[a].pc = "load" /\ run'[a].pc = "fill" /\ run'[a].status = row[t]
  <2>1. \A b \in Threads : ~Saves(b, t)
    <3>1. CASE memory[t] = None
      <4>1. None \notin Requests
        BY NoneIsNothing, BoundsAreNatural DEF Requests
      <4>2. QED
        BY <1>2, <3>1, <4>1 DEF StatusOK, SaveOK
    <3>2. CASE run[a].pc = "load"
      <4>1. Busy(a, t)
        BY <1>4, <3>2 DEF Busy
      <4>2. QED
        BY <1>2, <4>1 DEF StatusOK, SaveOK
    <3>3. QED
      BY <1>4, <3>1, <3>2
  <2>2. \A b \in Threads : ~Saves(b, t)'
    BY <1>1, <1>4, <2>1 DEF Saves
  <2>3. newest[t] \in unsaved \/ row[t] = newest[t]
    BY <1>2, <2>1 DEF StatusOK, RowOK
  <2>4. MemoryOK(t)' /\ RowOK(t)' /\ SaveOK(t)'
    BY <1>1, <1>2, <2>2, <2>3 DEF StatusOK, MemoryOK, RowOK, SaveOK
  <2>5. FillOK(t)'
    BY <1>1, <1>2, <1>4, <2>3 DEF StatusOK, FillOK
  <2>6. QED
    BY <2>4, <2>5 DEF StatusOK
<1>5. QED
  BY <1>3, <1>4, ReadTyped

LEMMA StatusFill ==
    ASSUME TypeInv, StatusInv, NEW a \in Threads, FillMemory(a)
    PROVE  StatusInv'
<1> SUFFICES ASSUME NEW t \in Tasks \ overlapped PROVE StatusOK(t)'
  BY FillTyped DEF StatusInv, history
<1>1. /\ run[a].pc = "fill" /\ run'[a].pc = "file" /\ run'[a].task = run[a].task
      /\ \A b \in Threads \ {a} : run'[b] = run[b]
      /\ row' = row /\ newest' = newest /\ unsaved' = unsaved
      /\ memory' = [memory EXCEPT ![run[a].task] = run[a].status]
  BY FillTyped DEF history
<1>2. memory \in [Tasks -> Requests \cup {None}] /\ StatusOK(t) /\ ~Busy(a, t)'
  BY <1>1, Typed DEF StatusInv, Busy
<1>3. CASE run[a].task = t
  <2>1. Busy(a, t) /\ ~Saves(a, t)
    BY <1>1, <1>3 DEF Busy, Saves
  <2>2. \A b \in Threads : ~Saves(b, t)
    BY <1>2, <2>1 DEF StatusOK, SaveOK
  <2>3. \A b \in Threads : ~Saves(b, t)'
    BY <1>1, <2>2 DEF Saves
  <2>4. memory'[t] = run[a].status /\ (newest[t] \in unsaved \/ run[a].status = newest[t])
    BY <1>1, <1>2, <1>3 DEF StatusOK, FillOK
  <2>5. newest[t] \in unsaved \/ row[t] = newest[t]
    BY <1>2, <2>2 DEF StatusOK, RowOK
  <2>6. MemoryOK(t)' /\ RowOK(t)' /\ SaveOK(t)'
    BY <1>1, <2>3, <2>4, <2>5 DEF MemoryOK, RowOK, SaveOK
  <2>7. FillOK(t)'
    BY <1>1, <1>2 DEF StatusOK, FillOK
  <2>8. QED
    BY <2>6, <2>7 DEF StatusOK
<1>4. CASE run[a].task # t
  <2>1. ~Busy(a, t) /\ memory'[t] = memory[t]
    BY <1>1, <1>2, <1>4 DEF Busy
  <2>2. QED
    BY <1>1, <1>2, <2>1, StatusStays
<1>5. QED
  BY <1>3, <1>4

LEMMA StatusList ==
    ASSUME TypeInv, StatusInv, NEW a \in Threads, AppendFile(a) \/ InsertRow(a)
    PROVE  StatusInv'
<1> SUFFICES ASSUME NEW t \in Tasks \ overlapped PROVE StatusOK(t)'
  BY ListTyped DEF StatusInv
<1>1. /\ memory' = memory /\ row' = row /\ newest' = newest /\ unsaved' = unsaved
      /\ run[a].pc \in {"file", "list"} /\ run'[a].pc \in {"list", "idle"}
      /\ \A b \in Threads \ {a} : run'[b] = run[b]
  BY ListTyped, IdleTyped DEF store
<1>2. ~Busy(a, t) /\ ~Busy(a, t)'
  BY <1>1 DEF Busy
<1>3. QED
  BY <1>1, <1>2, StatusStays DEF StatusInv

LEMMA StatusRestart ==
    ASSUME TypeInv, StatusInv, Restart
    PROVE  StatusInv'
<1> SUFFICES ASSUME NEW t \in Tasks \ overlapped PROVE StatusOK(t)'
  BY RestartTyped DEF StatusInv
<1>1. /\ \A a \in Threads : run'[a].pc = "idle"
      /\ memory'[t] = None /\ row' = row /\ newest' = newest /\ unsaved \subseteq unsaved'
      /\ \A a \in Threads : run[a].pc = "save" => run[a].id \in unsaved'
  BY RestartTyped, IdleTyped
<1>2. StatusOK(t)
  BY DEF StatusInv
<1>3. newest[t] \in unsaved' \/ row[t] = newest[t]
  <2>1. \A a \in Threads : Saves(a, t) => newest[t] \in unsaved'
    BY <1>1, <1>2 DEF StatusOK, SaveOK, Saves
  <2>2. QED
    BY <1>1, <1>2, <2>1 DEF StatusOK, RowOK
<1>4. QED
  BY <1>1, <1>3 DEF StatusOK, MemoryOK, RowOK, SaveOK, FillOK, Saves

LEMMA StatusNext == TypeInv /\ StatusInv /\ [Next]_vars => StatusInv'
<1> SUFFICES ASSUME TypeInv, StatusInv, [Next]_vars PROVE StatusInv'
  OBVIOUS
<1>1. ASSUME NEW a \in Threads, Step(a) PROVE StatusInv'
  BY <1>1, StatusArrive, StatusExecute, StatusPutRow, StatusRead, StatusFill, StatusList DEF Step
<1>2. CASE Restart
  BY <1>2, StatusRestart
<1>3. CASE UNCHANGED vars
  BY <1>3 DEF StatusInv, StatusOK, MemoryOK, RowOK, SaveOK, FillOK, Saves, Busy, vars
<1>4. QED
  BY <1>1, <1>2, <1>3 DEF Next

\* Whatever overlaps and restarts: when nobody is at the status of a task, and MySQL
\* took the newest one, its row is the newest and memory holds it or nothing; but for
\* tasks whose executions overlapped.
THEOREM StatusCorrect == Spec => []StatusIsNewest
<1>1. TypeInv /\ StatusInv => StatusIsNewest
  <2> SUFFICES ASSUME StatusInv, NEW t \in Tasks \ overlapped, Writing(t) = {},
                      newest[t] \notin unsaved
               PROVE  row[t] = newest[t] /\ memory[t] \in {None, newest[t]}
    BY DEF StatusIsNewest
  <2>1. \A a \in Threads : ~Saves(a, t)
    BY DEF Writing, Saves
  <2>2. QED
    BY <2>1 DEF StatusInv, StatusOK, MemoryOK, RowOK
<1>2. QED
  BY TypeInit, TypeNext, StatusInit, StatusNext, <1>1, PTL DEF Spec

-----------------------------------------------------------------------------
(* The audit in MySQL. *)

\* Only executions write a status.
KindInv ==
    \A a \in Threads :
        /\ run[a].pc \in {"adapter", "save"} => run[a].kind = "execute"
        /\ run[a].pc \in {"get", "load", "fill"} => run[a].kind = "status"

\* The last execution of a task in the audit is this one.
EndsIn(log, t, n) ==
    \E i \in DOMAIN log :
        /\ log[i] = [id |-> n, task |-> t, kind |-> "execute"]
        /\ \A j \in i + 1 .. Len(log) : log[j].task = t => log[j].kind # "execute"

\* An execution has written the status of a task and not yet all of its audit.
Pending(a, t) == run[a].task = t /\ run[a].kind = "execute" /\ run[a].pc \in {"save", "file", "list"}

\* At most one execution is between its status and its audit, and it is the newest;
\* when there is none, the audit ends with the newest or has lost it.
OneOK(t) == \A a \in Threads : Pending(a, t) => run[a].id = newest[t]
EndOK(t) ==
    \/ newest[t] = None \/ newest[t] \in unlisted
    \/ \E a \in Threads : Pending(a, t)
    \/ EndsIn(rows, t, newest[t])

TrailInv == KindInv /\ \A t \in Tasks \ overlapped : OneOK(t) /\ EndOK(t)

LEMMA EndsInAppend ==
    ASSUME NEW log \in Seq(Entries), NEW e \in Entries, NEW t, NEW n
    PROVE  /\ e = [id |-> n, task |-> t, kind |-> "execute"] => EndsIn(Append(log, e), t, n)
           /\ (e.task # t \/ e.kind # "execute") /\ EndsIn(log, t, n) => EndsIn(Append(log, e), t, n)
<1> DEFINE more == Append(log, e)
<1>1. /\ Len(more) = Len(log) + 1 /\ DOMAIN more = 1 .. Len(log) + 1 /\ Len(log) \in Nat
      /\ more[Len(log) + 1] = e /\ \A i \in 1 .. Len(log) : more[i] = log[i]
      /\ DOMAIN log = 1 .. Len(log)
  OBVIOUS
<1> HIDE DEF more
<1>2. e = [id |-> n, task |-> t, kind |-> "execute"] => EndsIn(more, t, n)
  <2>1. Len(log) + 1 \in DOMAIN more
    BY <1>1
  <2>2. \A j \in (Len(log) + 1) + 1 .. Len(more) : FALSE
    BY <1>1
  <2>3. QED
    BY <1>1, <2>1, <2>2 DEF EndsIn
<1>3. ASSUME e.task # t \/ e.kind # "execute", EndsIn(log, t, n) PROVE EndsIn(more, t, n)
  <2>1. PICK i \in DOMAIN log :
           /\ log[i] = [id |-> n, task |-> t, kind |-> "execute"]
           /\ \A j \in i + 1 .. Len(log) : log[j].task = t => log[j].kind # "execute"
    BY <1>3 DEF EndsIn
  <2>2. i \in DOMAIN more /\ more[i] = log[i]
    BY <1>1
  <2>3. ASSUME NEW j \in i + 1 .. Len(more), more[j].task = t PROVE more[j].kind # "execute"
    <3>1. CASE j = Len(log) + 1
      BY <1>1, <1>3, <2>3, <3>1
    <3>2. CASE j # Len(log) + 1
      <4>1. j \in i + 1 .. Len(log) /\ j \in 1 .. Len(log)
        BY <1>1, <3>2
      <4>2. QED
        BY <1>1, <2>1, <2>3, <4>1
    <3>3. QED
      BY <3>1, <3>2
  <2>4. QED
    BY <2>1, <2>2, <2>3 DEF EndsIn
<1>4. QED
  BY <1>2, <1>3 DEF more

LEMMA TrailInit == Init => TrailInv
<1> SUFFICES ASSUME Init PROVE TrailInv
  OBVIOUS
<1>1. \A a \in Threads : run[a].pc = "idle"
  BY IdleTyped DEF Init
<1>2. \A t \in Tasks : newest[t] = None
  BY DEF Init
<1>3. QED
  BY <1>1, <1>2 DEF TrailInv, KindInv, OneOK, EndOK, Pending

\* A request keeps its kind as long as it lasts, and goes from place to place of it.
LEMMA KindStays ==
    ASSUME KindInv, NEW a \in Threads, \A b \in Threads \ {a} : run'[b] = run[b],
           \/ run'[a].pc \in {"file", "list", "idle"}
           \/ run'[a].kind = run[a].kind /\ run[a].pc = "adapter" /\ run'[a].pc = "save"
           \/ /\ run'[a].kind = run[a].kind /\ run[a].pc \in {"get", "load"}
              /\ run'[a].pc \in {"load", "fill"}
    PROVE  KindInv'
<1>1. \A b \in Threads : b # a => run'[b] = run[b]
  OBVIOUS
<1>2. QED
  BY <1>1 DEF KindInv

\* A request that neither is nor becomes an execution with a status to account for
\* leaves the trail in order.
LEMMA TrailStays ==
    ASSUME NEW t \in Tasks, OneOK(t), EndOK(t), NEW a \in Threads,
           \A b \in Threads \ {a} : run'[b] = run[b],
           Pending(a, t)' <=> Pending(a, t), Pending(a, t) => run'[a].id = run[a].id,
           newest'[t] = newest[t], unlisted \subseteq unlisted',
           EndsIn(rows, t, newest[t]) => EndsIn(rows', t, newest[t])
    PROVE  OneOK(t)' /\ EndOK(t)'
<1>1. \A b \in Threads : b # a => run'[b] = run[b]
  OBVIOUS
<1>2. \A b \in Threads : (Pending(b, t)' <=> Pending(b, t)) /\ (Pending(b, t) => run'[b].id = run[b].id)
  BY <1>1 DEF Pending
<1>3. EndsIn(rows, t, newest[t]) => EndsIn(rows, t, newest[t])'
  BY DEF EndsIn
<1>4. QED
  BY <1>2, <1>3 DEF OneOK, EndOK

LEMMA TrailArrive ==
    ASSUME TypeInv, TrailInv, NEW a \in Threads, Arrive(a)
    PROVE  TrailInv'
<1>1. /\ run[a].pc = "idle" /\ run'[a].pc \in {"adapter", "get", "file"}
      /\ run'[a].pc = "file" => run'[a].kind # "execute"
      /\ run'[a].pc = "adapter" => run'[a].kind = "execute"
      /\ run'[a].pc = "get" => run'[a].kind = "status"
      /\ \A b \in Threads \ {a} : run'[b] = run[b]
      /\ UNCHANGED <<rows, newest, unlisted, overlapped>>
  BY ArriveTyped
<1>2. KindInv'
  BY <1>1 DEF TrailInv, KindInv
<1>3. ASSUME NEW t \in Tasks \ overlapped PROVE OneOK(t)' /\ EndOK(t)'
  <2>1. ~Pending(a, t) /\ ~Pending(a, t)'
    BY <1>1 DEF Pending
  <2>2. QED
    BY <1>1, <2>1, TrailStays DEF TrailInv
<1>4. QED
  BY <1>1, <1>2, <1>3 DEF TrailInv

LEMMA TrailExecute ==
    ASSUME TypeInv, TrailInv, NEW a \in Threads, Execute(a)
    PROVE  TrailInv'
<1>1. /\ run[a].pc = "adapter" /\ \A b \in Threads \ {a} : run'[b] = run[b]
      /\ rows' = rows /\ unlisted' = unlisted
  BY ExecuteTyped DEF audit
<1>2. KindInv'
  BY <1>1, ExecuteTyped, KindStays, IdleTyped DEF TrailInv
<1>3. ASSUME NEW t \in Tasks \ overlapped' PROVE OneOK(t)' /\ EndOK(t)'
  <2>1. run[a].task \in Tasks /\ newest \in [Tasks -> Requests \cup {None}] /\ ~Pending(a, t)
    BY <1>1, Typed DEF Pending
  <2>2. CASE /\ newest' = [newest EXCEPT ![run[a].task] = run[a].id]
             /\ overlapped' = IF Writing(run[a].task) # {} THEN overlapped \cup {run[a].task}
                              ELSE overlapped
             /\ run'[a].pc = "save" /\ run'[a].kind = run[a].kind
             /\ run'[a].task = run[a].task /\ run'[a].id = run[a].id
    <3>0. t \notin overlapped
      BY <2>2
    <3>1. CASE t = run[a].task
      <4>1. Writing(t) = {}
        BY <2>2, <3>1
      <4>2. \A b \in Threads : ~Pending(b, t)
        BY <4>1 DEF Writing, Pending
      <4>3. \A b \in Threads : b # a => ~Pending(b, t)'
        BY <1>1, <4>2 DEF Pending
      <4>4. Pending(a, t)' /\ run'[a].id = newest'[t]
        BY <1>1, <2>1, <2>2, <3>1 DEF Pending, TrailInv, KindInv
      <4>5. QED
        BY <4>3, <4>4 DEF OneOK, EndOK
    <3>2. CASE t # run[a].task
      <4>1. newest'[t] = newest[t] /\ ~Pending(a, t)'
        BY <2>1, <2>2, <3>2 DEF Pending
      <4>2. QED
        BY <1>1, <2>1, <3>0, <4>1, TrailStays DEF TrailInv
    <3>3. QED
      BY <3>1, <3>2
  <2>3. CASE run'[a] = Idle /\ UNCHANGED <<newest, overlapped>>
    <3>1. ~Pending(a, t)'
      BY <2>3, IdleTyped DEF Pending
    <3>2. QED
      BY <1>1, <2>1, <2>3, <3>1, TrailStays DEF TrailInv
  <2>4. QED
    BY <2>2, <2>3, ExecuteTyped
<1>4. QED
  BY <1>2, <1>3 DEF TrailInv

\* Saving and reading a status: no execution appears and none goes.
LEMMA TrailStatus ==
    ASSUME TypeInv, TrailInv, NEW a \in Threads,
           PutRow(a) \/ GetMemory(a) \/ GetRow(a) \/ FillMemory(a)
    PROVE  TrailInv'
<1>1. /\ \A b \in Threads \ {a} : run'[b] = run[b]
      /\ run'[a].task = run[a].task /\ run'[a].kind = run[a].kind /\ run'[a].id = run[a].id
      /\ UNCHANGED <<rows, newest, unlisted, overlapped>>
      /\ \/ run[a].pc = "save" /\ run'[a].pc = "file"
         \/ run[a].pc \in {"get", "load"} /\ run'[a].pc \in {"load", "fill", "file"}
         \/ run[a].pc = "fill" /\ run'[a].pc = "file"
  BY PutRowTyped, ReadTyped, FillTyped DEF audit, history
<1>2. KindInv'
  BY <1>1, KindStays DEF TrailInv
<1>3. ASSUME NEW t \in Tasks \ overlapped PROVE OneOK(t)' /\ EndOK(t)'
  <2>1. Pending(a, t)' <=> Pending(a, t)
    BY <1>1 DEF Pending, TrailInv, KindInv
  <2>2. QED
    BY <1>1, <2>1, TrailStays DEF TrailInv
<1>4. QED
  BY <1>1, <1>2, <1>3 DEF TrailInv

\* The audit entry of the newest execution becomes the last, or is lost.
LEMMA TrailList ==
    ASSUME TypeInv, TrailInv, NEW a \in Threads, AppendFile(a) \/ InsertRow(a)
    PROVE  TrailInv'
<1>1. /\ \A b \in Threads \ {a} : run'[b] = run[b]
      /\ run[a].pc \in {"file", "list"} /\ run'[a].pc \in {"list", "idle"}
      /\ newest' = newest /\ overlapped' = overlapped /\ unlisted \subseteq unlisted'
  BY ListTyped, IdleTyped
<1>2. KindInv'
  BY <1>1, KindStays DEF TrailInv
<1>3. ASSUME NEW t \in Tasks \ overlapped PROVE OneOK(t)' /\ EndOK(t)'
  <2>1. OneOK(t) /\ EndOK(t)
    BY DEF TrailInv
  <2>2. CASE /\ run[a].pc = "file" /\ run'[a].pc = "list" /\ run'[a].kind = run[a].kind
             /\ run'[a].task = run[a].task /\ run'[a].id = run[a].id /\ rows' = rows
    <3>1. Pending(a, t)' <=> Pending(a, t)
      BY <2>2 DEF Pending
    <3>2. QED
      BY <1>1, <2>1, <2>2, <3>1, TrailStays
  <2>3. CASE /\ run'[a] = Idle
             /\ \/ rows' = rows /\ run[a].id \in unlisted'
                \/ rows' = Append(rows, Entry(run[a]))
    <3>1. ~Pending(a, t)' /\ rows \in Seq(Entries) /\ Entry(run[a]) \in Entries
      BY <1>1, <2>3, IdleTyped, Typed DEF Pending
    <3>2. CASE Pending(a, t)
      <4>1. run[a].id = newest[t]
        BY <2>1, <3>2 DEF OneOK
      <4>2. newest'[t] \in unlisted' \/ EndsIn(rows', t, newest'[t])
        <5>1. Entry(run[a]) = [id |-> newest[t], task |-> t, kind |-> "execute"]
          BY <3>2, <4>1 DEF Entry, Pending
        <5>2. EndsIn(Append(rows, Entry(run[a])), t, newest[t])
          BY <3>1, <5>1, EndsInAppend
        <5>3. CASE rows' = Append(rows, Entry(run[a]))
          <6>1. EndsIn(rows', t, newest[t])
            BY <5>2, <5>3
          <6>2. QED
            BY <1>1, <6>1
        <5>4. CASE run[a].id \in unlisted'
          BY <1>1, <4>1, <5>4
        <5>5. QED
          BY <2>3, <5>3, <5>4
      <4>3. EndOK(t)'
        BY <4>2 DEF EndOK, EndsIn
      <4>4. OneOK(t)'
        <5>1. \A b \in Threads : Pending(b, t)' => b # a /\ run'[b] = run[b] /\ Pending(b, t)
          BY <1>1, <3>1 DEF Pending
        <5>2. QED
          BY <1>1, <2>1, <5>1 DEF OneOK
      <4>5. QED
        BY <4>3, <4>4
    <3>3. CASE ~Pending(a, t)
      <4>1. Entry(run[a]).task # t \/ Entry(run[a]).kind # "execute"
        BY <1>1, <3>3 DEF Pending, Entry
      <4>2. EndsIn(rows, t, newest[t]) => EndsIn(rows', t, newest[t])
        BY <2>3, <3>1, <4>1, EndsInAppend
      <4>3. QED
        BY <1>1, <2>1, <3>1, <3>3, <4>2, TrailStays
    <3>4. QED
      BY <3>2, <3>3
  <2>4. QED
    BY <2>2, <2>3, ListTyped
<1>4. QED
  BY <1>1, <1>2, <1>3 DEF TrailInv

\* A restart drops the entry of whoever it interrupts.
LEMMA TrailRestart ==
    ASSUME TypeInv, TrailInv, Restart
    PROVE  TrailInv'
<1>1. /\ \A a \in Threads : run'[a].pc = "idle"
      /\ rows' = rows /\ newest' = newest /\ overlapped' = overlapped
      /\ unlisted \subseteq unlisted'
      /\ \A a \in Threads : run[a].kind = "execute" => run[a].id \in unlisted'
  BY RestartTyped, IdleTyped DEF audit, Logged
<1>2. KindInv'
  BY <1>1 DEF KindInv
<1>3. ASSUME NEW t \in Tasks \ overlapped PROVE OneOK(t)' /\ EndOK(t)'
  <2>1. \A a \in Threads : Pending(a, t) => newest[t] \in unlisted'
    BY <1>1 DEF TrailInv, OneOK, Pending
  <2>2. OneOK(t)'
    BY <1>1 DEF OneOK, Pending
  <2>3. EndOK(t)'
    BY <1>1, <2>1 DEF TrailInv, EndOK, EndsIn
  <2>4. QED
    BY <2>2, <2>3
<1>4. QED
  BY <1>1, <1>2, <1>3 DEF TrailInv

LEMMA TrailNext == TypeInv /\ TrailInv /\ [Next]_vars => TrailInv'
<1> SUFFICES ASSUME TypeInv, TrailInv, [Next]_vars PROVE TrailInv'
  OBVIOUS
<1>1. ASSUME NEW a \in Threads, Step(a) PROVE TrailInv'
  BY <1>1, TrailArrive, TrailExecute, TrailStatus, TrailList DEF Step
<1>2. CASE Restart
  BY <1>2, TrailRestart
<1>3. CASE UNCHANGED vars
  BY <1>3 DEF TrailInv, KindInv, OneOK, EndOK, Pending, EndsIn, vars
<1>4. QED
  BY <1>1, <1>2, <1>3 DEF Next

\* The last execution in the audit is the one the status in MySQL is of, unless its
\* entry was lost or executions of the task overlapped.
THEOREM TrailCorrect == Spec => []TrailEndsInStatus
<1>1. TypeInv /\ StatusInv /\ TrailInv => TrailEndsInStatus
  <2> SUFFICES ASSUME TypeInv, StatusInv, TrailInv, NEW t \in Tasks \ overlapped, Writing(t) = {},
                      newest[t] \notin unsaved \cup unlisted, row[t] # None
               PROVE  EndsIn(rows, t, row[t])
    BY DEF TrailEndsInStatus, EndsIn
  <2>1. \A a \in Threads : ~Saves(a, t) /\ ~Pending(a, t)
    BY DEF Writing, Saves, Pending
  <2>2. row[t] = newest[t]
    BY <2>1 DEF StatusInv, StatusOK, RowOK
  <2>3. QED
    BY <2>1, <2>2 DEF TrailInv, EndOK
<1>2. QED
  BY TypeInit, TypeNext, StatusInit, StatusNext, TrailInit, TrailNext, <1>1, PTL DEF Spec
-----------------------------------------------------------------------------
(* What an audit query shows. *)

\* A bounded set of numbers that is not empty has a greatest one.
LEMMA HasGreatest ==
    ASSUME NEW n \in Nat, NEW S \in SUBSET (1 .. n), S # {}
    PROVE  \E m \in S : \A k \in S : k <= m
<1> DEFINE T == {n - k : k \in S}
           R == OpToRel(<, Nat)
<1>1. T \subseteq Nat /\ T # {}
  <2>1. \A k \in S : n - k \in Nat
    OBVIOUS
  <2>2. PICK k \in S : TRUE
    OBVIOUS
  <2>3. n - k \in T
    OBVIOUS
  <2>4. QED
    BY <2>1, <2>3
<1>2. IsWellFoundedOn(R, Nat)
  BY NatLessThanWellFounded
<1>3. \A x, y \in Nat : x < y => <<x, y>> \in R
  BY DEF OpToRel
<1> HIDE DEF R
<1>4. \E x \in T : \A y \in T : ~(<<y, x>> \in R)
  BY <1>1, <1>2, WFMin
<1>5. PICK x \in T : \A y \in T : ~(<<y, x>> \in R)
  BY <1>4
<1>6. PICK m \in S : x = n - m
  OBVIOUS
<1>7. ASSUME NEW k \in S PROVE k <= m
  <2>1. n - k \in T /\ n - k \in Nat /\ x \in Nat
    BY <1>1
  <2>2. ~(n - k < x)
    BY <1>3, <1>5, <2>1
  <2>3. QED
    BY <1>6, <2>2
<1>8. QED
  BY <1>7

\* The entries of a log are of different requests; a request has none in it.
Distinct(log) == \A i, j \in DOMAIN log : log[i].id = log[j].id => i = j
Fresh(log, n) == \A i \in DOMAIN log : log[i].id # n

\* A query that does not reach its limit shows every entry of the task: one that it
\* left out would have as many later ones as the limit, and those are shown.
LEMMA LastOfAll ==
    ASSUME NEW log \in Seq(Entries), Distinct(log), NEW t,
           Cardinality(LastOf(log, t)) < Limit,
           NEW i \in DOMAIN log, log[i].task = t
    PROVE  log[i].id \in LastOf(log, t)
<1> DEFINE After(j) == {k \in j + 1 .. Len(log) : log[k].task = t}
           All == {j \in DOMAIN log : log[j].task = t}
           Few == {j \in All : Cardinality(After(j)) < Limit}
           f == [j \in Few |-> log[j].id]
<1>1. Len(log) \in Nat /\ DOMAIN log = 1 .. Len(log) /\ Limit \in Nat
  BY LimitIsPositive
<1>2. LastOf(log, t) = {log[j].id : j \in Few}
  BY DEF LastOf
<1>3. IsFiniteSet(Few)
  <2>1. IsFiniteSet(1 .. Len(log))
    BY <1>1, FS_Interval
  <2>2. Few \subseteq 1 .. Len(log)
    BY <1>1
  <2>3. QED
    BY <2>1, <2>2, FS_Subset
<1>4. Cardinality(Few) = Cardinality(LastOf(log, t))
  <2>1. f \in [Few -> LastOf(log, t)] /\ \A x \in LastOf(log, t) : \E j \in Few : f[j] = x
    BY <1>2
  <2>2. \A j, k \in Few : f[j] = f[k] => j = k
    BY DEF Distinct
  <2> HIDE DEF f, Few
  <2>3. f \in Surjection(Few, LastOf(log, t))
    BY <2>1 DEF Surjection
  <2>4. f \in Injection(Few, LastOf(log, t))
    BY <2>1, <2>2 DEF Injection, IsInjective
  <2>5. QED
    BY <1>3, <2>3, <2>4, FS_Surjection
<1>5. i \in Few
  <2> SUFFICES ASSUME i \notin Few PROVE FALSE
    OBVIOUS
  <2> DEFINE Bad == All \ Few
  <2>1. Bad \in SUBSET (1 .. Len(log)) /\ Bad # {}
    BY <1>1
  <2> HIDE DEF Bad
  <2>2. PICK m \in Bad : \A k \in Bad : k <= m
    BY <1>1, <2>1, HasGreatest
  <2>3. m \in 1 .. Len(log) /\ m \in All /\ ~(Cardinality(After(m)) < Limit)
    BY <1>1, <2>2 DEF Bad
  <2>4. After(m) \in SUBSET Few
    <3>1. ASSUME NEW k \in After(m) PROVE k \in Few
      <4>1. k \in 1 .. Len(log) /\ k > m /\ k \in All
        BY <1>1, <2>3
      <4>2. k \notin Bad
        BY <1>1, <2>1, <2>2, <4>1
      <4>3. QED
        BY <4>1, <4>2 DEF Bad
    <3>2. QED
      BY <3>1
  <2> HIDE DEF After, Few, All
  <2>5. Cardinality(After(m)) <= Cardinality(Few) /\ IsFiniteSet(After(m))
    BY <1>3, <2>4, FS_Subset
  <2>6. Cardinality(After(m)) \in Nat /\ Cardinality(Few) \in Nat
    BY <1>3, <2>5, FS_CardinalityType
  <2>7. QED
    BY <1>1, <1>4, <2>3, <2>5, <2>6
<1>6. QED
  BY <1>2, <1>5

-----------------------------------------------------------------------------
(* The audit in the file and in MySQL. *)

\* An entry of the file is in MySQL too, or on its way there, or was lost; every
\* request has at most one entry in each, written after those before it.
TraceInv ==
    /\ Distinct(file) /\ Distinct(rows)
    /\ \A i \in DOMAIN file : file[i].id <= requests
    /\ \A i \in DOMAIN rows : rows[i].id <= requests
    /\ \A a \in Threads : run[a].pc # "idle" => Fresh(rows, run[a].id)
    /\ \A a \in Threads : run[a].pc \notin {"idle", "list"} => Fresh(file, run[a].id)
    /\ \A a, b \in Threads :
          run[a].pc # "idle" /\ run[b].pc # "idle" /\ run[a].id = run[b].id => a = b
    /\ \A i \in DOMAIN file :
          \/ file[i].id \in unlisted
          \/ \E a \in Threads : run[a].pc = "list" /\ Entry(run[a]) = file[i]
          \/ \E j \in DOMAIN rows : rows[j] = file[i]

\* A log with one more entry, of a request that had none.
LEMMA Grown ==
    ASSUME NEW log \in Seq(Entries), NEW e \in Entries, Distinct(log), Fresh(log, e.id)
    PROVE  /\ DOMAIN log \subseteq DOMAIN Append(log, e)
           /\ \A i \in DOMAIN log : Append(log, e)[i] = log[i]
           /\ \A i \in DOMAIN Append(log, e) :
                 Append(log, e)[i] = e \/ (i \in DOMAIN log /\ Append(log, e)[i] = log[i])
           /\ \E i \in DOMAIN Append(log, e) : Append(log, e)[i] = e
           /\ Distinct(Append(log, e))
           /\ \A n : Fresh(log, n) /\ n # e.id => Fresh(Append(log, e), n)
<1> DEFINE more == Append(log, e)
<1>1. /\ DOMAIN more = 1 .. Len(log) + 1 /\ Len(log) \in Nat
      /\ more[Len(log) + 1] = e /\ \A i \in 1 .. Len(log) : more[i] = log[i]
      /\ DOMAIN log = 1 .. Len(log)
  OBVIOUS
<1> HIDE DEF more
<1>2. /\ DOMAIN log \subseteq DOMAIN more /\ Len(log) + 1 \in DOMAIN more
      /\ \A i \in DOMAIN more : i = Len(log) + 1 \/ i \in DOMAIN log
  BY <1>1
<1>3. Distinct(more)
  <2>1. \A i, j \in DOMAIN log : more[i].id = more[j].id => i = j
    BY <1>1 DEF Distinct
  <2>2. \A i \in DOMAIN log : more[i].id # e.id
    BY <1>1 DEF Fresh
  <2>3. QED
    BY <1>1, <1>2, <2>1, <2>2 DEF Distinct
<1>4. \A n : Fresh(log, n) /\ n # e.id => Fresh(more, n)
  BY <1>1, <1>2 DEF Fresh
<1>5. QED
  BY <1>1, <1>2, <1>3, <1>4 DEF more

LEMMA TraceInit == Init => TraceInv
<1> SUFFICES ASSUME Init PROVE TraceInv
  OBVIOUS
<1>1. \A a \in Threads : run[a].pc = "idle"
  BY IdleTyped DEF Init
<1>2. DOMAIN file = {} /\ DOMAIN rows = {}
  BY DEF Init
<1>3. QED
  BY <1>1, <1>2 DEF TraceInv, Distinct

\* A request that goes on before its audit, or that is over when its entry is in
\* MySQL or lost.
LEMMA TraceStays ==
    ASSUME TraceInv, NEW a \in Threads, \A b \in Threads \ {a} : run'[b] = run[b],
           UNCHANGED <<file, rows, requests>>, unlisted \subseteq unlisted',
           \/ run'[a].pc = "idle" /\ (run[a].pc = "list" => run[a].id \in unlisted')
           \/ /\ run[a].pc \notin {"idle", "list"} /\ run'[a].pc \notin {"idle", "list"}
              /\ run'[a].id = run[a].id
    PROVE  TraceInv'
<1>1. \A b \in Threads : b = a \/ run'[b] = run[b]
  OBVIOUS
<1>2. /\ Distinct(file)' /\ Distinct(rows)'
      /\ \A i \in DOMAIN file' : file'[i].id <= requests'
      /\ \A i \in DOMAIN rows' : rows'[i].id <= requests'
  BY DEF TraceInv, Distinct
<1>3. \A b \in Threads : run'[b].pc # "idle" => run[b].pc # "idle" /\ run'[b].id = run[b].id
  BY <1>1
<1>4. \A b \in Threads : run'[b].pc \notin {"idle", "list"} => run[b].pc \notin {"idle", "list"}
  BY <1>1
<1>5. /\ \A b \in Threads : run'[b].pc # "idle" => Fresh(rows', run'[b].id)
      /\ \A b \in Threads : run'[b].pc \notin {"idle", "list"} => Fresh(file', run'[b].id)
  BY <1>3, <1>4 DEF TraceInv, Fresh
<1>6. \A b, c \in Threads :
         run'[b].pc # "idle" /\ run'[c].pc # "idle" /\ run'[b].id = run'[c].id => b = c
  BY <1>3 DEF TraceInv
<1>7. ASSUME NEW i \in DOMAIN file'
      PROVE  \/ file'[i].id \in unlisted'
             \/ \E b \in Threads : run'[b].pc = "list" /\ Entry(run'[b]) = file'[i]
             \/ \E j \in DOMAIN rows' : rows'[j] = file'[i]
  <2>1. ASSUME NEW b \in Threads, run[b].pc = "list", Entry(run[b]) = file[i]
        PROVE  file[i].id \in unlisted' \/ (run'[b].pc = "list" /\ Entry(run'[b]) = file[i])
    <3>1. file[i].id = run[b].id
      BY <2>1 DEF Entry
    <3>2. QED
      BY <1>1, <2>1, <3>1
  <2>2. QED
    BY <2>1 DEF TraceInv
<1>8. QED
  BY <1>2, <1>5, <1>6, <1>7 DEF TraceInv, Distinct, Fresh

\* A new request has a number of its own.
LEMMA TraceArrive ==
    ASSUME TypeInv, TraceInv, NEW a \in Threads, Arrive(a)
    PROVE  TraceInv'
<1>1. /\ run[a].pc = "idle" /\ run'[a].pc \in {"adapter", "get", "file"}
      /\ run'[a].id = requests' /\ requests' = requests + 1
      /\ \A b \in Threads \ {a} : run'[b] = run[b]
      /\ UNCHANGED <<file, rows, unlisted>>
  BY ArriveTyped DEF Arrive
<1>2. /\ requests \in Nat /\ \A b \in Threads : run[b].pc # "idle" => run[b].id \in 1 .. requests
      /\ \A i \in DOMAIN file : file[i].id \in Nat
      /\ \A i \in DOMAIN rows : rows[i].id \in Nat
  <2>1. requests \in Nat /\ \A b \in Threads : run[b].pc # "idle" => run[b].id \in 1 .. requests
    BY BoundsAreNatural DEF TypeInv, TypeOK
  <2>2. \A e \in Entries : e.id \in Nat
    BY BoundsAreNatural DEF Entries, Requests
  <2>3. \A log \in Seq(Entries) : \A i \in DOMAIN log : log[i] \in Entries
    OBVIOUS
  <2>4. file \in Seq(Entries) /\ rows \in Seq(Entries)
    BY DEF TypeInv, TypeOK
  <2>5. QED
    BY <2>1, <2>2, <2>3, <2>4
<1>3. \A b \in Threads : b = a \/ run'[b] = run[b]
  BY <1>1
<1>4. /\ \A i \in DOMAIN file : file[i].id <= requests + 1 /\ file[i].id # requests + 1
      /\ \A i \in DOMAIN rows : rows[i].id <= requests + 1 /\ rows[i].id # requests + 1
  BY <1>2 DEF TraceInv
<1>5. \A b \in Threads : run[b].pc # "idle" => run[b].id # requests + 1
  BY <1>2
<1>6. /\ Distinct(file)' /\ Distinct(rows)'
      /\ \A i \in DOMAIN file' : file'[i].id <= requests'
      /\ \A i \in DOMAIN rows' : rows'[i].id <= requests'
  BY <1>1, <1>4 DEF TraceInv, Distinct
<1>7. /\ \A b \in Threads : run'[b].pc # "idle" => Fresh(rows', run'[b].id)
      /\ \A b \in Threads : run'[b].pc \notin {"idle", "list"} => Fresh(file', run'[b].id)
  BY <1>1, <1>3, <1>4 DEF TraceInv, Fresh
<1>8. \A b, c \in Threads :
         run'[b].pc # "idle" /\ run'[c].pc # "idle" /\ run'[b].id = run'[c].id => b = c
  BY <1>1, <1>3, <1>5 DEF TraceInv
<1>9. \A i \in DOMAIN file' :
         \/ file'[i].id \in unlisted'
         \/ \E b \in Threads : run'[b].pc = "list" /\ Entry(run'[b]) = file'[i]
         \/ \E j \in DOMAIN rows' : rows'[j] = file'[i]
  <2>1. \A b \in Threads : run[b].pc = "list" => run'[b] = run[b]
    BY <1>1, <1>3
  <2>2. QED
    BY <1>1, <2>1 DEF TraceInv
<1>10. QED
  BY <1>6, <1>7, <1>8, <1>9 DEF TraceInv, Distinct, Fresh

\* The status of a task is not part of the audit.
LEMMA TraceStatus ==
    ASSUME TypeInv, TraceInv, NEW a \in Threads,
           Execute(a) \/ PutRow(a) \/ GetMemory(a) \/ GetRow(a) \/ FillMemory(a)
    PROVE  TraceInv'
<1>1. UNCHANGED <<file, rows, requests, unlisted>>
  BY DEF Execute, PutRow, GetMemory, GetRow, FillMemory, audit, history
<1>2. /\ \A b \in Threads \ {a} : run'[b] = run[b]
      /\ run[a].pc \notin {"idle", "list"}
      /\ run'[a].pc = "idle" \/ (run'[a].pc \notin {"idle", "list"} /\ run'[a].id = run[a].id)
  <2>1. CASE Execute(a)
    BY <2>1, ExecuteTyped, IdleTyped
  <2>2. CASE PutRow(a)
    BY <2>2, PutRowTyped
  <2>3. CASE GetMemory(a) \/ GetRow(a)
    BY <2>3, ReadTyped
  <2>4. CASE FillMemory(a)
    BY <2>4, FillTyped
  <2>5. QED
    BY <2>1, <2>2, <2>3, <2>4
<1>3. QED
  BY <1>1, <1>2, TraceStays

\* An entry is written to the file and then to MySQL, or it is lost.
LEMMA TraceList ==
    ASSUME TypeInv, TraceInv, NEW a \in Threads, AppendFile(a) \/ InsertRow(a)
    PROVE  TraceInv'
<1>1. /\ \A b \in Threads \ {a} : run'[b] = run[b]
      /\ run[a].pc \in {"file", "list"} /\ requests' = requests
      /\ Entry(run[a]) \in Entries /\ file \in Seq(Entries) /\ rows \in Seq(Entries)
      /\ run[a].id \in 1 .. requests /\ requests \in Nat
  BY ListTyped, Typed, BoundsAreNatural DEF AppendFile, InsertRow, TypeInv, TypeOK
<1>2. Entry(run[a]).id = run[a].id /\ run[a].id <= requests
  BY <1>1 DEF Entry
<1>3. \A b \in Threads : b = a \/ run'[b] = run[b]
  BY <1>1
<1>4. \A b \in Threads : b # a /\ run[b].pc # "idle" => run[b].id # run[a].id
  BY <1>1 DEF TraceInv
<1>5. CASE /\ run[a].pc = "file" /\ run'[a].pc = "list" /\ run'[a].kind = run[a].kind
           /\ run'[a].task = run[a].task /\ run'[a].id = run[a].id
           /\ UNCHANGED <<rows, unlisted>> /\ file' = Append(file, Entry(run[a]))
  <2>1. Distinct(file) /\ Fresh(file, Entry(run[a]).id)
    BY <1>2, <1>5 DEF TraceInv
  <2>2. /\ DOMAIN file \subseteq DOMAIN file'
        /\ \A i \in DOMAIN file' :
              file'[i] = Entry(run[a]) \/ (i \in DOMAIN file /\ file'[i] = file[i])
        /\ Distinct(file')
        /\ \A n : Fresh(file, n) /\ n # run[a].id => Fresh(file', n)
    BY <1>1, <1>2, <1>5, <2>1, Grown
  <2>3. Entry(run'[a]) = Entry(run[a])
    BY <1>5 DEF Entry
  <2>4. \A i \in DOMAIN file' : file'[i].id <= requests'
    BY <1>1, <1>2, <2>2 DEF TraceInv
  <2>5. \A b \in Threads : run'[b].pc # "idle" => Fresh(rows', run'[b].id)
    BY <1>3, <1>5 DEF TraceInv, Fresh
  <2>6. \A b \in Threads : run'[b].pc \notin {"idle", "list"} => Fresh(file', run'[b].id)
    <3>1. ASSUME NEW b \in Threads, run'[b].pc \notin {"idle", "list"}
          PROVE  Fresh(file', run'[b].id)
      <4>1. b # a /\ run'[b] = run[b]
        BY <1>3, <1>5, <3>1
      <4>2. Fresh(file, run[b].id) /\ run[b].id # run[a].id
        BY <1>4, <3>1, <4>1 DEF TraceInv
      <4>3. QED
        BY <2>2, <4>1, <4>2
    <3>2. QED
      BY <3>1
  <2>7. \A b, c \in Threads :
           run'[b].pc # "idle" /\ run'[c].pc # "idle" /\ run'[b].id = run'[c].id => b = c
    BY <1>3, <1>4, <1>5 DEF TraceInv
  <2>8. ASSUME NEW i \in DOMAIN file'
        PROVE  \/ file'[i].id \in unlisted'
               \/ \E b \in Threads : run'[b].pc = "list" /\ Entry(run'[b]) = file'[i]
               \/ \E j \in DOMAIN rows' : rows'[j] = file'[i]
    <3>1. CASE file'[i] = Entry(run[a])
      BY <1>5, <2>3, <3>1
    <3>2. CASE i \in DOMAIN file /\ file'[i] = file[i]
      <4>1. \A b \in Threads : run[b].pc = "list" => run'[b] = run[b]
        BY <1>3, <1>5
      <4>2. QED
        BY <1>5, <3>2, <4>1 DEF TraceInv
    <3>3. QED
      BY <2>2, <3>1, <3>2
  <2>9. Distinct(rows') /\ \A i \in DOMAIN rows' : rows'[i].id <= requests'
    BY <1>1, <1>5 DEF TraceInv
  <2>10. QED
    BY <2>2, <2>4, <2>5, <2>6, <2>7, <2>8, <2>9 DEF TraceInv, Distinct, Fresh
<1>6. CASE /\ run'[a] = Idle /\ UNCHANGED <<file, rows>>
           /\ unlisted' = unlisted \cup {run[a].id}
  BY <1>1, <1>6, IdleTyped, TraceStays
<1>7. CASE /\ run[a].pc = "list" /\ run'[a] = Idle /\ UNCHANGED <<file, unlisted>>
           /\ rows' = Append(rows, Entry(run[a]))
  <2>1. Distinct(rows) /\ Fresh(rows, Entry(run[a]).id)
    BY <1>2, <1>7 DEF TraceInv
  <2>2. /\ DOMAIN rows \subseteq DOMAIN rows'
        /\ \A i \in DOMAIN rows : rows'[i] = rows[i]
        /\ \A i \in DOMAIN rows' :
              rows'[i] = Entry(run[a]) \/ (i \in DOMAIN rows /\ rows'[i] = rows[i])
        /\ \E i \in DOMAIN rows' : rows'[i] = Entry(run[a])
        /\ Distinct(rows')
        /\ \A n : Fresh(rows, n) /\ n # run[a].id => Fresh(rows', n)
    BY <1>1, <1>2, <1>7, <2>1, Grown
  <2>3. \A b \in Threads : run'[b].pc # "idle" => b # a /\ run'[b] = run[b]
    BY <1>3, <1>7, IdleTyped
  <2>4. \A i \in DOMAIN rows' : rows'[i].id <= requests'
    BY <1>1, <1>2, <2>2 DEF TraceInv
  <2>5. \A b \in Threads : run'[b].pc # "idle" => Fresh(rows', run'[b].id)
    BY <1>4, <2>2, <2>3 DEF TraceInv
  <2>6. \A b \in Threads : run'[b].pc \notin {"idle", "list"} => Fresh(file', run'[b].id)
    BY <1>7, <2>3 DEF TraceInv
  <2>7. \A b, c \in Threads :
           run'[b].pc # "idle" /\ run'[c].pc # "idle" /\ run'[b].id = run'[c].id => b = c
    BY <2>3 DEF TraceInv
  <2>8. ASSUME NEW i \in DOMAIN file'
        PROVE  \/ file'[i].id \in unlisted'
               \/ \E b \in Threads : run'[b].pc = "list" /\ Entry(run'[b]) = file'[i]
               \/ \E j \in DOMAIN rows' : rows'[j] = file'[i]
    <3>1. file'[i] = file[i] /\ i \in DOMAIN file
      BY <1>7
    <3>2. CASE file[i].id \in unlisted
      BY <1>7, <3>1, <3>2
    <3>3. ASSUME NEW b \in Threads, run[b].pc = "list", Entry(run[b]) = file[i]
          PROVE  \/ run'[b].pc = "list" /\ Entry(run'[b]) = file'[i]
                 \/ \E j \in DOMAIN rows' : rows'[j] = file'[i]
      <4>1. CASE b = a
        BY <2>2, <3>1, <3>3, <4>1
      <4>2. CASE b # a
        BY <1>3, <3>1, <3>3, <4>2
      <4>3. QED
        BY <4>1, <4>2
    <3>4. ASSUME NEW j \in DOMAIN rows, rows[j] = file[i]
          PROVE  \E k \in DOMAIN rows' : rows'[k] = file'[i]
      BY <2>2, <3>1, <3>4
    <3>5. QED
      BY <3>1, <3>2, <3>3, <3>4 DEF TraceInv
  <2>9. Distinct(file') /\ \A i \in DOMAIN file' : file'[i].id <= requests'
    BY <1>1, <1>7 DEF TraceInv
  <2>10. QED
    BY <2>2, <2>4, <2>5, <2>6, <2>7, <2>8, <2>9 DEF TraceInv, Distinct, Fresh
<1>8. QED
  BY <1>5, <1>6, <1>7, ListTyped

\* Whoever a restart interrupts between the file and MySQL has lost its entry.
LEMMA TraceRestart ==
    ASSUME TypeInv, TraceInv, Restart
    PROVE  TraceInv'
<1>1. /\ \A a \in Threads : run'[a].pc = "idle"
      /\ UNCHANGED <<file, rows, requests>> /\ unlisted \subseteq unlisted'
      /\ \A a \in Threads : run[a].kind \in Logged => run[a].id \in unlisted'
  BY RestartTyped, IdleTyped DEF Restart, audit
<1>2. \A a \in Threads : run[a].pc = "list" => run[a].id \in unlisted'
  BY <1>1 DEF TypeInv, TypeOK
<1>3. ASSUME NEW i \in DOMAIN file'
      PROVE  file'[i].id \in unlisted' \/ \E j \in DOMAIN rows' : rows'[j] = file'[i]
  <2>1. \A a \in Threads : Entry(run[a]) = file[i] => file[i].id = run[a].id
    BY DEF Entry
  <2>2. QED
    BY <1>1, <1>2, <2>1 DEF TraceInv
<1>4. /\ Distinct(file)' /\ Distinct(rows)'
      /\ \A i \in DOMAIN file' : file'[i].id <= requests'
      /\ \A i \in DOMAIN rows' : rows'[i].id <= requests'
  BY <1>1 DEF TraceInv, Distinct
<1>5. QED
  BY <1>1, <1>3, <1>4 DEF TraceInv, Distinct

LEMMA TraceNext == TypeInv /\ TraceInv /\ [Next]_vars => TraceInv'
<1> SUFFICES ASSUME TypeInv, TraceInv, [Next]_vars PROVE TraceInv'
  OBVIOUS
<1>1. ASSUME NEW a \in Threads, Step(a) PROVE TraceInv'
  BY <1>1, TraceArrive, TraceStatus, TraceList DEF Step
<1>2. CASE Restart
  BY <1>2, TraceRestart
<1>3. CASE UNCHANGED vars
  BY <1>3 DEF TraceInv, Distinct, Fresh, Entry, vars
<1>4. QED
  BY <1>1, <1>2, <1>3 DEF Next

\* An audit query below its limit hides nothing of its task but what MySQL refused
\* or a restart cut off, whichever of the two logs it is answered from.
THEOREM AuditIsComplete == Spec => []AuditHidesOnlyLost
<1>1. TypeInv /\ TraceInv => AuditHidesOnlyLost
  <2> SUFFICES ASSUME TypeInv, TraceInv, NEW t \in Tasks, NEW ids \in Shown(t),
                      Cardinality(ids) < Limit, NEW i \in DOMAIN file, file[i].task = t,
                      \A a \in Threads : run[a].id # file[i].id
               PROVE  file[i].id \in ids \cup unlisted
    BY DEF AuditHidesOnlyLost
  <2>1. file \in Seq(Entries) /\ rows \in Seq(Entries) /\ Distinct(file) /\ Distinct(rows)
    BY DEF TypeInv, TypeOK, TraceInv
  <2>2. CASE ids = LastOf(file, t)
    BY <2>1, <2>2, LastOfAll
  <2>3. CASE ids = LastOf(rows, t)
    <3>1. \A a \in Threads : Entry(run[a]) # file[i]
      BY DEF Entry
    <3>2. CASE file[i].id \in unlisted
      BY <3>2
    <3>3. ASSUME NEW j \in DOMAIN rows, rows[j] = file[i]
          PROVE  file[i].id \in ids
      <4>1. rows[j].task = t
        BY <3>3
      <4>2. rows[j].id \in LastOf(rows, t)
        BY <2>1, <2>3, <4>1, LastOfAll
      <4>3. QED
        BY <2>3, <3>3, <4>2
    <3>4. QED
      BY <3>1, <3>2, <3>3 DEF TraceInv
  <2>4. QED
    BY <2>2, <2>3 DEF Shown
<1>2. QED
  BY TypeInit, TypeNext, TraceInit, TraceNext, <1>1, PTL DEF Spec
=============================================================================
