------------------------- MODULE YunxiaoCloseProofs -------------------------
(* Theorems about YunxiaoClose, for any tree, any number of attempts and     *)
(* whatever goes wrong with their requests.                                  *)
EXTENDS YunxiaoClose, TLAPS

-----------------------------------------------------------------------------
(* Types. *)

\* The variables by one step of one attempt.
LEMMA RunType ==
    ASSUME TypeOK, NEW a \in Attempts, NEW r \in Runs, run' = [run EXCEPT ![a] = r]
    PROVE  /\ run' \in [Attempts -> Runs]
           /\ run'[a] = r
           /\ \A s \in Attempts \ {a} : run'[s] = run[s]
BY DEF TypeOK

\* What a step adds to the oddities is one.
LEMMA OdditiesType ==
    ASSUME TypeOK, UNCHANGED oddities \/ (\E s : Heard(s))
    PROVE  oddities' \subseteq {"overlap", "blank"}
BY DEF TypeOK, Heard

LEMMA StopsType ==
    ASSUME TypeOK, NEW a \in Attempts, Stops(a)
    PROVE  /\ run' \in [Attempts -> Runs]
           /\ broken' \in [Workitems \cup {None} -> Nat]
           /\ \/ run'[a] = [run[a] EXCEPT !.pc = "failed"]
              \/ run'[a] = Idle
           /\ \A s \in Attempts \ {a} : run'[s] = run[s]
<1>1. run[a] \in Runs
  BY DEF TypeOK
<1>2. Idle \in Runs /\ [run[a] EXCEPT !.pc = "failed"] \in Runs
  BY <1>1 DEF Runs, Idle, Pcs
<1>3. run' = [run EXCEPT ![a] = [run[a] EXCEPT !.pc = "failed"]]
      \/ run' = [run EXCEPT ![a] = Idle]
  BY DEF Stops
<1>4. /\ run' \in [Attempts -> Runs]
      /\ run'[a] \in {[run[a] EXCEPT !.pc = "failed"], Idle}
      /\ \A s \in Attempts \ {a} : run'[s] = run[s]
  BY <1>2, <1>3, RunType
<1>5. run[a].item \in Workitems \cup {None}
  BY <1>1 DEF Runs
<1>6. broken' \in [Workitems \cup {None} -> Nat]
  BY <1>5 DEF Stops, TypeOK
<1>7. QED
  BY <1>4, <1>6

\* Completing a task completes it, leaves no other task, and reopens nothing.
LEMMA CompletedType ==
    ASSUME TypeOK, NEW t \in Tasks, NEW st \in Completed(t)
    PROVE  /\ st \in [Workitems -> {"open", "done"}]
           /\ st[t] = "done"
           /\ \A u \in Tasks \ {t} : st[u] = status[u]
<1>1. CASE st = [status EXCEPT ![t] = "done"]
  BY <1>1 DEF TypeOK, Workitems
<1>2. ASSUME NEW d \in {Parent[t]} \ {None},
             st = [status EXCEPT ![t] = "done", ![d] = "done"]
      PROVE  /\ st \in [Workitems -> {"open", "done"}]
             /\ st[t] = "done"
             /\ \A u \in Tasks \ {t} : st[u] = status[u]
  <2>1. d \in Demands
    BY ParentIsDemand
  <2>2. QED
    BY <1>2, <2>1, ItemsAreDisjoint DEF TypeOK, Workitems
<1>3. QED
  BY <1>1, <1>2 DEF Completed

LEMMA ReopenedType ==
    ASSUME TypeOK, NEW d \in Demands, NEW st \in Reopened(d)
    PROVE  /\ st \in [Workitems -> {"open", "done"}]
           /\ \A u \in Tasks : st[u] = status[u]
BY ItemsAreDisjoint DEF Reopened, TypeOK, Workitems
\* What the variables other than the attempts have.
RemoteType ==
    /\ phase \in Phases
    /\ status \in [Workitems -> {"open", "done"}]
    /\ comments \in [Workitems -> Nat]
    /\ calls \in Nat
    /\ before \in [Workitems -> {"open", "done"}]
    /\ referenced \subseteq Tasks
    /\ broken \in [Workitems \cup {None} -> Nat]
    /\ unread \subseteq Tasks
    /\ reported \subseteq Tasks
    /\ oddities \subseteq {"overlap", "blank"}

-----------------------------------------------------------------------------
(* One attempt's step leaves what the others know. *)

\* Nothing the attempts rely on is ever taken back.
Grows == /\ \A t \in Tasks : status[t] = "done" => status'[t] = "done"
         /\ \A w \in Workitems : comments[w] > 0 => comments'[w] > 0
         /\ referenced \subseteq referenced'
         /\ unread \subseteq unread'

LEMMA OthersKnow ==
    ASSUME TypeOK, Grows, NEW s \in Attempts, AttemptKnows(s), run'[s] = run[s]
    PROVE  AttemptKnows(s)'
<1> DEFINE r == run[s]
<1>1. r \in Runs
  BY DEF TypeOK
<1>2. r.plan \subseteq Tasks /\ r.item \in Workitems \cup {None}
  BY <1>1 DEF Runs
<1>3. r.plan \subseteq referenced'
  BY DEF AttemptKnows, Grows
<1>4. ASSUME r.pc \in {"update", "verify"} PROVE comments'[r.item] > 0
  <2>1. r.item \in r.plan /\ comments[r.item] > 0
    BY <1>4 DEF AttemptKnows
  <2>2. QED
    BY <2>1, <1>2 DEF Grows, Workitems
<1>5. ASSUME r.pc \notin {"idle", "failed"},
             NEW t \in r.plan \ (r.todo \cup unread')
      PROVE  \/ status'[t] = "done"
             \/ t = r.item /\ r.pc \in {"comment", "update", "verify"}
  <2>1. t \in Tasks /\ t \in r.plan \ (r.todo \cup unread)
    BY <1>5, <1>2 DEF Grows
  <2>2. QED
    BY <1>5, <2>1 DEF AttemptKnows, Grows
<1>6. run'[s] = r
  OBVIOUS
<1>7. QED
  BY <1>3, <1>4, <1>5, <1>6 DEF AttemptKnows

LEMMA StepKeeps ==
    ASSUME TypeOK, ClosingInv, Grows, NEW a \in Attempts, AttemptKnows(a)',
           \A s \in Attempts \ {a} : run'[s] = run[s],
           OnlyReferencedChange', WritebackBeforeDone', ClosedMeansDone'
    PROVE  ClosingInv'
<1>1. ASSUME NEW s \in Attempts \ {a} PROVE AttemptKnows(s)'
  BY <1>1, OthersKnow DEF ClosingInv
<1>2. QED
  BY <1>1 DEF ClosingInv

\* A step that changes neither Yunxiao nor the ledger.
LEMMA LocalStep ==
    ASSUME ClosingInv, UNCHANGED <<remote, ledger>>, unread \subseteq unread'
    PROVE  Grows /\ OnlyReferencedChange' /\ WritebackBeforeDone' /\ ClosedMeansDone'
BY DEF ClosingInv, remote, ledger, Grows, OnlyReferencedChange, WritebackBeforeDone,
       ClosedMeansDone

\* An attempt that ends knows nothing of the work items any more.
LEMMA EndedKnows ==
    ASSUME NEW a \in Attempts, AttemptKnows(a), referenced \subseteq referenced',
           \/ run'[a] = [run[a] EXCEPT !.pc = "failed"]
           \/ run'[a] = Idle,
           run[a] \in Runs
    PROVE  AttemptKnows(a)'
<1>1. CASE run'[a] = Idle
  BY <1>1 DEF AttemptKnows, Idle
<1>2. CASE run'[a] = [run[a] EXCEPT !.pc = "failed"]
  <2>1. /\ run'[a].pc = "failed"
        /\ run'[a].plan = run[a].plan
        /\ run'[a].todo = run[a].todo
    BY <1>2 DEF Runs
  <2>2. QED
    BY <2>1 DEF AttemptKnows
<1>3. QED
  BY <1>1, <1>2

\* An attempt that stops while Yunxiao changes or not.
LEMMA StopStep ==
    ASSUME TypeOK, ClosingInv, NEW a \in Attempts, Stops(a), Grows, RemoteType',
           OnlyReferencedChange', WritebackBeforeDone', ClosedMeansDone'
    PROVE  TypeOK' /\ ClosingInv'
<1>1. /\ run' \in [Attempts -> Runs]
      /\ \/ run'[a] = [run[a] EXCEPT !.pc = "failed"]
         \/ run'[a] = Idle
      /\ \A s \in Attempts \ {a} : run'[s] = run[s]
  BY StopsType
<1>2. run[a] \in Runs /\ AttemptKnows(a)
  BY DEF TypeOK, ClosingInv
<1>3. AttemptKnows(a)'
  BY <1>1, <1>2, EndedKnows DEF Grows
<1>4. ClosingInv'
  BY <1>1, <1>3, StepKeeps
<1>5. TypeOK'
  BY <1>1 DEF TypeOK, RemoteType
<1>6. QED
  BY <1>4, <1>5

\* An attempt that goes on.
LEMMA GoOnStep ==
    ASSUME TypeOK, ClosingInv, NEW a \in Attempts, NEW r \in Runs,
           run' = [run EXCEPT ![a] = r], Grows, RemoteType',
           AttemptKnows(a)', OnlyReferencedChange', WritebackBeforeDone', ClosedMeansDone'
    PROVE  TypeOK' /\ ClosingInv'
<1>1. /\ run' \in [Attempts -> Runs]
      /\ \A s \in Attempts \ {a} : run'[s] = run[s]
  BY RunType
<1>2. ClosingInv'
  BY <1>1, StepKeeps
<1>3. QED
  BY <1>1, <1>2 DEF TypeOK, RemoteType
-----------------------------------------------------------------------------
(* The steps, one lemma each. *)

\* What an attempt starts its step from.
LEMMA Before ==
    ASSUME TypeOK, ClosingInv, NEW a \in Attempts
    PROVE  run[a] \in Runs /\ AttemptKnows(a)
BY DEF TypeOK, ClosingInv

LEMMA BeginStep ==
    ASSUME TypeOK, ClosingInv, NEW a \in Attempts, Begin(a)
    PROVE  TypeOK' /\ ClosingInv'
<1>1. PICK refs \in SUBSET Workitems, pc \in {"snapshot", "failed"} :
          /\ run' = [run EXCEPT ![a] =
                       [pc |-> pc, plan |-> Matched(refs), todo |-> Matched(refs),
                        tree |-> Demands, open |-> {}, item |-> None]]
          /\ referenced' = referenced \cup (refs \cap Tasks)
  BY DEF Begin
<1> DEFINE r == [pc |-> pc, plan |-> Matched(refs), todo |-> Matched(refs),
                 tree |-> Demands, open |-> {}, item |-> None]
<1>2. r \in Runs
  BY DEF Runs, Pcs, Matched
<1>3. run'[a] = r
  BY <1>1, <1>2, RunType
<1>4. AttemptKnows(a)'
  <2>1. Matched(refs) \subseteq referenced'
    BY <1>1 DEF Matched
  <2>2. QED
    BY <1>3, <2>1 DEF AttemptKnows
<1>5. Grows
  BY <1>1 DEF Begin, Grows, remote
<1>6. RemoteType'
  BY <1>1 DEF Begin, TypeOK, RemoteType, remote
<1>7. OnlyReferencedChange' /\ WritebackBeforeDone' /\ ClosedMeansDone'
  BY <1>1 DEF Begin, ClosingInv, OnlyReferencedChange, WritebackBeforeDone,
              ClosedMeansDone, remote
<1>8. QED
  BY <1>1, <1>2, <1>4, <1>5, <1>6, <1>7, GoOnStep

\* A step that asks and decides, and changes nothing outside.
LEMMA LocalType ==
    ASSUME TypeOK, UNCHANGED <<remote, ledger>>, unread' \subseteq Tasks,
           broken' \in [Workitems \cup {None} -> Nat],
           UNCHANGED oddities \/ (\E s : Heard(s))
    PROVE  RemoteType'
BY OdditiesType DEF TypeOK, RemoteType, remote, ledger

LEMMA LocalStop ==
    ASSUME TypeOK, ClosingInv, NEW a \in Attempts, Stops(a),
           UNCHANGED <<remote, ledger, unread>>
    PROVE  TypeOK' /\ ClosingInv'
<1>1. broken' \in [Workitems \cup {None} -> Nat]
  BY StopsType
<1>2. unread' \subseteq Tasks /\ unread \subseteq unread'
  BY DEF TypeOK
<1>3. UNCHANGED oddities
  BY DEF Stops
<1>4. QED
  BY <1>1, <1>2, <1>3, LocalType, LocalStep, StopStep

LEMMA LocalGoOn ==
    ASSUME TypeOK, ClosingInv, NEW a \in Attempts, NEW r \in Runs,
           run' = [run EXCEPT ![a] = r], UNCHANGED <<remote, ledger>>,
           unread \subseteq unread', unread' \subseteq Tasks,
           broken' \in [Workitems \cup {None} -> Nat],
           UNCHANGED oddities \/ (\E s : Heard(s)), AttemptKnows(a)'
    PROVE  TypeOK' /\ ClosingInv'
<1>1. RemoteType'
  BY LocalType
<1>2. Grows /\ OnlyReferencedChange' /\ WritebackBeforeDone' /\ ClosedMeansDone'
  BY LocalStep
<1>3. QED
  BY <1>1, <1>2, GoOnStep

LEMMA SnapshotStep ==
    ASSUME TypeOK, ClosingInv, NEW a \in Attempts, SnapshotDemand(a)
    PROVE  TypeOK' /\ ClosingInv'
<1> DEFINE r == run[a]
<1>1. r \in Runs /\ AttemptKnows(a) /\ r.pc = "snapshot"
  BY Before DEF SnapshotDemand
<1>2. /\ UNCHANGED <<remote, ledger, unread>> /\ unread' \subseteq Tasks
      /\ UNCHANGED oddities \/ (\E s : Heard(s))
  BY DEF SnapshotDemand, TypeOK, Stops
<1>3. ASSUME NEW n \in Runs, run' = [run EXCEPT ![a] = n], UNCHANGED broken,
             n.pc \in {"snapshot", "read"}, n.plan = r.plan, n.todo = r.todo
      PROVE  TypeOK' /\ ClosingInv'
  <2>1. run'[a] = n
    BY <1>3, RunType
  <2>2. AttemptKnows(a)'
    BY <1>1, <1>2, <1>3, <2>1 DEF AttemptKnows, remote, ledger
  <2>3. broken' \in [Workitems \cup {None} -> Nat]
    BY <1>3 DEF TypeOK
  <2>4. QED
    BY <1>2, <1>3, <2>2, <2>3, LocalGoOn
<1>4. CASE Stops(a)
  BY <1>2, <1>4, LocalStop
<1>5. ASSUME NEW d \in r.tree, NEW s \in Said(d),
             run' = [run EXCEPT ![a].tree = @ \ {d},
                                ![a].open = @ \cup (IF s = "open" THEN {d} ELSE {})],
             UNCHANGED broken
      PROVE  TypeOK' /\ ClosingInv'
  <2> DEFINE n == [r EXCEPT !.tree = @ \ {d},
                            !.open = @ \cup (IF s = "open" THEN {d} ELSE {})]
  <2>1. n \in Runs /\ n.pc = "snapshot" /\ n.plan = r.plan /\ n.todo = r.todo
    BY <1>1 DEF Runs
  <2>2. run' = [run EXCEPT ![a] = n]
    BY <1>5 DEF TypeOK
  <2>3. QED
    BY <1>3, <1>5, <2>1, <2>2
<1>6. CASE run' = [run EXCEPT ![a].pc = "read"] /\ UNCHANGED broken
  <2> DEFINE n == [r EXCEPT !.pc = "read"]
  <2>1. n \in Runs /\ n.pc = "read" /\ n.plan = r.plan /\ n.todo = r.todo
    BY <1>1 DEF Runs, Pcs
  <2>2. run' = [run EXCEPT ![a] = n]
    BY <1>6 DEF TypeOK
  <2>3. QED
    BY <1>3, <1>6, <2>1, <2>2
<1>7. QED
  BY <1>4, <1>5, <1>6 DEF SnapshotDemand
LEMMA ReadStep ==
    ASSUME TypeOK, ClosingInv, NEW a \in Attempts, ReadTask(a)
    PROVE  TypeOK' /\ ClosingInv'
<1> DEFINE r == run[a]
<1>1. r \in Runs /\ AttemptKnows(a) /\ r.pc = "read"
  BY Before DEF ReadTask
<1>2. /\ UNCHANGED <<remote, ledger, unread>> /\ unread' \subseteq Tasks
      /\ UNCHANGED oddities \/ (\E s : Heard(s))
  BY DEF ReadTask, TypeOK, Stops
<1>3. ASSUME NEW n \in Runs, run' = [run EXCEPT ![a] = n], UNCHANGED broken,
             AttemptKnows(a)'
      PROVE  TypeOK' /\ ClosingInv'
  BY <1>2, <1>3, LocalGoOn DEF TypeOK
<1>4. CASE Stops(a)
  BY <1>2, <1>4, LocalStop
<1>5. ASSUME NEW t \in r.todo, "done" \in Said(t),
             run' = [run EXCEPT ![a].todo = @ \ {t}], UNCHANGED broken
      PROVE  TypeOK' /\ ClosingInv'
  <2> DEFINE n == [r EXCEPT !.todo = @ \ {t}]
  <2>1. /\ n \in Runs /\ n.pc = "read" /\ n.plan = r.plan
        /\ n.todo = r.todo \ {t} /\ n.item = r.item
    BY <1>1 DEF Runs
  <2>2. run' = [run EXCEPT ![a] = n] /\ run'[a] = n
    BY <1>5 DEF TypeOK
  <2>3. status[t] = "done"
    BY <1>5 DEF Said
  <2>4. AttemptKnows(a)'
    BY <1>1, <1>2, <2>1, <2>2, <2>3 DEF AttemptKnows, remote, ledger
  <2>5. QED
    BY <1>3, <1>5, <2>1, <2>2, <2>4
<1>6. ASSUME NEW t \in r.todo, UNCHANGED broken,
             run' = [run EXCEPT ![a].todo = @ \ {t}, ![a].item = t, ![a].pc = "comment"]
      PROVE  TypeOK' /\ ClosingInv'
  <2> DEFINE n == [r EXCEPT !.todo = @ \ {t}, !.item = t, !.pc = "comment"]
  <2>1. /\ n \in Runs /\ n.pc = "comment" /\ n.plan = r.plan
        /\ n.todo = r.todo \ {t} /\ n.item = t
    BY <1>1 DEF Runs, Pcs, Workitems
  <2>2. run' = [run EXCEPT ![a] = n] /\ run'[a] = n
    BY <1>6 DEF TypeOK
  <2>3. AttemptKnows(a)'
    BY <1>1, <1>2, <2>1, <2>2 DEF AttemptKnows, remote, ledger
  <2>4. QED
    BY <1>3, <1>6, <2>1, <2>2, <2>3
<1>7. ASSUME r.todo = {}, UNCHANGED broken,
             run' = [run EXCEPT ![a].pc = "restore", ![a].tree = run[a].open]
      PROVE  TypeOK' /\ ClosingInv'
  <2> DEFINE n == [r EXCEPT !.pc = "restore", !.tree = r.open]
  <2>1. /\ n \in Runs /\ n.pc = "restore" /\ n.plan = r.plan
        /\ n.todo = {} /\ n.item = r.item
    BY <1>1, <1>7 DEF Runs, Pcs
  <2>2. run' = [run EXCEPT ![a] = n] /\ run'[a] = n
    BY <1>7 DEF TypeOK
  <2>3. AttemptKnows(a)'
    BY <1>1, <1>2, <1>7, <2>1, <2>2 DEF AttemptKnows, remote, ledger
  <2>4. QED
    BY <1>3, <1>7, <2>1, <2>2, <2>3
<1>8. QED
  BY <1>4, <1>5, <1>6, <1>7 DEF ReadTask

LEMMA CommentStep ==
    ASSUME TypeOK, ClosingInv, NEW a \in Attempts, CommentTask(a)
    PROVE  TypeOK' /\ ClosingInv'
<1> DEFINE r == run[a]
           once == [comments EXCEPT ![r.item] = @ + 1]
<1>1. r \in Runs /\ AttemptKnows(a) /\ r.pc = "comment"
  BY Before DEF CommentTask
<1>2. r.item \in r.plan /\ r.item \in Tasks /\ r.item \in referenced
  BY <1>1 DEF AttemptKnows, Runs
<1>3. UNCHANGED <<status, ledger, unread, oddities>> /\ comments' \in {comments, once}
  BY DEF CommentTask, Stops
<1>4. /\ comments' \in [Workitems -> Nat]
      /\ \A w \in Workitems : comments[w] > 0 => comments'[w] > 0
      /\ \A w \in Workitems \ {r.item} : comments'[w] = comments[w]
  BY <1>2, <1>3 DEF TypeOK
<1>5. Grows
  BY <1>3, <1>4 DEF Grows, ledger
<1>6. OnlyReferencedChange' /\ WritebackBeforeDone' /\ ClosedMeansDone'
  <2>1. OnlyReferencedChange'
    BY <1>2, <1>3, <1>4 DEF ClosingInv, OnlyReferencedChange, ledger
  <2>2. WritebackBeforeDone'
    BY <1>3, <1>4 DEF ClosingInv, WritebackBeforeDone, ledger, Workitems
  <2>3. ClosedMeansDone'
    BY <1>3 DEF ClosingInv, ClosedMeansDone, ledger
  <2>4. QED
    BY <2>1, <2>2, <2>3
<1>7. ASSUME broken' \in [Workitems \cup {None} -> Nat] PROVE RemoteType'
  BY <1>3, <1>4, <1>7 DEF TypeOK, RemoteType, ledger
<1>8. CASE Stops(a)
  BY <1>5, <1>6, <1>7, <1>8, StopsType, StopStep
<1>9. CASE /\ comments' = once
           /\ run' = [run EXCEPT ![a].pc = "update"]
           /\ UNCHANGED broken
  <2> DEFINE n == [r EXCEPT !.pc = "update"]
  <2>1. /\ n \in Runs /\ n.pc = "update" /\ n.plan = r.plan
        /\ n.todo = r.todo /\ n.item = r.item
    BY <1>1 DEF Runs, Pcs
  <2>2. run' = [run EXCEPT ![a] = n] /\ run'[a] = n
    BY <1>9 DEF TypeOK
  <2>3. comments'[r.item] > 0
    BY <1>2, <1>9 DEF TypeOK, Workitems
  <2>4. AttemptKnows(a)'
    BY <1>1, <1>2, <1>3, <2>1, <2>2, <2>3 DEF AttemptKnows, ledger
  <2>5. RemoteType'
    BY <1>7, <1>9 DEF TypeOK
  <2>6. QED
    BY <1>5, <1>6, <2>1, <2>2, <2>4, <2>5, GoOnStep
<1>10. QED
  BY <1>8, <1>9 DEF CommentTask

\* The tasks stay what they were but for one, which may be done now.
LEMMA StatusChange ==
    ASSUME TypeOK, ClosingInv, NEW t \in Tasks, t \in referenced, comments[t] > 0,
           UNCHANGED <<comments, ledger, unread>>,
           status' \in [Workitems -> {"open", "done"}],
           \A u \in Tasks : status'[u] # status[u] => u = t /\ status'[u] = "done"
    PROVE  Grows /\ OnlyReferencedChange' /\ WritebackBeforeDone' /\ ClosedMeansDone'
<1>1. Grows
  BY DEF Grows, ledger
<1>2. OnlyReferencedChange'
  BY DEF ClosingInv, OnlyReferencedChange, ledger
<1>3. WritebackBeforeDone'
  BY DEF ClosingInv, WritebackBeforeDone, ledger
<1>4. ClosedMeansDone'
  BY DEF ClosingInv, ClosedMeansDone, ledger, TypeOK
<1>5. QED
  BY <1>1, <1>2, <1>3, <1>4

LEMMA UpdateStep ==
    ASSUME TypeOK, ClosingInv, NEW a \in Attempts, UpdateTask(a)
    PROVE  TypeOK' /\ ClosingInv'
<1> DEFINE r == run[a]
<1>1. r \in Runs /\ AttemptKnows(a) /\ r.pc = "update"
  BY Before DEF UpdateTask
<1>2. r.item \in r.plan /\ r.item \in Tasks /\ r.item \in referenced
      /\ comments[r.item] > 0
  BY <1>1 DEF AttemptKnows, Runs
<1>3. UNCHANGED <<comments, ledger, unread, oddities>>
      /\ status' \in {status} \cup Completed(r.item)
  BY DEF UpdateTask, Accepted, Stops
<1>4. /\ status' \in [Workitems -> {"open", "done"}]
      /\ \A u \in Tasks : status'[u] # status[u] => u = r.item /\ status'[u] = "done"
  BY <1>2, <1>3, CompletedType DEF TypeOK
<1>5. Grows /\ OnlyReferencedChange' /\ WritebackBeforeDone' /\ ClosedMeansDone'
  BY <1>2, <1>3, <1>4, StatusChange
<1>6. ASSUME broken' \in [Workitems \cup {None} -> Nat] PROVE RemoteType'
  BY <1>3, <1>4, <1>6 DEF TypeOK, RemoteType, ledger
<1>7. CASE Stops(a)
  BY <1>5, <1>6, <1>7, StopsType, StopStep
<1>8. CASE run' = [run EXCEPT ![a].pc = "verify"] /\ UNCHANGED broken
  <2> DEFINE n == [r EXCEPT !.pc = "verify"]
  <2>1. /\ n \in Runs /\ n.pc = "verify" /\ n.plan = r.plan
        /\ n.todo = r.todo /\ n.item = r.item
    BY <1>1 DEF Runs, Pcs
  <2>2. run' = [run EXCEPT ![a] = n] /\ run'[a] = n
    BY <1>8 DEF TypeOK
  <2>3. AttemptKnows(a)'
    <3>1. \A t \in r.plan \ (r.todo \cup unread) :
             status'[t] = "done" \/ t = r.item
      BY <1>1, <1>5 DEF AttemptKnows, Grows, Runs
    <3>2. QED
      BY <1>1, <1>2, <1>3, <2>1, <2>2, <3>1 DEF AttemptKnows, ledger
  <2>4. RemoteType'
    BY <1>6, <1>8 DEF TypeOK
  <2>5. QED
    BY <1>5, <2>1, <2>2, <2>3, <2>4, GoOnStep
<1>9. QED
  BY <1>7, <1>8 DEF UpdateTask
LEMMA VerifyStep ==
    ASSUME TypeOK, ClosingInv, NEW a \in Attempts, VerifyTask(a)
    PROVE  TypeOK' /\ ClosingInv'
<1> DEFINE r == run[a]
<1>1. r \in Runs /\ AttemptKnows(a) /\ r.pc = "verify"
  BY Before DEF VerifyTask
<1>2. r.item \in r.plan /\ r.item \in Tasks
  BY <1>1 DEF AttemptKnows, Runs
<1>3. UNCHANGED <<remote, ledger>> /\ (UNCHANGED oddities \/ (\E s : Heard(s)))
  BY DEF VerifyTask, Stops
<1>4. CASE Stops(a) /\ UNCHANGED unread
  BY <1>3, <1>4, LocalStop
<1>5. ASSUME NEW s \in Said(r.item), s # "open",
             run' = [run EXCEPT ![a].pc = "read", ![a].item = None],
             unread' = IF s = "none" THEN unread \cup {r.item} ELSE unread,
             UNCHANGED broken
      PROVE  TypeOK' /\ ClosingInv'
  <2> DEFINE n == [r EXCEPT !.pc = "read", !.item = None]
  <2>1. /\ n \in Runs /\ n.pc = "read" /\ n.plan = r.plan
        /\ n.todo = r.todo /\ n.item = None
    BY <1>1 DEF Runs, Pcs
  <2>2. run' = [run EXCEPT ![a] = n] /\ run'[a] = n
    BY <1>5 DEF TypeOK
  <2>3. unread \subseteq unread' /\ unread' \subseteq Tasks
        /\ broken' \in [Workitems \cup {None} -> Nat]
    BY <1>2, <1>5 DEF TypeOK
  <2>4. status[r.item] = "done" \/ r.item \in unread'
    <3>1. status[r.item] \in {"open", "done"}
      BY <1>2 DEF TypeOK, Workitems
    <3>2. s = "none" \/ s = status[r.item]
      BY <1>5 DEF Said
    <3>3. QED
      BY <1>5, <3>1, <3>2
  <2>5. AttemptKnows(a)'
    <3>1. \A t \in r.plan \ (r.todo \cup unread') : status'[t] = "done"
      BY <1>1, <1>3, <2>3, <2>4 DEF AttemptKnows, remote
    <3>2. QED
      BY <1>1, <1>3, <2>1, <2>2, <3>1 DEF AttemptKnows, ledger
  <2>6. QED
    BY <1>3, <2>1, <2>2, <2>3, <2>5, LocalGoOn
<1>6. CASE /\ run' = [run EXCEPT ![a].pc = "failed"]
           /\ broken' = [broken EXCEPT ![run[a].item] = @ + 1]
           /\ UNCHANGED unread
  <2> DEFINE n == [r EXCEPT !.pc = "failed"]
  <2>1. n \in Runs
    BY <1>1 DEF Runs, Pcs
  <2>2. run' = [run EXCEPT ![a] = n] /\ run'[a] = n
    BY <1>6 DEF TypeOK
  <2>3. AttemptKnows(a)'
    BY <1>1, <1>3, <2>2, EndedKnows DEF ledger
  <2>4. unread' \subseteq Tasks /\ broken' \in [Workitems \cup {None} -> Nat]
    BY <1>2, <1>6 DEF TypeOK, Workitems
  <2>5. QED
    BY <1>3, <1>6, <2>1, <2>2, <2>3, <2>4, LocalGoOn
<1>7. QED
  BY <1>4, <1>5, <1>6 DEF VerifyTask

LEMMA RestoreStep ==
    ASSUME TypeOK, ClosingInv, NEW a \in Attempts, RestoreDemand(a)
    PROVE  TypeOK' /\ ClosingInv'
<1> DEFINE r == run[a]
<1>1. r \in Runs /\ AttemptKnows(a) /\ r.pc = "restore"
  BY Before DEF RestoreDemand
<1>2. /\ UNCHANGED <<remote, ledger, unread>> /\ unread' \subseteq Tasks
      /\ UNCHANGED oddities \/ (\E s : Heard(s))
  BY DEF RestoreDemand, TypeOK, Stops
<1>3. ASSUME NEW n \in Runs, run' = [run EXCEPT ![a] = n], UNCHANGED broken,
             n.pc \in {"restore", "reopen", "closed"}, n.pc = "reopen" => n.item \in Demands,
             n.plan = r.plan, n.todo = r.todo
      PROVE  TypeOK' /\ ClosingInv'
  <2>1. run'[a] = n
    BY <1>3, RunType
  <2>2. AttemptKnows(a)'
    BY <1>1, <1>2, <1>3, <2>1 DEF AttemptKnows, remote, ledger
  <2>3. QED
    BY <1>2, <1>3, <2>2, LocalGoOn DEF TypeOK
<1>4. CASE Stops(a)
  BY <1>2, <1>4, LocalStop
<1>5. ASSUME NEW d \in r.tree, UNCHANGED broken,
             run' = [run EXCEPT ![a].tree = @ \ {d}, ![a].item = d, ![a].pc = "reopen"]
      PROVE  TypeOK' /\ ClosingInv'
  <2> DEFINE n == [r EXCEPT !.tree = @ \ {d}, !.item = d, !.pc = "reopen"]
  <2>1. /\ n \in Runs /\ n.pc = "reopen" /\ n.item \in Demands
        /\ n.plan = r.plan /\ n.todo = r.todo
    BY <1>1 DEF Runs, Pcs, Workitems
  <2>2. run' = [run EXCEPT ![a] = n]
    BY <1>5 DEF TypeOK
  <2>3. QED
    BY <1>3, <1>5, <2>1, <2>2
<1>6. ASSUME NEW d \in r.tree, UNCHANGED broken,
             run' = [run EXCEPT ![a].tree = @ \ {d}]
      PROVE  TypeOK' /\ ClosingInv'
  <2> DEFINE n == [r EXCEPT !.tree = @ \ {d}]
  <2>1. n \in Runs /\ n.pc = "restore" /\ n.plan = r.plan /\ n.todo = r.todo
    BY <1>1 DEF Runs
  <2>2. run' = [run EXCEPT ![a] = n]
    BY <1>6 DEF TypeOK
  <2>3. QED
    BY <1>3, <1>6, <2>1, <2>2
<1>7. CASE run' = [run EXCEPT ![a].pc = "closed"] /\ UNCHANGED broken
  <2> DEFINE n == [r EXCEPT !.pc = "closed"]
  <2>1. n \in Runs /\ n.pc = "closed" /\ n.plan = r.plan /\ n.todo = r.todo
    BY <1>1 DEF Runs, Pcs
  <2>2. run' = [run EXCEPT ![a] = n]
    BY <1>7 DEF TypeOK
  <2>3. QED
    BY <1>3, <1>7, <2>1, <2>2
<1>8. QED
  BY <1>4, <1>5, <1>6, <1>7 DEF RestoreDemand

LEMMA ReopenStep ==
    ASSUME TypeOK, ClosingInv, NEW a \in Attempts, ReopenDemand(a)
    PROVE  TypeOK' /\ ClosingInv'
<1> DEFINE r == run[a]
<1>1. r \in Runs /\ AttemptKnows(a) /\ r.pc = "reopen" /\ r.item \in Demands
  BY Before DEF ReopenDemand, AttemptKnows
<1>2. UNCHANGED <<comments, ledger, unread, oddities>>
      /\ status' \in {status} \cup Reopened(r.item)
  BY DEF ReopenDemand, Accepted, Stops
<1>3. /\ status' \in [Workitems -> {"open", "done"}]
      /\ \A u \in Tasks : status'[u] = status[u]
  BY <1>1, <1>2, ReopenedType DEF TypeOK
<1>4. Grows
  BY <1>2, <1>3 DEF Grows, ledger
<1>5. OnlyReferencedChange' /\ WritebackBeforeDone' /\ ClosedMeansDone'
  BY <1>2, <1>3 DEF ClosingInv, OnlyReferencedChange, WritebackBeforeDone,
                    ClosedMeansDone, ledger, TypeOK
<1>6. ASSUME broken' \in [Workitems \cup {None} -> Nat] PROVE RemoteType'
  BY <1>2, <1>3, <1>6 DEF TypeOK, RemoteType, ledger
<1>7. CASE Stops(a)
  BY <1>4, <1>5, <1>6, <1>7, StopsType, StopStep
<1>8. CASE run' = [run EXCEPT ![a].pc = "check"] /\ UNCHANGED broken
  <2> DEFINE n == [r EXCEPT !.pc = "check"]
  <2>1. /\ n \in Runs /\ n.pc = "check" /\ n.plan = r.plan
        /\ n.todo = r.todo /\ n.item = r.item
    BY <1>1 DEF Runs, Pcs
  <2>2. run' = [run EXCEPT ![a] = n] /\ run'[a] = n
    BY <1>8 DEF TypeOK
  <2>3. \A t \in r.plan \ (r.todo \cup unread') : status'[t] = "done"
    BY <1>1, <1>2, <1>3 DEF AttemptKnows, Runs
  <2>4. AttemptKnows(a)'
    BY <1>1, <1>2, <2>1, <2>2, <2>3 DEF AttemptKnows, ledger
  <2>5. RemoteType'
    BY <1>6, <1>8 DEF TypeOK
  <2>6. QED
    BY <1>4, <1>5, <2>1, <2>2, <2>4, <2>5, GoOnStep
<1>9. QED
  BY <1>7, <1>8 DEF ReopenDemand

LEMMA CheckStep ==
    ASSUME TypeOK, ClosingInv, NEW a \in Attempts, CheckDemand(a)
    PROVE  TypeOK' /\ ClosingInv'
<1> DEFINE r == run[a]
<1>1. r \in Runs /\ AttemptKnows(a) /\ r.pc = "check"
  BY Before DEF CheckDemand
<1>2. /\ UNCHANGED <<remote, ledger, unread>> /\ unread' \subseteq Tasks
      /\ UNCHANGED oddities \/ (\E s : Heard(s))
  BY DEF CheckDemand, TypeOK, Stops
<1>3. CASE Stops(a)
  BY <1>2, <1>3, LocalStop
<1>4. CASE /\ run' = [run EXCEPT ![a].pc = "restore", ![a].item = None]
           /\ UNCHANGED broken
  <2> DEFINE n == [r EXCEPT !.pc = "restore", !.item = None]
  <2>1. n \in Runs /\ n.pc = "restore" /\ n.plan = r.plan /\ n.todo = r.todo
    BY <1>1 DEF Runs, Pcs
  <2>2. run' = [run EXCEPT ![a] = n] /\ run'[a] = n
    BY <1>4 DEF TypeOK
  <2>3. AttemptKnows(a)'
    BY <1>1, <1>2, <2>1, <2>2 DEF AttemptKnows, remote, ledger
  <2>4. QED
    BY <1>2, <1>4, <2>1, <2>2, <2>3, LocalGoOn DEF TypeOK
<1>5. CASE /\ run' = [run EXCEPT ![a].pc = "failed"]
           /\ broken' = [broken EXCEPT ![run[a].item] = @ + 1]
  <2> DEFINE n == [r EXCEPT !.pc = "failed"]
  <2>1. n \in Runs
    BY <1>1 DEF Runs, Pcs
  <2>2. run' = [run EXCEPT ![a] = n] /\ run'[a] = n
    BY <1>5 DEF TypeOK
  <2>3. AttemptKnows(a)'
    BY <1>1, <1>2, <2>2, EndedKnows DEF ledger
  <2>4. broken' \in [Workitems \cup {None} -> Nat]
    <3>1. r.item \in Workitems
      BY <1>1 DEF AttemptKnows, Workitems
    <3>2. QED
      BY <1>5, <3>1 DEF TypeOK
  <2>5. QED
    BY <1>2, <2>1, <2>2, <2>3, <2>4, LocalGoOn
<1>6. QED
  BY <1>3, <1>4, <1>5 DEF CheckDemand

\* An attempt whose outcome is recorded.
LEMMA RecordStep ==
    ASSUME TypeOK, ClosingInv, NEW a \in Attempts, RecordClosed(a) \/ RecordFailed(a)
    PROVE  TypeOK' /\ ClosingInv'
<1> DEFINE r == run[a]
<1>1. r \in Runs /\ AttemptKnows(a)
  BY Before
<1>2. /\ run' = [run EXCEPT ![a] = Idle]
      /\ UNCHANGED <<remote, calls, before, referenced, broken, unread, oddities>>
  BY DEF RecordClosed, RecordFailed
<1>3. Idle \in Runs
  BY DEF Idle, Runs, Pcs
<1>4. run'[a] = Idle
  BY <1>2, <1>3, RunType
<1>5. AttemptKnows(a)'
  BY <1>1, <1>2, <1>4, EndedKnows
<1>6. Grows /\ OnlyReferencedChange' /\ WritebackBeforeDone'
  BY <1>2 DEF ClosingInv, Grows, OnlyReferencedChange, WritebackBeforeDone, remote
<1>7. RemoteType' /\ ClosedMeansDone'
  <2>1. CASE /\ phase' = "YUNXIAO_TASK_CLOSED" /\ reported' = r.plan /\ r.pc = "closed"
    <3>1. \A t \in r.plan \ unread : status[t] = "done"
      BY <1>1, <2>1 DEF AttemptKnows
    <3>2. QED
      BY <1>1, <1>2, <2>1, <3>1 DEF TypeOK, RemoteType, remote, ClosedMeansDone,
                                    Runs, Phases
  <2>2. CASE /\ phase' \in {phase, "NEEDS_HUMAN"} /\ UNCHANGED reported
    BY <1>2, <2>2 DEF TypeOK, RemoteType, remote, ClosingInv, ClosedMeansDone, Phases
  <2>3. QED
    BY <2>1, <2>2 DEF RecordClosed, RecordFailed
<1>8. QED
  BY <1>2, <1>3, <1>5, <1>6, <1>7, GoOnStep

\* A person, or nobody.
LEMMA OtherStep ==
    ASSUME TypeOK, ClosingInv, ResolveWorkflow \/ UNCHANGED vars
    PROVE  TypeOK' /\ ClosingInv'
<1>1. /\ phase' \in {phase, "APIFOX_SYNCED"}
      /\ UNCHANGED <<remote, run, calls, before, referenced, reported, broken, unread,
                     oddities>>
  BY DEF ResolveWorkflow, vars, ledger
<1>2. TypeOK'
  BY <1>1 DEF TypeOK, remote, Phases
<1>3. Grows /\ OnlyReferencedChange' /\ WritebackBeforeDone' /\ ClosedMeansDone'
  BY <1>1 DEF Grows, ClosingInv, OnlyReferencedChange, WritebackBeforeDone,
              ClosedMeansDone, remote
<1>4. \A s \in Attempts : AttemptKnows(s)'
  BY <1>1, <1>3, OthersKnow DEF ClosingInv
<1>5. QED
  BY <1>2, <1>3, <1>4 DEF ClosingInv

-----------------------------------------------------------------------------
(* The theorems. *)

LEMMA ClosingInit == Init => TypeOK /\ ClosingInv
<1> SUFFICES ASSUME Init PROVE TypeOK /\ ClosingInv
  OBVIOUS
<1>1. Idle \in Runs
  BY DEF Idle, Runs, Pcs
<1>2. TypeOK
  BY <1>1 DEF Init, TypeOK, Phases
<1>3. OnlyReferencedChange /\ WritebackBeforeDone /\ ClosedMeansDone
  BY DEF Init, OnlyReferencedChange, WritebackBeforeDone, ClosedMeansDone, Workitems
<1>4. ASSUME NEW a \in Attempts PROVE AttemptKnows(a)
  BY DEF Init, AttemptKnows, Idle
<1>5. QED
  BY <1>2, <1>3, <1>4 DEF ClosingInv

LEMMA ClosingStep == TypeOK /\ ClosingInv /\ [Next]_vars => TypeOK' /\ ClosingInv'
<1> SUFFICES ASSUME TypeOK, ClosingInv, [Next]_vars PROVE TypeOK' /\ ClosingInv'
  OBVIOUS
<1>1. ASSUME NEW a \in Attempts, Begin(a) \/ Proceed(a)
      PROVE  TypeOK' /\ ClosingInv'
  BY <1>1, BeginStep, SnapshotStep, ReadStep, CommentStep, UpdateStep, VerifyStep,
     RestoreStep, ReopenStep, CheckStep, RecordStep DEF Proceed
<1>2. QED
  BY <1>1, OtherStep DEF Next

\* The type invariant, and what makes up the inductive one: the attempts of
\* close_yunxiao_workitem never take back what another relies on, however they
\* overlap, fail and repeat.
THEOREM ClosingIsSound == Spec => [](TypeOK /\ ClosingInv)
<1>1. Init => TypeOK /\ ClosingInv
  BY ClosingInit
<1>2. TypeOK /\ ClosingInv /\ [Next]_vars => (TypeOK /\ ClosingInv)'
  BY ClosingStep
<1>3. QED
  BY <1>1, <1>2, PTL DEF Spec

\* The references are a white list: no other task changes, and nothing but a
\* referenced task gets a comment (_match_requirement_tree_task_ids).
THEOREM WhiteList == Spec => []OnlyReferencedChange
<1>1. TypeOK /\ ClosingInv => OnlyReferencedChange
  BY DEF ClosingInv
<1>2. QED
  BY <1>1, ClosingIsSound, PTL

\* No task is closed without the record of its delivery.
THEOREM WritebackComesFirst == Spec => []WritebackBeforeDone
<1>1. TypeOK /\ ClosingInv => WritebackBeforeDone
  BY DEF ClosingInv
<1>2. QED
  BY <1>1, ClosingIsSound, PTL

\* YUNXIAO_TASK_CLOSED tells the truth about the tasks it was recorded for.
THEOREM ClosedIsTrue == Spec => []ClosedMeansDone
<1>1. TypeOK /\ ClosingInv => ClosedMeansDone
  BY DEF ClosingInv
<1>2. QED
  BY <1>1, ClosingIsSound, PTL
-----------------------------------------------------------------------------
(* The steps of an attempt, by what they do to it and to Yunxiao, as long as *)
(* every answer has a status and the attempts come one at a time.            *)

\* The attempt goes on to pc and keeps what it holds.
Passes(r, n, pc) == n.pc = pc /\ n.item = r.item /\ n.tree = r.tree /\ n.open = r.open

Starts(r, n) ==
    /\ Quiet
    /\ n.pc \in {"snapshot", "failed"} /\ n.tree = Demands /\ n.open = {}

Snapshots(r, n) ==
    /\ r.pc = "snapshot"
    /\ \/ \E d \in r.tree :
             /\ n.pc = "snapshot" /\ n.tree = r.tree \ {d}
             /\ n.open = r.open \cup (IF status[d] = "open" THEN {d} ELSE {})
       \/ r.tree = {} /\ Passes(r, n, "read")

Reads(r, n) ==
    /\ r.pc = "read"
    /\ \/ Passes(r, n, "read")
       \/ /\ n.pc = "comment" /\ n.open = r.open
          /\ n.item \in Tasks /\ status[n.item] = "open"
       \/ n.pc = "restore" /\ n.open = r.open /\ n.tree = r.open

Verifies(r, n) ==
    /\ r.pc = "verify" /\ n.pc = "read" /\ n.open = r.open
    /\ r.item \in Tasks /\ status[r.item] = "done"

Restores(r, n) ==
    /\ r.pc = "restore" /\ n.open = r.open
    /\ \/ \E d \in r.tree : n.pc = "reopen" /\ n.item = d /\ n.tree = r.tree \ {d}
       \/ \E d \in r.tree :
             status[d] = "open" /\ n.pc = "restore" /\ n.tree = r.tree \ {d}
       \/ r.tree = {} /\ n.pc = "closed"

Checks(r, n) ==
    /\ r.pc = "check" /\ n.pc = "restore" /\ n.open = r.open /\ n.tree = r.tree
    /\ r.item \in Demands /\ status[r.item] = "open"

Finishes(r, n) == r.pc \in {"closed", "failed"} /\ n.pc = "idle"

\* A step in which Yunxiao only answers, if that.
Asks(r, n) ==
    /\ UNCHANGED <<status, comments, broken>>
    /\ \/ Starts(r, n) \/ Snapshots(r, n) \/ Reads(r, n) \/ Verifies(r, n)
       \/ Restores(r, n) \/ Checks(r, n) \/ Finishes(r, n)

Comments(r, n) ==
    /\ r.pc = "comment" /\ r.item \in Tasks /\ Passes(r, n, "update")
    /\ comments' = [comments EXCEPT ![r.item] = @ + 1]
    /\ UNCHANGED <<status, broken>>

Updates(r, n) ==
    /\ r.pc = "update" /\ r.item \in Tasks /\ Passes(r, n, "verify")
    /\ status' \in {status} \cup Completed(r.item)
    /\ UNCHANGED <<comments, broken>>

Reopens(r, n) ==
    /\ r.pc = "reopen" /\ r.item \in Demands /\ Passes(r, n, "check")
    /\ status' \in {status} \cup Reopened(r.item)
    /\ UNCHANGED <<comments, broken>>

\* It stops, with or without the change it asked for.
Breaks(r, n) ==
    /\ n.pc \in {"failed", "idle"}
    /\ r.item \in Workitems \cup {None}
    /\ broken' = [broken EXCEPT ![r.item] = @ + 1]
    /\ \/ UNCHANGED <<status, comments>>
       \/ /\ r.pc = "comment" /\ r.item \in Tasks /\ UNCHANGED status
          /\ comments' = [comments EXCEPT ![r.item] = @ + 1]
       \/ /\ r.pc = "update" /\ r.item \in Tasks /\ UNCHANGED comments
          /\ status' \in Completed(r.item)
       \/ /\ r.pc = "reopen" /\ r.item \in Demands /\ UNCHANGED comments
          /\ status' \in Reopened(r.item)

Moves(a, r, n) ==
    /\ r = run[a] /\ n = run'[a]
    /\ \A s \in Attempts \ {a} : run'[s] = run[s]
    /\ r.pc = "idle" => Starts(r, n)
    /\ before' = before
    /\ \/ Asks(r, n) \/ Comments(r, n) \/ Updates(r, n) \/ Reopens(r, n) \/ Breaks(r, n)

\* An answer heard without adding to the oddities is the status.
LEMMA HeardStatus ==
    ASSUME TypeOK, NEW w \in Workitems, NEW s \in Said(w), Heard(s), "blank" \notin oddities'
    PROVE  s = status[w]
BY DEF Said, Heard

\* A record by its new fields.
LEMMA RunChange ==
    ASSUME TypeOK, NEW a \in Attempts, NEW r, r = run[a]
    PROVE  /\ r \in Runs
           /\ \A pc : run' = [run EXCEPT ![a].pc = pc] => Passes(r, run'[a], pc)
           /\ \A s \in Attempts \ {a} : \A v : run' = [run EXCEPT ![a] = v] => run'[s] = run[s]
<1>1. r \in Runs /\ run \in [Attempts -> Runs]
  BY DEF TypeOK
<1>2. ASSUME NEW pc, run' = [run EXCEPT ![a].pc = pc]
      PROVE  Passes(r, run'[a], pc)
  <2>1. run'[a] = [r EXCEPT !.pc = pc]
    BY <1>1, <1>2
  <2>2. QED
    BY <1>1, <2>1 DEF Passes, Runs
<1>3. QED
  BY <1>1, <1>2

\* Stopping is breaking.
LEMMA StopsBreaks ==
    ASSUME TypeOK, NEW a \in Attempts, NEW r, r = run[a], Stops(a)
    PROVE  /\ run'[a].pc \in {"failed", "idle"}
           /\ r.item \in Workitems \cup {None}
           /\ broken' = [broken EXCEPT ![r.item] = @ + 1]
           /\ \A s \in Attempts \ {a} : run'[s] = run[s]
<1>1. r \in Runs
  BY DEF TypeOK
<1>2. /\ \/ run'[a] = [r EXCEPT !.pc = "failed"]
         \/ run'[a] = Idle
      /\ \A s \in Attempts \ {a} : run'[s] = run[s]
  BY StopsType
<1>3. [r EXCEPT !.pc = "failed"].pc = "failed" /\ Idle.pc = "idle"
  BY <1>1 DEF Runs, Idle
<1>4. QED
  BY <1>1, <1>2, <1>3 DEF Stops, Runs

\* What an attempt does before it changes anything.
LEMMA BeginMoves ==
    ASSUME TypeOK, NEW a \in Attempts, Begin(a), oddities' = {}
    PROVE  \E r, n : Moves(a, r, n)
<1>1. PICK refs \in SUBSET Workitems, pc \in {"snapshot", "failed"} :
          run' = [run EXCEPT ![a] =
                    [pc |-> pc, plan |-> Matched(refs), todo |-> Matched(refs),
                     tree |-> Demands, open |-> {}, item |-> None]]
  BY DEF Begin
<1>2. PICK n : n = run'[a]
  OBVIOUS
<1>3. PICK r : r = run[a]
  OBVIOUS
<1>4. n.pc = pc /\ n.tree = Demands /\ n.open = {}
      /\ \A s \in Attempts \ {a} : run'[s] = run[s]
  BY <1>1, <1>2 DEF TypeOK
<1>5. Quiet
  BY DEF Begin
<1>6. Starts(r, n)
  BY <1>4, <1>5 DEF Starts
<1>7. UNCHANGED <<status, comments, broken, before>>
  BY DEF Begin, remote
<1>8. QED
  BY <1>2, <1>3, <1>4, <1>6, <1>7 DEF Moves, Asks

LEMMA SnapshotMoves ==
    ASSUME TypeOK, NEW a \in Attempts, SnapshotDemand(a), oddities' = {}
    PROVE  \E r, n : Moves(a, r, n)
<1>1. PICK n : n = run'[a]
  OBVIOUS
<1>2. PICK r : r = run[a]
  OBVIOUS
<1>3. r \in Runs /\ r.pc = "snapshot" /\ UNCHANGED <<status, comments, before>>
  BY <1>2 DEF TypeOK, SnapshotDemand, remote, ledger
<1>4. CASE Stops(a)
  BY <1>1, <1>2, <1>3, <1>4, StopsBreaks DEF Moves, Breaks
<1>5. ASSUME NEW d \in r.tree, NEW s \in Said(d), Heard(s), UNCHANGED broken,
             run' = [run EXCEPT ![a].tree = @ \ {d},
                                ![a].open = @ \cup (IF s = "open" THEN {d} ELSE {})]
      PROVE  Moves(a, r, n)
  <2>1. s = status[d]
    BY <1>3, <1>5, HeardStatus DEF Runs, Workitems
  <2>2. n = [r EXCEPT !.tree = @ \ {d}, !.open = @ \cup (IF s = "open" THEN {d} ELSE {})]
        /\ \A t \in Attempts \ {a} : run'[t] = run[t]
    BY <1>1, <1>2, <1>5 DEF TypeOK
  <2>3. n.pc = "snapshot" /\ n.tree = r.tree \ {d}
        /\ n.open = r.open \cup (IF s = "open" THEN {d} ELSE {})
    BY <1>3, <2>2 DEF Runs
  <2>4. Snapshots(r, n)
    BY <1>3, <1>5, <2>1, <2>3 DEF Snapshots
  <2>5. QED
    BY <1>1, <1>2, <1>3, <1>5, <2>2, <2>4 DEF Moves, Asks
<1>6. CASE r.tree = {} /\ run' = [run EXCEPT ![a].pc = "read"] /\ UNCHANGED broken
  <2>1. Passes(r, n, "read") /\ \A t \in Attempts \ {a} : run'[t] = run[t]
    BY <1>1, <1>2, <1>6, RunChange DEF TypeOK
  <2>2. Snapshots(r, n)
    BY <1>3, <1>6, <2>1 DEF Snapshots
  <2>3. QED
    BY <1>1, <1>2, <1>3, <1>6, <2>1, <2>2 DEF Moves, Asks
<1>7. QED
  BY <1>2, <1>4, <1>5, <1>6 DEF SnapshotDemand

LEMMA ReadMoves ==
    ASSUME TypeOK, ClosingInv, NEW a \in Attempts, ReadTask(a), oddities' = {}
    PROVE  \E r, n : Moves(a, r, n)
<1>1. PICK n : n = run'[a]
  OBVIOUS
<1>2. PICK r : r = run[a]
  OBVIOUS
<1>3. r \in Runs /\ r.pc = "read" /\ UNCHANGED <<status, comments, before>>
  BY <1>2 DEF TypeOK, ReadTask, remote, ledger
<1>4. CASE Stops(a)
  BY <1>1, <1>2, <1>3, <1>4, StopsBreaks DEF Moves, Breaks
<1>5. ASSUME NEW t \in r.todo, UNCHANGED broken, run' = [run EXCEPT ![a].todo = @ \ {t}]
      PROVE  Moves(a, r, n)
  <2>1. n = [r EXCEPT !.todo = @ \ {t}] /\ \A s \in Attempts \ {a} : run'[s] = run[s]
    BY <1>1, <1>2, <1>5 DEF TypeOK
  <2>2. Passes(r, n, "read")
    BY <1>3, <2>1 DEF Runs, Passes
  <2>3. QED
    BY <1>1, <1>2, <1>3, <1>5, <2>1, <2>2 DEF Moves, Asks, Reads
<1>6. ASSUME NEW t \in r.todo, NEW s \in Said(t), Heard(s), s # "done", UNCHANGED broken,
             run' = [run EXCEPT ![a].todo = @ \ {t}, ![a].item = t, ![a].pc = "comment"]
      PROVE  Moves(a, r, n)
  <2>1. t \in Tasks
    BY <1>3 DEF Runs
  <2>2. s = status[t] /\ status[t] \in {"open", "done"}
    BY <1>6, <2>1, HeardStatus DEF Workitems, TypeOK
  <2>3. n = [r EXCEPT !.todo = @ \ {t}, !.item = t, !.pc = "comment"]
        /\ \A u \in Attempts \ {a} : run'[u] = run[u]
    BY <1>1, <1>2, <1>6 DEF TypeOK
  <2>4. n.pc = "comment" /\ n.open = r.open /\ n.item = t
    BY <1>3, <2>3 DEF Runs
  <2>5. Reads(r, n)
    BY <1>3, <1>6, <2>1, <2>2, <2>4 DEF Reads
  <2>6. QED
    BY <1>1, <1>2, <1>3, <1>6, <2>3, <2>5 DEF Moves, Asks
<1>7. CASE UNCHANGED broken /\ run' = [run EXCEPT ![a].pc = "restore", ![a].tree = run[a].open]
  <2>1. n = [r EXCEPT !.pc = "restore", !.tree = r.open]
        /\ \A s \in Attempts \ {a} : run'[s] = run[s]
    BY <1>1, <1>2, <1>7 DEF TypeOK
  <2>2. n.pc = "restore" /\ n.open = r.open /\ n.tree = r.open
    BY <1>3, <2>1 DEF Runs
  <2>3. QED
    BY <1>1, <1>2, <1>3, <1>7, <2>1, <2>2 DEF Moves, Asks, Reads
<1>8. QED
  BY <1>2, <1>4, <1>5, <1>6, <1>7 DEF ReadTask
\* What an attempt's item is.
LEMMA ItemKnown ==
    ASSUME TypeOK, ClosingInv, NEW a \in Attempts, NEW r, r = run[a]
    PROVE  /\ r \in Runs
           /\ r.pc \in {"comment", "update", "verify"} => r.item \in Tasks
           /\ r.pc \in {"reopen", "check"} => r.item \in Demands
<1>1. r \in Runs /\ AttemptKnows(a)
  BY Before
<1>2. QED
  BY <1>1 DEF AttemptKnows, Runs

\* What an attempt does when it changes something.
LEMMA CommentMoves ==
    ASSUME TypeOK, ClosingInv, NEW a \in Attempts, CommentTask(a)
    PROVE  \E r, n : Moves(a, r, n)
<1>1. PICK n : n = run'[a]
  OBVIOUS
<1>2. PICK r : r = run[a]
  OBVIOUS
<1>3. r.pc = "comment" /\ r.item \in Tasks /\ UNCHANGED <<status, before>>
  BY <1>2, ItemKnown DEF CommentTask, ledger
<1>4. CASE Stops(a)
  BY <1>1, <1>2, <1>3, <1>4, StopsBreaks DEF Moves, Breaks, CommentTask
<1>5. CASE ~Stops(a)
  <2>1. Passes(r, n, "update") /\ \A s \in Attempts \ {a} : run'[s] = run[s]
    BY <1>1, <1>2, <1>5, RunChange DEF CommentTask, TypeOK
  <2>2. Comments(r, n)
    BY <1>2, <1>3, <1>5, <2>1 DEF CommentTask, Comments
  <2>3. QED
    BY <1>1, <1>2, <1>3, <2>1, <2>2 DEF Moves
<1>6. QED
  BY <1>4, <1>5

LEMMA UpdateMoves ==
    ASSUME TypeOK, ClosingInv, NEW a \in Attempts, UpdateTask(a)
    PROVE  \E r, n : Moves(a, r, n)
<1>1. PICK n : n = run'[a]
  OBVIOUS
<1>2. PICK r : r = run[a]
  OBVIOUS
<1>3. r.pc = "update" /\ r.item \in Tasks /\ UNCHANGED <<comments, before>>
      /\ status' \in {status} \cup Completed(r.item)
  BY <1>2, ItemKnown DEF UpdateTask, ledger, Accepted
<1>4. CASE Stops(a)
  BY <1>1, <1>2, <1>3, <1>4, StopsBreaks DEF Moves, Breaks
<1>5. CASE ~Stops(a)
  <2>1. Passes(r, n, "verify") /\ \A s \in Attempts \ {a} : run'[s] = run[s]
    BY <1>1, <1>2, <1>5, RunChange DEF UpdateTask, TypeOK
  <2>2. Updates(r, n)
    BY <1>2, <1>3, <1>5, <2>1 DEF UpdateTask, Updates
  <2>3. QED
    BY <1>1, <1>2, <1>3, <2>1, <2>2 DEF Moves
<1>6. QED
  BY <1>4, <1>5

LEMMA ReopenMoves ==
    ASSUME TypeOK, ClosingInv, NEW a \in Attempts, ReopenDemand(a)
    PROVE  \E r, n : Moves(a, r, n)
<1>1. PICK n : n = run'[a]
  OBVIOUS
<1>2. PICK r : r = run[a]
  OBVIOUS
<1>3. r.pc = "reopen" /\ r.item \in Demands /\ UNCHANGED <<comments, before>>
      /\ status' \in {status} \cup Reopened(r.item)
  BY <1>2, ItemKnown DEF ReopenDemand, ledger, Accepted
<1>4. CASE Stops(a)
  BY <1>1, <1>2, <1>3, <1>4, StopsBreaks DEF Moves, Breaks
<1>5. CASE ~Stops(a)
  <2>1. Passes(r, n, "check") /\ \A s \in Attempts \ {a} : run'[s] = run[s]
    BY <1>1, <1>2, <1>5, RunChange DEF ReopenDemand, TypeOK
  <2>2. Reopens(r, n)
    BY <1>2, <1>3, <1>5, <2>1 DEF ReopenDemand, Reopens
  <2>3. QED
    BY <1>1, <1>2, <1>3, <2>1, <2>2 DEF Moves
<1>6. QED
  BY <1>4, <1>5

\* What it does when it looks at the outcome.
LEMMA VerifyMoves ==
    ASSUME TypeOK, ClosingInv, NEW a \in Attempts, VerifyTask(a), oddities' = {}
    PROVE  \E r, n : Moves(a, r, n)
<1>1. PICK n : n = run'[a]
  OBVIOUS
<1>2. PICK r : r = run[a]
  OBVIOUS
<1>3. /\ r \in Runs /\ r.pc = "verify" /\ r.item \in Tasks
      /\ UNCHANGED <<status, comments, before>>
  BY <1>2, ItemKnown DEF VerifyTask, remote, ledger
<1>4. CASE Stops(a)
  BY <1>1, <1>2, <1>3, <1>4, StopsBreaks DEF Moves, Breaks
<1>5. ASSUME NEW s \in Said(r.item), Heard(s), s # "open", UNCHANGED broken,
             run' = [run EXCEPT ![a].pc = "read", ![a].item = None]
      PROVE  Moves(a, r, n)
  <2>1. s = status[r.item] /\ status[r.item] \in {"open", "done"}
    BY <1>3, <1>5, HeardStatus DEF Workitems, TypeOK
  <2>2. n = [r EXCEPT !.pc = "read", !.item = None]
        /\ \A u \in Attempts \ {a} : run'[u] = run[u]
    BY <1>1, <1>2, <1>5 DEF TypeOK
  <2>3. n.pc = "read" /\ n.open = r.open
    BY <1>3, <2>2 DEF Runs
  <2>4. Verifies(r, n)
    BY <1>3, <1>5, <2>1, <2>3 DEF Verifies
  <2>5. QED
    BY <1>1, <1>2, <1>3, <1>5, <2>2, <2>4 DEF Moves, Asks
<1>6. CASE /\ run' = [run EXCEPT ![a].pc = "failed"]
           /\ broken' = [broken EXCEPT ![run[a].item] = @ + 1]
  <2>1. n.pc = "failed" /\ \A u \in Attempts \ {a} : run'[u] = run[u]
    BY <1>1, <1>2, <1>6, RunChange DEF Passes, TypeOK
  <2>2. Breaks(r, n)
    BY <1>2, <1>3, <1>6, <2>1 DEF Breaks, Workitems
  <2>3. QED
    BY <1>1, <1>2, <1>3, <2>1, <2>2 DEF Moves
<1>7. QED
  BY <1>2, <1>4, <1>5, <1>6 DEF VerifyTask

LEMMA RestoreMoves ==
    ASSUME TypeOK, NEW a \in Attempts, RestoreDemand(a), oddities' = {}
    PROVE  \E r, n : Moves(a, r, n)
<1>1. PICK n : n = run'[a]
  OBVIOUS
<1>2. PICK r : r = run[a]
  OBVIOUS
<1>3. r \in Runs /\ r.pc = "restore" /\ UNCHANGED <<status, comments, before>>
  BY <1>2 DEF TypeOK, RestoreDemand, remote, ledger
<1>4. CASE Stops(a)
  BY <1>1, <1>2, <1>3, <1>4, StopsBreaks DEF Moves, Breaks
<1>5. ASSUME NEW d \in r.tree, UNCHANGED broken,
             run' = [run EXCEPT ![a].tree = @ \ {d}, ![a].item = d, ![a].pc = "reopen"]
      PROVE  Moves(a, r, n)
  <2>1. n = [r EXCEPT !.tree = @ \ {d}, !.item = d, !.pc = "reopen"]
        /\ \A u \in Attempts \ {a} : run'[u] = run[u]
    BY <1>1, <1>2, <1>5 DEF TypeOK
  <2>2. n.pc = "reopen" /\ n.open = r.open /\ n.item = d /\ n.tree = r.tree \ {d}
    BY <1>3, <2>1 DEF Runs
  <2>3. Restores(r, n)
    BY <1>3, <1>5, <2>2 DEF Restores
  <2>4. QED
    BY <1>1, <1>2, <1>3, <1>5, <2>1, <2>3 DEF Moves, Asks
<1>6. ASSUME NEW d \in r.tree, NEW s \in Said(d), Heard(s), s # "done", UNCHANGED broken,
             run' = [run EXCEPT ![a].tree = @ \ {d}]
      PROVE  Moves(a, r, n)
  <2>1. d \in Workitems
    BY <1>3 DEF Runs, Workitems
  <2>2. s = status[d] /\ status[d] \in {"open", "done"}
    BY <1>6, <2>1, HeardStatus DEF TypeOK
  <2>3. n = [r EXCEPT !.tree = @ \ {d}] /\ \A u \in Attempts \ {a} : run'[u] = run[u]
    BY <1>1, <1>2, <1>6 DEF TypeOK
  <2>4. n.pc = "restore" /\ n.open = r.open /\ n.tree = r.tree \ {d}
    BY <1>3, <2>3 DEF Runs
  <2>5. Restores(r, n)
    BY <1>3, <1>6, <2>2, <2>4 DEF Restores
  <2>6. QED
    BY <1>1, <1>2, <1>3, <1>6, <2>3, <2>5 DEF Moves, Asks
<1>7. CASE r.tree = {} /\ run' = [run EXCEPT ![a].pc = "closed"] /\ UNCHANGED broken
  <2>1. Passes(r, n, "closed") /\ \A s \in Attempts \ {a} : run'[s] = run[s]
    BY <1>1, <1>2, <1>7, RunChange DEF TypeOK
  <2>2. QED
    BY <1>1, <1>2, <1>3, <1>7, <2>1 DEF Moves, Asks, Restores, Passes
<1>8. QED
  BY <1>2, <1>4, <1>5, <1>6, <1>7 DEF RestoreDemand

LEMMA CheckMoves ==
    ASSUME TypeOK, ClosingInv, NEW a \in Attempts, CheckDemand(a), oddities' = {}
    PROVE  \E r, n : Moves(a, r, n)
<1>1. PICK n : n = run'[a]
  OBVIOUS
<1>2. PICK r : r = run[a]
  OBVIOUS
<1>3. /\ r \in Runs /\ r.pc = "check" /\ r.item \in Demands
      /\ UNCHANGED <<status, comments, before>>
  BY <1>2, ItemKnown DEF CheckDemand, remote, ledger
<1>4. CASE Stops(a)
  BY <1>1, <1>2, <1>3, <1>4, StopsBreaks DEF Moves, Breaks
<1>5. CASE /\ "open" \in Said(r.item) /\ UNCHANGED broken
           /\ run' = [run EXCEPT ![a].pc = "restore", ![a].item = None]
  <2>1. status[r.item] = "open"
    BY <1>5 DEF Said
  <2>2. n = [r EXCEPT !.pc = "restore", !.item = None]
        /\ \A u \in Attempts \ {a} : run'[u] = run[u]
    BY <1>1, <1>2, <1>5 DEF TypeOK
  <2>3. n.pc = "restore" /\ n.open = r.open /\ n.tree = r.tree
    BY <1>3, <2>2 DEF Runs
  <2>4. QED
    BY <1>1, <1>2, <1>3, <1>5, <2>1, <2>2, <2>3 DEF Moves, Asks, Checks
<1>6. CASE /\ run' = [run EXCEPT ![a].pc = "failed"]
           /\ broken' = [broken EXCEPT ![run[a].item] = @ + 1]
  <2>1. n.pc = "failed" /\ \A u \in Attempts \ {a} : run'[u] = run[u]
    BY <1>1, <1>2, <1>6, RunChange DEF Passes, TypeOK
  <2>2. Breaks(r, n)
    BY <1>2, <1>3, <1>6, <2>1 DEF Breaks, Workitems
  <2>3. QED
    BY <1>1, <1>2, <1>3, <2>1, <2>2 DEF Moves
<1>7. QED
  BY <1>2, <1>4, <1>5, <1>6 DEF CheckDemand

LEMMA RecordMoves ==
    ASSUME TypeOK, NEW a \in Attempts, RecordClosed(a) \/ RecordFailed(a)
    PROVE  \E r, n : Moves(a, r, n)
<1>1. PICK n : n = run'[a]
  OBVIOUS
<1>2. PICK r : r = run[a]
  OBVIOUS
<1>3. /\ r.pc \in {"closed", "failed"} /\ run' = [run EXCEPT ![a] = Idle]
      /\ UNCHANGED <<status, comments, broken, before>>
  BY <1>2 DEF RecordClosed, RecordFailed, remote
<1>4. n.pc = "idle" /\ \A u \in Attempts \ {a} : run'[u] = run[u]
  BY <1>1, <1>3 DEF TypeOK, Idle
<1>5. QED
  BY <1>1, <1>2, <1>3, <1>4 DEF Moves, Asks, Finishes

\* Oddities are never forgotten.
LEMMA OdditiesGrow ==
    ASSUME NEW a \in Attempts, Begin(a) \/ Proceed(a)
    PROVE  oddities \subseteq oddities'
BY DEF Begin, Proceed, SnapshotDemand, ReadTask, CommentTask, UpdateTask, VerifyTask,
   RestoreDemand, ReopenDemand, CheckDemand, RecordClosed, RecordFailed, Heard, Stops

LEMMA AttemptMoves ==
    ASSUME TypeOK, ClosingInv, NEW a \in Attempts, Begin(a) \/ Proceed(a), oddities' = {}
    PROVE  oddities = {} /\ \E r, n : Moves(a, r, n)
<1>1. oddities = {}
  BY OdditiesGrow
<1>2. \E r, n : Moves(a, r, n)
  BY BeginMoves, SnapshotMoves, ReadMoves, CommentMoves, UpdateMoves, VerifyMoves,
     RestoreMoves, ReopenMoves, CheckMoves, RecordMoves DEF Proceed
<1>3. QED
  BY <1>1, <1>2
-----------------------------------------------------------------------------
(* Comments are earned. *)

\* Without an overlap one attempt runs at a time.
Sole == \A a, b \in Attempts : run[a].pc # "idle" /\ run[b].pc # "idle" => a = b

\* The task has its comment and its change is under way.
Writing(t) == \E a \in Attempts : run[a].pc \in {"update", "verify"} /\ run[a].item = t

\* A task that is open has been commented on once for each attempt that broke at
\* it, and once more while one is changing it; only an open task is commented on.
EarnedInv ==
    oddities = {} =>
        /\ Sole
        /\ \A t \in Tasks : /\ comments[t] <= 1 + broken[t]
                            /\ status[t] = "open" /\ ~Writing(t) => comments[t] <= broken[t]
        /\ \A a \in Attempts : run[a].pc = "comment" => status[run[a].item] = "open"

LEMMA AloneStep ==
    ASSUME Sole, NEW a \in Attempts, NEW r, NEW n, Moves(a, r, n)
    PROVE  /\ Sole'
           /\ \A s \in Attempts \ {a} : run[s].pc = "idle" /\ run'[s].pc = "idle"
<1>1. \A s \in Attempts \ {a} : run[s].pc = "idle"
  BY DEF Sole, Moves, Starts, Quiet
<1>2. \A s \in Attempts \ {a} : run'[s].pc = "idle"
  BY <1>1 DEF Moves
<1>3. QED
  BY <1>1, <1>2 DEF Sole

\* What there is to know of the tasks when only attempt r runs.
TasksEarned(r) ==
    /\ \A t \in Tasks :
          /\ comments[t] <= 1 + broken[t]
          /\ status[t] = "open" /\ ~(r.pc \in {"update", "verify"} /\ r.item = t)
                => comments[t] <= broken[t]
    /\ r.pc = "comment" => status[r.item] = "open"

LEMMA EarnedMove ==
    ASSUME TypeOK, TypeOK', NEW a \in Attempts, NEW r, NEW n, Moves(a, r, n),
           TasksEarned(r)
    PROVE  /\ \A t \in Tasks :
                 /\ comments'[t] <= 1 + broken'[t]
                 /\ status'[t] = "open" /\ ~(n.pc \in {"update", "verify"} /\ n.item = t)
                       => comments'[t] <= broken'[t]
           /\ n.pc = "comment" => status'[n.item] = "open"
<1>1. \A t \in Tasks : /\ comments[t] \in Nat /\ broken[t] \in Nat
                       /\ status[t] \in {"open", "done"} /\ t \in Workitems
  BY DEF TypeOK, Workitems
<1>2. CASE Asks(r, n)
  <2>1. UNCHANGED <<status, comments, broken>>
    BY <1>2 DEF Asks
  <2>2. CASE Verifies(r, n)
    BY <2>1, <2>2, <1>1 DEF Verifies, TasksEarned
  <2>3. CASE Reads(r, n)
    BY <2>1, <2>3, <1>1 DEF Reads, Passes, TasksEarned
  <2>4. CASE /\ r.pc \notin {"update", "verify"} /\ n.pc # "comment"
    BY <2>1, <2>4, <1>1 DEF TasksEarned
  <2>5. CASE Starts(r, n)
    <3>1. r.pc = "idle" /\ n.pc # "comment"
      BY <2>5 DEF Starts, Quiet, Moves
    <3>2. QED
      BY <2>4, <3>1
  <2>6. QED
    BY <1>2, <2>2, <2>3, <2>4, <2>5
       DEF Asks, Snapshots, Restores, Checks, Finishes, Passes
<1>3. CASE Comments(r, n)
  <2>1. UNCHANGED <<status, broken>> /\ n.pc = "update" /\ n.item = r.item
        /\ r.item \in Tasks /\ r.pc = "comment"
    BY <1>3 DEF Comments, Passes
  <2>2. \A t \in Tasks : comments'[t] = IF t = r.item THEN comments[t] + 1 ELSE comments[t]
    BY <1>1, <1>3 DEF Comments, TypeOK
  <2>3. comments[r.item] <= broken[r.item]
    BY <2>1 DEF TasksEarned
  <2>4. QED
    BY <1>1, <2>1, <2>2, <2>3 DEF TasksEarned
<1>4. CASE Updates(r, n)
  <2>1. UNCHANGED <<comments, broken>> /\ n.pc = "verify" /\ n.item = r.item
        /\ r.pc = "update" /\ r.item \in Tasks
    BY <1>4 DEF Updates, Passes
  <2>2. \A t \in Tasks \ {r.item} : status'[t] = status[t]
    BY <1>4, <2>1, CompletedType DEF Updates
  <2>3. QED
    BY <1>1, <2>1, <2>2 DEF TasksEarned
<1>5. ASSUME NEW d \in Demands, NEW st \in {status} \cup Reopened(d)
      PROVE  \A t \in Tasks : st[t] = status[t]
  BY <1>5, ReopenedType
<1>6. CASE Reopens(r, n)
  <2>1. UNCHANGED <<comments, broken>> /\ n.pc = "check" /\ r.pc = "reopen"
    BY <1>6 DEF Reopens, Passes
  <2>2. \A t \in Tasks : status'[t] = status[t]
    BY <1>5, <1>6 DEF Reopens
  <2>3. QED
    BY <1>1, <2>1, <2>2 DEF TasksEarned
<1>7. CASE Breaks(r, n)
  <2>1. n.pc \in {"failed", "idle"} /\ r.item \in Workitems \cup {None}
        /\ broken' = [broken EXCEPT ![r.item] = @ + 1]
    BY <1>7 DEF Breaks
  <2>2. \A t \in Tasks : broken'[t] = IF t = r.item THEN broken[t] + 1 ELSE broken[t]
    BY <1>1, <2>1 DEF TypeOK
  <2>3. CASE UNCHANGED <<status, comments>>
    BY <1>1, <2>1, <2>2, <2>3 DEF TasksEarned
  <2>4. CASE /\ r.pc = "comment" /\ r.item \in Tasks /\ UNCHANGED status
             /\ comments' = [comments EXCEPT ![r.item] = @ + 1]
    <3>1. \A t \in Tasks : comments'[t] = IF t = r.item THEN comments[t] + 1 ELSE comments[t]
      BY <1>1, <2>4 DEF TypeOK
    <3>2. comments[r.item] <= broken[r.item]
      BY <2>4 DEF TasksEarned
    <3>3. QED
      BY <1>1, <2>1, <2>2, <2>4, <3>1, <3>2 DEF TasksEarned
  <2>5. CASE /\ r.pc = "update" /\ r.item \in Tasks /\ UNCHANGED comments
             /\ status' \in Completed(r.item)
    <3>1. \A t \in Tasks \ {r.item} : status'[t] = status[t]
      BY <2>5, CompletedType
    <3>2. QED
      BY <1>1, <2>1, <2>2, <2>5, <3>1 DEF TasksEarned
  <2>6. CASE /\ r.pc = "reopen" /\ r.item \in Demands /\ UNCHANGED comments
             /\ status' \in Reopened(r.item)
    <3>1. \A t \in Tasks : status'[t] = status[t]
      BY <1>5, <2>6
    <3>2. QED
      BY <1>1, <2>1, <2>2, <2>6, <3>1 DEF TasksEarned
  <2>7. QED
    BY <1>7, <2>3, <2>4, <2>5, <2>6 DEF Breaks
<1>8. QED
  BY <1>2, <1>3, <1>4, <1>6, <1>7 DEF Moves

LEMMA EarnedInit == Init => EarnedInv
<1> SUFFICES ASSUME Init PROVE EarnedInv
  OBVIOUS
<1>1. \A a \in Attempts : run[a].pc = "idle"
  BY DEF Init, Idle
<1>2. \A t \in Tasks : comments[t] = 0 /\ broken[t] = 0
  BY DEF Init, Workitems
<1>3. QED
  BY <1>1, <1>2 DEF EarnedInv, Sole

LEMMA EarnedStep ==
    TypeOK /\ ClosingInv /\ EarnedInv /\ [Next]_vars => EarnedInv'
<1> SUFFICES ASSUME TypeOK, ClosingInv, EarnedInv, [Next]_vars PROVE EarnedInv'
  OBVIOUS
<1>1. TypeOK'
  BY ClosingStep
<1>2. ASSUME NEW a \in Attempts, Begin(a) \/ Proceed(a), oddities' = {}
      PROVE  EarnedInv'
  <2>1. PICK r, n : Moves(a, r, n)
    BY <1>2, AttemptMoves
  <2>2. oddities = {} /\ Sole
    BY <1>2, AttemptMoves DEF EarnedInv
  <2>3. Sole' /\ \A s \in Attempts \ {a} : run[s].pc = "idle" /\ run'[s].pc = "idle"
    BY <2>1, <2>2, AloneStep
  <2>4. r = run[a] /\ n = run'[a]
    BY <2>1 DEF Moves
  <2>5. TasksEarned(r)
    BY <2>2, <2>3, <2>4 DEF EarnedInv, TasksEarned, Writing
  <2>6. /\ \A t \in Tasks :
              /\ comments'[t] <= 1 + broken'[t]
              /\ status'[t] = "open" /\ ~(n.pc \in {"update", "verify"} /\ n.item = t)
                    => comments'[t] <= broken'[t]
        /\ n.pc = "comment" => status'[n.item] = "open"
    BY <1>1, <2>1, <2>5, EarnedMove
  <2>7. \A t \in Tasks : (n.pc \in {"update", "verify"} /\ n.item = t) => Writing(t)'
    BY <2>4 DEF Writing
  <2>8. QED
    BY <2>3, <2>4, <2>6, <2>7 DEF EarnedInv
<1>3. CASE ResolveWorkflow \/ UNCHANGED vars
  BY <1>3 DEF ResolveWorkflow, vars, remote, EarnedInv, Sole, Writing
<1>4. CASE oddities' # {}
  BY <1>4 DEF EarnedInv
<1>5. QED
  BY <1>2, <1>3, <1>4 DEF Next

\* One comment to a task, and one more for each attempt that stopped at it: what
\* was closed before a failure elsewhere is passed over by the next attempt, so
\* repeating a half-finished closing does not spam the work items.
THEOREM CommentsAreNotRepeated == Spec => []CommentsAreEarned
<1>1. Init => EarnedInv
  BY EarnedInit
<1>2. TypeOK /\ ClosingInv /\ EarnedInv /\ [Next]_vars => EarnedInv'
  BY EarnedStep
<1>3. EarnedInv => CommentsAreEarned
  BY DEF EarnedInv, CommentsAreEarned
<1>4. QED
  BY <1>1, <1>2, <1>3, ClosingIsSound, PTL DEF Spec

-----------------------------------------------------------------------------
(* The demands come back. *)

Unbroken == oddities = {} /\ \A w \in Workitems \cup {None} : broken[w] = 0

\* The demands that Yunxiao may have completed and the attempt has not looked at.
Touched(r) == IF r.pc \in {"read", "comment", "update", "verify"} THEN r.open
              ELSE IF r.pc = "restore" THEN r.tree
              ELSE IF r.pc \in {"reopen", "check"} THEN r.tree \cup {r.item}
              ELSE {}

\* What an attempt knows of the demands: the snapshot found those open that were
\* open from the start, and it will look at all of them that may have changed.
DemandsKnown(r) ==
    /\ r.pc = "snapshot" => r.open = WasOpen \ r.tree
    /\ r.pc \in {"read", "comment", "update", "verify", "restore", "reopen", "check"} =>
          r.open = WasOpen
    /\ Touched(r) \subseteq WasOpen
    /\ \A d \in Demands : status[d] = before[d] \/ d \in Touched(r)

DemandInv ==
    Unbroken =>
        /\ Sole
        /\ Quiet => \A d \in Demands : status[d] = before[d]
        /\ \A a \in Attempts : run[a].pc # "idle" => DemandsKnown(run[a])

\* Completing a task reopens no demand.
LEMMA CompletedDemands ==
    ASSUME TypeOK, NEW t \in Tasks, NEW st \in Completed(t)
    PROVE  \A d \in Demands : st[d] \in {status[d], "done"}
BY ItemsAreDisjoint DEF Completed, TypeOK, Workitems

\* The demands after a move.
LEMMA DemandMove ==
    ASSUME TypeOK, NEW a \in Attempts, NEW r, NEW n, Moves(a, r, n), r \in Runs,
           UNCHANGED broken,
           \A d \in Demands : status[d] = before[d] \/ r.pc # "idle",
           r.pc # "idle" => DemandsKnown(r)
    PROVE  /\ n.pc # "idle" => DemandsKnown(n)'
           /\ n.pc = "idle" => \A d \in Demands : status'[d] = before'[d]
<1>1. before' = before /\ WasOpen' = WasOpen
  BY DEF Moves, WasOpen
<1>2. \A d \in Demands : status[d] \in {"open", "done"} /\ before[d] \in {"open", "done"}
  BY DEF TypeOK, Workitems
<1>3. ASSUME n.pc = "snapshot" => n.open = WasOpen \ n.tree,
             n.pc \in {"read", "comment", "update", "verify", "restore", "reopen", "check"} =>
                n.open = WasOpen,
             Touched(n) \subseteq WasOpen,
             \A d \in Demands : status'[d] = before[d] \/ d \in Touched(n),
             n.pc = "idle" => Touched(n) = {}
      PROVE  /\ n.pc # "idle" => DemandsKnown(n)'
             /\ n.pc = "idle" => \A d \in Demands : status'[d] = before'[d]
  BY <1>1, <1>3 DEF DemandsKnown, Touched
<1>4. CASE Starts(r, n) /\ status' = status
  <2>1. r.pc = "idle"
    BY <1>4 DEF Starts, Quiet, Moves
  <2>2. /\ n.pc \in {"snapshot", "failed"} /\ n.tree = Demands /\ n.open = {}
        /\ Touched(n) = {} /\ WasOpen \ Demands = {}
    BY <1>4 DEF Starts, Touched, WasOpen
  <2>3. QED
    BY <1>3, <1>4, <2>1, <2>2
<1>5. ASSUME r.pc # "idle" PROVE DemandsKnown(r)
  BY <1>5
<1>6. CASE Snapshots(r, n) /\ status' = status
  <2>1. /\ r.pc = "snapshot" /\ r.open = WasOpen \ r.tree /\ r.tree \subseteq Demands
        /\ \A d \in Demands : status[d] = before[d]
    BY <1>5, <1>6 DEF Snapshots, DemandsKnown, Touched, Runs
  <2>2. ASSUME NEW d \in r.tree, n.pc = "snapshot", n.tree = r.tree \ {d},
               n.open = r.open \cup (IF status[d] = "open" THEN {d} ELSE {})
        PROVE  n.open = WasOpen \ n.tree /\ Touched(n) = {}
    BY <2>1, <2>2 DEF WasOpen, Touched
  <2>3. ASSUME r.tree = {}, Passes(r, n, "read")
        PROVE  n.pc = "read" /\ n.open = WasOpen /\ Touched(n) = WasOpen
    BY <2>1, <2>3 DEF Passes, Touched
  <2>4. QED
    BY <1>3, <1>6, <2>1, <2>2, <2>3 DEF Snapshots
<1>7. CASE /\ r.pc \in {"read", "comment", "verify"} /\ n.open = r.open
           /\ n.pc \in {"read", "comment", "update", "restore"}
           /\ n.pc = "restore" => n.tree = r.open
           /\ status' = status
  <2>1. r.open = WasOpen /\ \A d \in Demands : status[d] = before[d] \/ d \in WasOpen
    BY <1>5, <1>7 DEF DemandsKnown
  <2>2. Touched(n) = WasOpen /\ n.open = WasOpen
    BY <1>7, <2>1 DEF Touched
  <2>3. QED
    BY <1>3, <1>7, <2>1, <2>2
<1>8. CASE Restores(r, n) /\ status' = status
  <2>1. /\ r.pc = "restore" /\ r.open = WasOpen /\ r.tree \subseteq WasOpen /\ n.open = WasOpen
        /\ \A d \in Demands : status[d] = before[d] \/ d \in r.tree
    BY <1>5, <1>8 DEF Restores, DemandsKnown, Touched
  <2>2. ASSUME NEW d \in r.tree, n.pc = "reopen", n.item = d, n.tree = r.tree \ {d}
        PROVE  Touched(n) = r.tree
    BY <2>2 DEF Touched
  <2>3. ASSUME NEW d \in r.tree, status[d] = "open", n.pc = "restore", n.tree = r.tree \ {d}
        PROVE  Touched(n) = r.tree \ {d} /\ status[d] = before[d]
    BY <2>1, <2>3 DEF Touched, WasOpen
  <2>4. ASSUME r.tree = {}, n.pc = "closed"
        PROVE  Touched(n) = {}
    BY <2>4 DEF Touched
  <2>5. QED
    BY <1>3, <1>8, <2>1, <2>2, <2>3, <2>4 DEF Restores
<1>9. CASE Checks(r, n) /\ status' = status
  <2>1. /\ r.open = WasOpen /\ r.tree \cup {r.item} \subseteq WasOpen
        /\ n.pc = "restore" /\ n.open = WasOpen /\ n.tree = r.tree
        /\ \A d \in Demands : status[d] = before[d] \/ d \in r.tree \cup {r.item}
    BY <1>5, <1>9 DEF Checks, DemandsKnown, Touched
  <2>2. status[r.item] = before[r.item]
    BY <1>9, <2>1 DEF Checks, WasOpen
  <2>3. Touched(n) = r.tree
    BY <2>1 DEF Touched
  <2>4. QED
    BY <1>3, <1>9, <2>1, <2>2, <2>3
<1>10. CASE Finishes(r, n) /\ status' = status
  <2>1. Touched(r) = {} /\ Touched(n) = {} /\ n.pc = "idle"
    BY <1>10 DEF Finishes, Touched
  <2>2. DemandsKnown(r)
    BY <1>5, <1>10 DEF Finishes
  <2>3. \A d \in Demands : status[d] = before[d]
    BY <2>1, <2>2 DEF DemandsKnown
  <2>4. QED
    BY <1>3, <1>10, <2>1, <2>3
<1>11. CASE Updates(r, n)
  <2>1. /\ r.pc = "update" /\ r.open = WasOpen /\ n.pc = "verify" /\ n.open = WasOpen
        /\ r.item \in Tasks
        /\ \A d \in Demands : status[d] = before[d] \/ d \in WasOpen
    BY <1>5, <1>11 DEF Updates, Passes, DemandsKnown, Touched
  <2>2. \A d \in Demands : status'[d] \in {status[d], "done"}
    BY <1>11, <2>1, CompletedDemands DEF Updates
  <2>3. \A d \in Demands \ WasOpen : status'[d] = before[d]
    BY <1>2, <2>1, <2>2 DEF WasOpen
  <2>4. Touched(n) = WasOpen
    BY <2>1 DEF Touched
  <2>5. QED
    BY <1>3, <2>1, <2>3, <2>4
<1>12. CASE Reopens(r, n)
  <2>1. /\ r.pc = "reopen" /\ r.open = WasOpen /\ n.pc = "check" /\ n.open = WasOpen
        /\ r.item \in Demands /\ n.item = r.item /\ n.tree = r.tree
        /\ r.tree \cup {r.item} \subseteq WasOpen
        /\ \A d \in Demands : status[d] = before[d] \/ d \in r.tree \cup {r.item}
    BY <1>5, <1>12 DEF Reopens, Passes, DemandsKnown, Touched
  <2>2. \A d \in Demands \ {r.item} : status'[d] = status[d]
    BY <1>12, <2>1 DEF Reopens, Reopened, TypeOK, Workitems
  <2>3. Touched(n) = r.tree \cup {r.item}
    BY <2>1 DEF Touched
  <2>4. QED
    BY <1>3, <2>1, <2>2, <2>3
<1>13. ~Breaks(r, n)
  <2>1. ASSUME Breaks(r, n) PROVE FALSE
    <3>1. r.item \in Workitems \cup {None} /\ broken' = [broken EXCEPT ![r.item] = @ + 1]
      BY <2>1 DEF Breaks
    <3>2. broken'[r.item] = broken[r.item] + 1 /\ broken[r.item] \in Nat
      BY <3>1 DEF TypeOK
    <3>3. QED
      BY <3>2
  <2>2. QED
    BY <2>1
<1>14. CASE Comments(r, n)
  BY <1>7, <1>14 DEF Comments, Passes
<1>15. CASE Reads(r, n) /\ status' = status
  BY <1>7, <1>15 DEF Reads, Passes
<1>16. CASE Verifies(r, n) /\ status' = status
  BY <1>7, <1>16 DEF Verifies
<1>17. CASE Asks(r, n)
  BY <1>4, <1>6, <1>8, <1>9, <1>10, <1>15, <1>16, <1>17 DEF Asks
<1>18. QED
  BY <1>11, <1>12, <1>13, <1>14, <1>17 DEF Moves

LEMMA DemandInit == Init => DemandInv
<1> SUFFICES ASSUME Init PROVE DemandInv
  OBVIOUS
<1>1. \A a \in Attempts : run[a].pc = "idle"
  BY DEF Init, Idle
<1>2. before = status
  BY DEF Init
<1>3. QED
  BY <1>1, <1>2 DEF DemandInv, Sole

LEMMA BrokenGrows ==
    ASSUME TypeOK, NEW a \in Attempts, NEW r, NEW n, Moves(a, r, n),
           \A w \in Workitems \cup {None} : broken'[w] = 0
    PROVE  UNCHANGED broken
<1>1. CASE Breaks(r, n)
  <2>1. r.item \in Workitems \cup {None} /\ broken' = [broken EXCEPT ![r.item] = @ + 1]
    BY <1>1 DEF Breaks
  <2>2. broken'[r.item] = broken[r.item] + 1 /\ broken[r.item] \in Nat
    BY <2>1 DEF TypeOK
  <2>3. QED
    BY <2>1, <2>2
<1>2. QED
  BY <1>1 DEF Moves, Asks, Comments, Updates, Reopens

LEMMA DemandStep ==
    TypeOK /\ ClosingInv /\ DemandInv /\ [Next]_vars => DemandInv'
<1> SUFFICES ASSUME TypeOK, ClosingInv, DemandInv, [Next]_vars PROVE DemandInv'
  OBVIOUS
<1>1. ASSUME NEW a \in Attempts, Begin(a) \/ Proceed(a), Unbroken'
      PROVE  DemandInv'
  <2>1. oddities' = {} /\ \A w \in Workitems \cup {None} : broken'[w] = 0
    BY <1>1 DEF Unbroken
  <2>2. PICK r, n : Moves(a, r, n)
    BY <1>1, <2>1, AttemptMoves
  <2>3. UNCHANGED broken
    BY <2>1, <2>2, BrokenGrows
  <2>4. Unbroken
    BY <1>1, <2>1, <2>3, AttemptMoves DEF Unbroken
  <2>5. Sole' /\ \A s \in Attempts \ {a} : run[s].pc = "idle" /\ run'[s].pc = "idle"
    BY <2>2, <2>4, AloneStep DEF DemandInv
  <2>6. r = run[a] /\ n = run'[a] /\ r \in Runs
    BY <2>2 DEF Moves, TypeOK
  <2>7. /\ r.pc # "idle" => DemandsKnown(r)
        /\ \A d \in Demands : status[d] = before[d] \/ r.pc # "idle"
    BY <2>4, <2>5, <2>6 DEF DemandInv, Quiet
  <2>8. /\ n.pc # "idle" => DemandsKnown(n)'
        /\ n.pc = "idle" => \A d \in Demands : status'[d] = before'[d]
    BY <2>2, <2>3, <2>6, <2>7, DemandMove
  <2>9. n.pc # "idle" => DemandsKnown(run[a])'
    BY <2>6, <2>8 DEF DemandsKnown, Touched
  <2>10. QED
    BY <2>5, <2>6, <2>8, <2>9 DEF DemandInv, Quiet
<1>2. CASE ResolveWorkflow \/ UNCHANGED vars
  <2>1. UNCHANGED <<status, run, before, broken, oddities>>
    BY <1>2 DEF ResolveWorkflow, vars, remote, ledger
  <2>2. QED
    BY <2>1 DEF DemandInv, Unbroken, Sole, Quiet, DemandsKnown, Touched, WasOpen
<1>3. CASE ~Unbroken'
  BY <1>3 DEF DemandInv
<1>4. QED
  BY <1>1, <1>2, <1>3 DEF Next

\* The reaction of Yunxiao to closed tasks leaves no trace on the demands, unless
\* an attempt was broken off: what the snapshot found open is what the attempt
\* restores, each demand that may have been completed is looked at again, and an
\* attempt that reaches its record has looked at them all.
THEOREM DemandsComeBack == Spec => []OnlyFailuresLeaveDemandsClosed
<1>1. Init => DemandInv
  BY DemandInit
<1>2. TypeOK /\ ClosingInv /\ DemandInv /\ [Next]_vars => DemandInv'
  BY DemandStep
<1>3. DemandInv => OnlyFailuresLeaveDemandsClosed
  BY DEF DemandInv, Unbroken, OnlyFailuresLeaveDemandsClosed
<1>4. QED
  BY <1>1, <1>2, <1>3, ClosingIsSound, PTL DEF Spec
-----------------------------------------------------------------------------
(* The promise of TaskClosing. *)

\* A demand that was done is left, or is done again.
DoneStays == /\ before' = before
             /\ \A d \in Demands \ WasOpen : status[d] = "done" => status'[d] = "done"

\* What remains to show of a step of an attempt.
LEMMA RestoresStep ==
    ASSUME TypeOK, ReopenInv, NEW a \in Attempts, NEW r, r = run[a],
           \A s \in Attempts \ {a} : run'[s] = run[s],
           RestoresOwn(r) => RestoresOwn(run'[a]), DoneStays
    PROVE  ReopenInv'
<1>1. WasOpen' = WasOpen
  BY DEF WasOpen, DoneStays
<1>2. \A d \in Demands \ WasOpen : status'[d] = "done"
  BY DEF ReopenInv, DoneStays
<1>3. ASSUME NEW s \in Attempts PROVE RestoresOwn(run'[s])
  BY DEF ReopenInv
<1>4. ASSUME NEW s \in Attempts PROVE RestoresOwn(run[s])'
  BY <1>1, <1>3 DEF RestoresOwn
<1>5. QED
  BY <1>1, <1>2, <1>4 DEF ReopenInv

\* An attempt that stops, or that goes on with what it has.
LEMMA RestoresStop ==
    ASSUME TypeOK, ReopenInv, NEW a \in Attempts, run[a].pc # "idle", Stops(a), DoneStays
    PROVE  ReopenInv'
<1> DEFINE r == run[a]
<1>1. r \in Runs
  BY DEF TypeOK
<1>2. /\ \/ run'[a] = [r EXCEPT !.pc = "failed"]
         \/ run'[a] = Idle
      /\ \A s \in Attempts \ {a} : run'[s] = run[s]
  BY StopsType
<1>3. r.plan # {}
  BY DEF ReopenInv, RestoresOwn
<1>4. CASE run'[a] = Idle
  <2>1. RestoresOwn(run'[a])
    BY <1>4 DEF RestoresOwn, Idle
  <2>2. QED
    BY <1>2, <2>1, RestoresStep
<1>5. CASE run'[a] = [r EXCEPT !.pc = "failed"]
  <2>1. run'[a].pc = "failed" /\ run'[a].plan = r.plan /\ run'[a].open = r.open
    BY <1>1, <1>5 DEF Runs
  <2>2. RestoresOwn(r) => RestoresOwn(run'[a])
    BY <1>3, <2>1 DEF RestoresOwn
  <2>3. QED
    BY <1>2, <2>2, RestoresStep
<1>6. QED
  BY <1>2, <1>4, <1>5

\* An attempt that goes on to n.
LEMMA RestoresGoOn ==
    ASSUME TypeOK, ReopenInv, NEW a \in Attempts, NEW n \in Runs,
           run' = [run EXCEPT ![a] = n], RestoresOwn(n), DoneStays
    PROVE  ReopenInv'
<1>1. run'[a] = n /\ \A s \in Attempts \ {a} : run'[s] = run[s]
  BY RunType
<1>2. QED
  BY <1>1, RestoresStep

\* The steps of an attempt in which Yunxiao only answers.
Answered(a) == Begin(a) \/ SnapshotDemand(a) \/ ReadTask(a) \/ CommentTask(a) \/ VerifyTask(a)
               \/ RestoreDemand(a) \/ CheckDemand(a) \/ RecordClosed(a) \/ RecordFailed(a)

LEMMA AnswersKeep ==
    ASSUME NEW a \in Attempts, Answered(a)
    PROVE  DoneStays
BY DEF Answered, DoneStays, Begin, SnapshotDemand, ReadTask, CommentTask, VerifyTask,
   RestoreDemand, CheckDemand, RecordClosed, RecordFailed, remote, ledger

LEMMA RestoresLocal ==
    ASSUME TypeOK, ReopenInv, NEW a \in Attempts,
           Begin(a) \/ SnapshotDemand(a) \/ ReadTask(a)
    PROVE  ReopenInv'
<1>1. PICK r : r = run[a]
  OBVIOUS
<1>2. r \in Runs /\ RestoresOwn(r) /\ run \in [Attempts -> Runs] /\ DoneStays
  BY <1>1, AnswersKeep DEF TypeOK, ReopenInv, Answered
<1>3. CASE Begin(a)
  <2>1. PICK refs \in SUBSET Workitems, pc \in {"snapshot", "failed"} :
            /\ Matched(refs) # {}
            /\ run' = [run EXCEPT ![a] =
                         [pc |-> pc, plan |-> Matched(refs), todo |-> Matched(refs),
                          tree |-> Demands, open |-> {}, item |-> None]]
    BY <1>3 DEF Begin
  <2> DEFINE n == [pc |-> pc, plan |-> Matched(refs), todo |-> Matched(refs),
                   tree |-> Demands, open |-> {}, item |-> None]
  <2>2. n \in Runs
    BY DEF Runs, Pcs, Matched
  <2>3. RestoresOwn(n)
    BY <2>1 DEF RestoresOwn
  <2>4. QED
    BY <1>2, <2>1, <2>2, <2>3, RestoresGoOn
<1>4. CASE Stops(a) /\ r.pc \in {"snapshot", "read"}
  BY <1>1, <1>2, <1>4, RestoresStop
<1>5. ASSUME r.pc = "snapshot", NEW d \in r.tree, NEW s \in Said(d),
             run' = [run EXCEPT ![a].tree = @ \ {d},
                                ![a].open = @ \cup (IF s = "open" THEN {d} ELSE {})]
      PROVE  ReopenInv'
  <2> DEFINE opened == IF s = "open" THEN {d} ELSE {}
             n == [r EXCEPT !.tree = @ \ {d}, !.open = @ \cup opened]
  <2>1. d \in Demands
    BY <1>2 DEF Runs
  <2>2. opened \subseteq WasOpen
    BY <2>1 DEF Said, ReopenInv
  <2>3. n \in Runs /\ n.pc = "snapshot" /\ n.plan = r.plan /\ n.open = r.open \cup opened
    BY <1>2, <1>5, <2>1 DEF Runs
  <2>4. RestoresOwn(n)
    BY <1>2, <1>5, <2>2, <2>3 DEF RestoresOwn
  <2>5. run' = [run EXCEPT ![a] = n]
    BY <1>1, <1>2, <1>5
  <2>6. QED
    BY <1>2, <2>3, <2>4, <2>5, RestoresGoOn
<1>6. ASSUME r.pc = "snapshot", run' = [run EXCEPT ![a].pc = "read"]
      PROVE  ReopenInv'
  <2> DEFINE n == [r EXCEPT !.pc = "read"]
  <2>1. n \in Runs /\ RestoresOwn(n)
    BY <1>2, <1>6 DEF Runs, Pcs, RestoresOwn
  <2>2. run' = [run EXCEPT ![a] = n]
    BY <1>1, <1>2, <1>6
  <2>3. QED
    BY <1>2, <2>1, <2>2, RestoresGoOn
<1>7. ASSUME r.pc = "read", NEW t \in r.todo, run' = [run EXCEPT ![a].todo = @ \ {t}]
      PROVE  ReopenInv'
  <2> DEFINE n == [r EXCEPT !.todo = @ \ {t}]
  <2>1. n \in Runs /\ RestoresOwn(n)
    BY <1>2, <1>7 DEF Runs, RestoresOwn
  <2>2. run' = [run EXCEPT ![a] = n]
    BY <1>1, <1>2, <1>7
  <2>3. QED
    BY <1>2, <2>1, <2>2, RestoresGoOn
<1>8. ASSUME r.pc = "read", NEW t \in r.todo,
             run' = [run EXCEPT ![a].todo = @ \ {t}, ![a].item = t, ![a].pc = "comment"]
      PROVE  ReopenInv'
  <2> DEFINE n == [r EXCEPT !.todo = @ \ {t}, !.item = t, !.pc = "comment"]
  <2>1. n \in Runs /\ RestoresOwn(n)
    BY <1>2, <1>8 DEF Runs, Pcs, RestoresOwn, Workitems
  <2>2. run' = [run EXCEPT ![a] = n]
    BY <1>1, <1>2, <1>8
  <2>3. QED
    BY <1>2, <2>1, <2>2, RestoresGoOn
<1>9. ASSUME r.pc = "read", run' = [run EXCEPT ![a].pc = "restore", ![a].tree = run[a].open]
      PROVE  ReopenInv'
  <2> DEFINE n == [r EXCEPT !.pc = "restore", !.tree = r.open]
  <2>1. n \in Runs /\ RestoresOwn(n)
    BY <1>2, <1>9 DEF Runs, Pcs, RestoresOwn
  <2>2. run' = [run EXCEPT ![a] = n]
    BY <1>1, <1>2, <1>9
  <2>3. QED
    BY <1>2, <2>1, <2>2, RestoresGoOn
<1>10. CASE SnapshotDemand(a)
  BY <1>1, <1>4, <1>5, <1>6, <1>10 DEF SnapshotDemand
<1>11. CASE ReadTask(a)
  BY <1>1, <1>4, <1>7, <1>8, <1>9, <1>11 DEF ReadTask
<1>12. QED
  BY <1>3, <1>10, <1>11
\* An attempt that only goes on to another step, which restores nothing or what
\* this one does.
LEMMA RestoresPasses ==
    ASSUME TypeOK, ReopenInv, NEW a \in Attempts, NEW pc \in Pcs, DoneStays,
           run[a].pc # "idle", run' = [run EXCEPT ![a].pc = pc],
           pc \in {"restore", "reopen", "check"} =>
              run[a].pc \in {"restore", "reopen", "check"},
           pc \in {"reopen", "check"} => run[a].pc \in {"reopen", "check"}
    PROVE  ReopenInv'
<1> DEFINE r == run[a]
           n == [r EXCEPT !.pc = pc]
<1>1. r \in Runs /\ RestoresOwn(r) /\ run \in [Attempts -> Runs]
  BY DEF TypeOK, ReopenInv
<1>2. /\ n \in Runs /\ n.pc = pc
      /\ n.plan = r.plan /\ n.open = r.open /\ n.tree = r.tree /\ n.item = r.item
  BY <1>1 DEF Runs
<1>3. RestoresOwn(n)
  BY <1>1, <1>2 DEF RestoresOwn
<1>4. run' = [run EXCEPT ![a] = n]
  BY <1>1
<1>5. QED
  BY <1>2, <1>3, <1>4, RestoresGoOn

\* Likewise, with its item done with.
LEMMA RestoresDrops ==
    ASSUME TypeOK, ReopenInv, NEW a \in Attempts, NEW pc \in {"read", "restore"}, DoneStays,
           run[a].pc # "idle", run' = [run EXCEPT ![a].pc = pc, ![a].item = None],
           pc = "restore" => run[a].pc = "check"
    PROVE  ReopenInv'
<1> DEFINE r == run[a]
           n == [r EXCEPT !.pc = pc, !.item = None]
<1>1. r \in Runs /\ RestoresOwn(r) /\ run \in [Attempts -> Runs]
  BY DEF TypeOK, ReopenInv
<1>2. n \in Runs /\ n.pc = pc /\ n.plan = r.plan /\ n.open = r.open /\ n.tree = r.tree
  BY <1>1 DEF Runs, Pcs
<1>3. RestoresOwn(n)
  BY <1>1, <1>2 DEF RestoresOwn
<1>4. run' = [run EXCEPT ![a] = n]
  BY <1>1
<1>5. QED
  BY <1>2, <1>3, <1>4, RestoresGoOn

LEMMA RestoresTask ==
    ASSUME TypeOK, ClosingInv, ReopenInv, NEW a \in Attempts,
           CommentTask(a) \/ UpdateTask(a) \/ VerifyTask(a)
    PROVE  ReopenInv'
<1>1. CASE CommentTask(a)
  <2>1. DoneStays
    BY <1>1, AnswersKeep DEF Answered
  <2>2. CASE run' = [run EXCEPT ![a].pc = "update"]
    BY <1>1, <2>1, <2>2, RestoresPasses DEF CommentTask, Pcs
  <2>3. QED
    BY <1>1, <2>1, <2>2, RestoresStop DEF CommentTask
<1>2. CASE UpdateTask(a)
  <2>1. run[a].item \in Tasks
    BY <1>2, ItemKnown DEF UpdateTask
  <2>2. /\ before' = before
        /\ status' \in {status} \cup Completed(run[a].item)
    BY <1>2 DEF UpdateTask, ledger, Accepted
  <2>3. DoneStays
    BY <2>1, <2>2, CompletedDemands DEF DoneStays
  <2>4. CASE run' = [run EXCEPT ![a].pc = "verify"]
    BY <1>2, <2>3, <2>4, RestoresPasses DEF UpdateTask, Pcs
  <2>5. QED
    BY <1>2, <2>3, <2>4, RestoresStop DEF UpdateTask
<1>3. CASE VerifyTask(a)
  <2>1. DoneStays
    BY <1>3, AnswersKeep DEF Answered
  <2>2. CASE run' = [run EXCEPT ![a].pc = "read", ![a].item = None]
    BY <1>3, <2>1, <2>2, RestoresDrops DEF VerifyTask
  <2>3. CASE run' = [run EXCEPT ![a].pc = "failed"]
    BY <1>3, <2>1, <2>3, RestoresPasses DEF VerifyTask, Pcs
  <2>4. QED
    BY <1>3, <2>1, <2>2, <2>3, RestoresStop DEF VerifyTask
<1>4. QED
  BY <1>1, <1>2, <1>3

LEMMA RestoresDemand ==
    ASSUME TypeOK, ClosingInv, ReopenInv, NEW a \in Attempts,
           RestoreDemand(a) \/ ReopenDemand(a) \/ CheckDemand(a)
    PROVE  ReopenInv'
<1>1. PICK r : r = run[a]
  OBVIOUS
<1>2. r \in Runs /\ RestoresOwn(r) /\ run \in [Attempts -> Runs]
  BY <1>1 DEF TypeOK, ReopenInv
<1>3. CASE RestoreDemand(a)
  <2>1. r.pc = "restore" /\ r.tree \subseteq WasOpen /\ DoneStays
    BY <1>1, <1>2, <1>3, AnswersKeep DEF Answered, RestoreDemand, RestoresOwn
  <2>2. ASSUME NEW d \in r.tree,
               run' = [run EXCEPT ![a].tree = @ \ {d}, ![a].item = d, ![a].pc = "reopen"]
        PROVE  ReopenInv'
    <3> DEFINE n == [r EXCEPT !.tree = @ \ {d}, !.item = d, !.pc = "reopen"]
    <3>1. d \in Demands
      BY <1>2 DEF Runs
    <3>2. /\ n \in Runs /\ n.pc = "reopen" /\ n.item = d /\ n.tree = r.tree \ {d}
          /\ n.open = r.open /\ n.plan = r.plan
      BY <1>2, <3>1 DEF Runs, Pcs, Workitems
    <3>3. RestoresOwn(n)
      BY <1>2, <2>1, <3>2 DEF RestoresOwn
    <3>4. run' = [run EXCEPT ![a] = n]
      BY <1>1, <1>2, <2>2
    <3>5. QED
      BY <2>1, <3>2, <3>3, <3>4, RestoresGoOn
  <2>3. ASSUME NEW d \in r.tree, run' = [run EXCEPT ![a].tree = @ \ {d}]
        PROVE  ReopenInv'
    <3> DEFINE n == [r EXCEPT !.tree = @ \ {d}]
    <3>1. /\ n \in Runs /\ n.pc = "restore" /\ n.tree = r.tree \ {d}
          /\ n.open = r.open /\ n.plan = r.plan
      BY <1>2, <2>1 DEF Runs
    <3>2. RestoresOwn(n)
      BY <1>2, <2>1, <3>1 DEF RestoresOwn
    <3>3. run' = [run EXCEPT ![a] = n]
      BY <1>1, <1>2, <2>3
    <3>4. QED
      BY <2>1, <3>1, <3>2, <3>3, RestoresGoOn
  <2>4. CASE run' = [run EXCEPT ![a].pc = "closed"]
    BY <1>1, <2>1, <2>4, RestoresPasses DEF Pcs
  <2>5. QED
    BY <1>1, <1>3, <2>1, <2>2, <2>3, <2>4, RestoresStop DEF RestoreDemand
<1>4. CASE ReopenDemand(a)
  <2>1. r.pc = "reopen" /\ r.item \in WasOpen /\ r.item \in Demands
    BY <1>1, <1>2, <1>4 DEF ReopenDemand, RestoresOwn, WasOpen
  <2>2. /\ before' = before
        /\ status' \in {status} \cup Reopened(r.item)
    BY <1>1, <1>4 DEF ReopenDemand, ledger, Accepted
  <2>3. DoneStays
    BY <2>1, <2>2 DEF DoneStays, Reopened, TypeOK, Workitems
  <2>4. CASE run' = [run EXCEPT ![a].pc = "check"]
    BY <1>1, <2>1, <2>3, <2>4, RestoresPasses DEF Pcs
  <2>5. QED
    BY <1>1, <1>4, <2>1, <2>3, <2>4, RestoresStop DEF ReopenDemand
<1>5. CASE CheckDemand(a)
  <2>1. r.pc = "check" /\ DoneStays
    BY <1>1, <1>5, AnswersKeep DEF Answered, CheckDemand
  <2>2. CASE run' = [run EXCEPT ![a].pc = "restore", ![a].item = None]
    BY <1>1, <2>1, <2>2, RestoresDrops
  <2>3. CASE run' = [run EXCEPT ![a].pc = "failed"]
    BY <1>1, <2>1, <2>3, RestoresPasses DEF Pcs
  <2>4. QED
    BY <1>1, <1>5, <2>1, <2>2, <2>3, RestoresStop DEF CheckDemand
<1>6. QED
  BY <1>3, <1>4, <1>5

LEMMA ReopenInit == Init => ReopenInv
<1> SUFFICES ASSUME Init PROVE ReopenInv
  OBVIOUS
<1>1. ASSUME NEW a \in Attempts PROVE RestoresOwn(run[a])
  BY DEF Init, RestoresOwn, Idle
<1>2. \A d \in Demands \ WasOpen : status[d] = "done"
  BY DEF Init, WasOpen, Workitems
<1>3. QED
  BY <1>1, <1>2 DEF ReopenInv

LEMMA ReopenKept == TypeOK /\ ClosingInv /\ ReopenInv /\ [Next]_vars => ReopenInv'
<1> SUFFICES ASSUME TypeOK, ClosingInv, ReopenInv, [Next]_vars PROVE ReopenInv'
  OBVIOUS
<1>1. ASSUME NEW a \in Attempts, RecordClosed(a) \/ RecordFailed(a)
      PROVE  ReopenInv'
  <2>1. run' = [run EXCEPT ![a] = Idle]
    BY <1>1 DEF RecordClosed, RecordFailed
  <2>2. Idle \in Runs /\ RestoresOwn(Idle)
    BY DEF Idle, Runs, Pcs, RestoresOwn
  <2>3. DoneStays
    BY <1>1, AnswersKeep DEF Answered
  <2>4. QED
    BY <2>1, <2>2, <2>3, RestoresGoOn
<1>2. CASE ResolveWorkflow \/ UNCHANGED vars
  <2>1. UNCHANGED <<status, before, run>>
    BY <1>2 DEF ResolveWorkflow, vars, remote, ledger
  <2>2. QED
    BY <2>1 DEF ReopenInv, RestoresOwn, WasOpen
<1>3. QED
  BY <1>1, <1>2, RestoresLocal, RestoresTask, RestoresDemand DEF Next, Proceed

\* The steps of the promise.
LEMMA CompletesTask ==
    ASSUME TypeOK, NEW t \in Tasks, comments[t] > 0, status' \in Completed(t),
           UNCHANGED <<comments, ledger, unread>>
    PROVE  Closing!Complete(t)
<1>1. UNCHANGED <<comments, Closing!record, unread>>
  BY DEF ledger, Closing!record
<1>2. status \in [Workitems -> {"open", "done"}]
  BY DEF TypeOK
<1>3. CASE status' = [status EXCEPT ![t] = "done"]
  <2>1. status' = [w \in DOMAIN status |->
                      IF w \in {t} \cup {} THEN "done" ELSE status[w]]
    BY <1>2, <1>3
  <2>2. QED
    BY <1>1, <2>1 DEF Closing!Complete
<1>4. ASSUME NEW d \in {Parent[t]} \ {None},
             status' = [status EXCEPT ![t] = "done", ![d] = "done"]
      PROVE  Closing!Complete(t)
  <2>1. status' = [w \in DOMAIN status |->
                      IF w \in {t} \cup {d} THEN "done" ELSE status[w]]
    BY <1>2, <1>4
  <2>2. {d} \in SUBSET ({Parent[t]} \ {None})
    OBVIOUS
  <2>3. QED
    BY <1>1, <2>1, <2>2 DEF Closing!Complete
<1>5. QED
  BY <1>3, <1>4 DEF Completed

LEMMA AttemptCloses ==
    ASSUME TypeOK, ClosingInv, ReopenInv, NEW a \in Attempts, Begin(a) \/ Proceed(a)
    PROVE  Closing!Next \/ UNCHANGED Closing!vars
<1>1. PICK r : r = run[a]
  OBVIOUS
<1>2. r \in Runs /\ AttemptKnows(a) /\ RestoresOwn(r)
  BY <1>1, Before DEF ReopenInv
<1>3. /\ r.pc \in {"comment", "update", "verify"} => r.item \in referenced /\ r.item \in Tasks
      /\ r.pc \in {"update", "verify"} => comments[r.item] > 0
  BY <1>1, <1>2 DEF AttemptKnows, Runs
<1>4. CASE Begin(a)
  <2>1. PICK refs \in SUBSET Workitems :
            Matched(refs) # {} /\ referenced' = referenced \cup (refs \cap Tasks)
    BY <1>4 DEF Begin
  <2>2. Closing!Name
    BY <1>4, <2>1 DEF Begin, Matched, remote, Closing!Name, Closing!items
  <2>3. QED
    BY <2>2 DEF Closing!Next
<1>5. CASE SnapshotDemand(a) \/ ReadTask(a) \/ RestoreDemand(a) \/ CheckDemand(a)
  <2>1. UNCHANGED <<remote, ledger, unread>>
    BY <1>5 DEF SnapshotDemand, ReadTask, RestoreDemand, CheckDemand
  <2>2. QED
    BY <2>1 DEF remote, ledger, Closing!vars, Closing!items, Closing!record
<1>6. CASE CommentTask(a)
  <2>1. /\ r.pc = "comment" /\ UNCHANGED <<status, ledger, unread>>
        /\ comments' \in {comments, [comments EXCEPT ![r.item] = @ + 1]}
    BY <1>1, <1>6 DEF CommentTask
  <2>2. CASE comments' = [comments EXCEPT ![r.item] = @ + 1]
    <3>1. Closing!Comment(r.item)
      BY <2>1, <2>2 DEF ledger, Closing!Comment, Closing!record
    <3>2. QED
      BY <1>3, <2>1, <3>1 DEF Closing!Next
  <2>3. CASE UNCHANGED comments
    BY <2>1, <2>3 DEF ledger, Closing!vars, Closing!items, Closing!record
  <2>4. QED
    BY <2>1, <2>2, <2>3
<1>7. CASE UpdateTask(a)
  <2>1. /\ r.pc = "update" /\ UNCHANGED <<comments, ledger, unread>>
        /\ status' \in {status} \cup Completed(r.item)
    BY <1>1, <1>7 DEF UpdateTask, Accepted
  <2>2. CASE status' \in Completed(r.item)
    BY <1>3, <2>1, <2>2, CompletesTask DEF Closing!Next
  <2>3. CASE UNCHANGED status
    BY <2>1, <2>3 DEF ledger, Closing!vars, Closing!items, Closing!record
  <2>4. QED
    BY <2>1, <2>2, <2>3
<1>8. CASE VerifyTask(a)
  <2>1. /\ r.pc = "verify" /\ UNCHANGED <<remote, ledger>>
        /\ unread' \in {unread, unread \cup {r.item}}
    BY <1>1, <1>8 DEF VerifyTask
  <2>2. CASE unread' = unread \cup {r.item}
    <3>1. Closing!Overlook(r.item)
      BY <1>3, <2>1, <2>2 DEF remote, ledger, Closing!Overlook, Closing!items, Closing!record
    <3>2. QED
      BY <1>3, <2>1, <3>1 DEF Closing!Next
  <2>3. CASE UNCHANGED unread
    BY <2>1, <2>3 DEF remote, ledger, Closing!vars, Closing!items, Closing!record
  <2>4. QED
    BY <2>1, <2>2, <2>3
<1>9. CASE ReopenDemand(a)
  <2>1. /\ r.pc = "reopen" /\ UNCHANGED <<comments, ledger, unread>>
        /\ status' \in {status} \cup Reopened(r.item)
    BY <1>1, <1>9 DEF ReopenDemand, Accepted
  <2>2. CASE status' \in Reopened(r.item)
    <3>1. r.item \in Demands /\ before[r.item] = "open"
      BY <1>2, <2>1 DEF RestoresOwn, WasOpen
    <3>2. Closing!Reopen(r.item)
      BY <2>1, <2>2, <3>1 DEF Reopened, ledger, Closing!Reopen, Closing!record
    <3>3. QED
      BY <3>1, <3>2 DEF Closing!Next
  <2>3. CASE UNCHANGED status
    BY <2>1, <2>3 DEF ledger, Closing!vars, Closing!items, Closing!record
  <2>4. QED
    BY <2>1, <2>2, <2>3
<1>10. CASE RecordClosed(a)
  <2>1. r.pc = "closed" /\ UNCHANGED <<remote, before, referenced, unread>>
    BY <1>1, <1>10 DEF RecordClosed
  <2>2. CASE phase = "APIFOX_SYNCED" /\ phase' = "YUNXIAO_TASK_CLOSED" /\ reported' = r.plan
    <3>1. /\ r.plan \in (SUBSET referenced) \ {{}}
          /\ \A t \in r.plan \ unread : status[t] = "done"
      BY <1>1, <1>2, <2>1 DEF AttemptKnows, RestoresOwn
    <3>2. Closing!Close
      BY <2>1, <2>2, <3>1 DEF remote, Closing!Close, Closing!items
    <3>3. QED
      BY <3>2 DEF Closing!Next
  <2>3. CASE UNCHANGED <<phase, reported>>
    BY <2>1, <2>3 DEF remote, Closing!vars, Closing!items, Closing!record
  <2>4. QED
    BY <1>1, <1>10, <2>2, <2>3 DEF RecordClosed
<1>11. CASE RecordFailed(a)
  <2>1. /\ UNCHANGED <<remote, before, referenced, reported, unread>>
        /\ \/ phase = "APIFOX_SYNCED" /\ phase' = "NEEDS_HUMAN"
           \/ UNCHANGED phase
    BY <1>11 DEF RecordFailed
  <2>2. CASE phase = "APIFOX_SYNCED" /\ phase' = "NEEDS_HUMAN"
    BY <2>1, <2>2 DEF remote, Closing!Next, Closing!Escalate, Closing!items
  <2>3. CASE UNCHANGED phase
    BY <2>1, <2>3 DEF remote, Closing!vars, Closing!items, Closing!record
  <2>4. QED
    BY <2>1, <2>2, <2>3
<1>12. QED
  BY <1>4, <1>5, <1>6, <1>7, <1>8, <1>9, <1>10, <1>11 DEF Proceed

LEMMA StepCloses ==
    TypeOK /\ ClosingInv /\ ReopenInv /\ [Next]_vars => [Closing!Next]_(Closing!vars)
<1> SUFFICES ASSUME TypeOK, ClosingInv, ReopenInv, [Next]_vars
             PROVE  Closing!Next \/ UNCHANGED Closing!vars
  OBVIOUS
<1>1. CASE ResolveWorkflow
  BY <1>1 DEF ResolveWorkflow, remote, Closing!Next, Closing!Resolve, Closing!items
<1>2. CASE UNCHANGED vars
  BY <1>2 DEF vars, remote, ledger, Closing!vars, Closing!items, Closing!record
<1>3. QED
  BY <1>1, <1>2, AttemptCloses DEF Next

\* close_yunxiao_workitem, by any number of attempts that overlap, fail half-way
\* and repeat, keeps the promise of TaskClosing: only named tasks change, after
\* their comment and for good, no demand that was done before is ever set back,
\* and the workflow is closed once, for tasks that were done when it was.
THEOREM AttemptsImplementClosing == Spec => ClosingSpec
<1>1. Init => Closing!Init
  BY DEF Init, Closing!Init, Workitems
<1>2. Init => ReopenInv
  BY ReopenInit
<1>3. TypeOK /\ ClosingInv /\ ReopenInv /\ [Next]_vars => ReopenInv'
  BY ReopenKept
<1>4. TypeOK /\ ClosingInv /\ ReopenInv /\ [Next]_vars => [Closing!Next]_(Closing!vars)
  BY StepCloses
<1>5. QED
  BY <1>1, <1>2, <1>3, <1>4, ClosingIsSound, PTL DEF Spec, ClosingSpec, Closing!Spec
=============================================================================
