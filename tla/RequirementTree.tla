-------------------------- MODULE RequirementTree --------------------------
(* How advance makes the work items of a parsed requirement in Yunxiao, and  *)
(* how they are deleted again: create_yunxiao_workitem with                  *)
(* _create_yunxiao_requirement_tree and the sprint resolution of             *)
(* app/yunxiao.py, the guard of app/yunxiao_guard.py, the records of         *)
(* _advance_requirement_to_yunxiao_task, delete_yunxiao_workitems.           *)
(*                                                                           *)
(* WorkflowLedger makes this one step.  Here every request to Yunxiao is a   *)
(* step, requests of several workflows overlap, and what was made stays when *)
(* a later request fails.  The requirements name one version, the project    *)
(* has no configured sprint and is accessed with a personal token: otherwise *)
(* no sprint is looked for.                                                  *)
EXTENDS Naturals, Sequences, FiniteSets

CONSTANTS
    Workflows,     \* workflows at REQUIREMENT_PARSED
    Plan,          \* their demands, each followed by its tasks
    Blank,         \* the positions whose title is blank
    Miscategorized,\* workflows whose project configures categories of its own
    Sprints,       \* sprints Yunxiao may hold under the name of the version
    Threads,       \* requests in progress at the same time
    MaxAttempts,   \* bound: attempts to create a tree
    MaxByHand,     \* bound: items deleted by an explicit id
    None

Kinds == {"demand", "task"}

ASSUME PlansAreTrees ==
    /\ Plan \in [Workflows -> Seq(Kinds)]
    /\ \A w \in Workflows : Plan[w] # <<>> /\ Plan[w][1] = "demand"
ASSUME BlankIsPartOfPlan == Blank \in [Workflows -> SUBSET Nat]
ASSUME BoundsAreNatural == MaxAttempts \in Nat /\ MaxByHand \in Nat
ASSUME SprintsAreFinite == IsFiniteSet(Sprints)
ASSUME NothingIsNone == None \notin Sprints \cup Workflows \cup Nat

VARIABLES
    bound,    \* per row: the attempt whose tree it holds, or None
    partials, \* the items recorded as partialResult of a failed attempt
    attempts, \* the workflow each attempt is for
    sprints,  \* Yunxiao: what each sprint is
    items,    \* Yunxiao: the work items
    run,      \* what each thread is doing
    \* history
    deleted,  \* items that were deleted
    byHand,   \* those of them that a request named
    unknown,  \* items whose creation Adapter got no answer to
    broken,   \* attempts that ended without any record
    raced     \* a sprint was created while another request was about to

vars == <<bound, partials, attempts, sprints, items, run, deleted, byHand, unknown,
          broken, raced>>
history == <<deleted, byHand, unknown, broken, raced>>

Attempts == 1 .. MaxAttempts
Items == [by : Attempts, node : Nat \ {0}, sprint : Sprints]

\* creating: "sprint" looks for it, "newSprint" creates it, "reread" looks again,
\* "item" creates an item, "check" is the guard, "bind" and "failed" the records
Creating == {"sprint", "newSprint", "reread", "item", "check", "bind", "failed"}
Pcs == {"idle", "delete"} \cup Creating

Runs == [pc : Pcs, k : Attempts \cup {None},
         n : Nat,                                \* the position to be created next
         sprint : [Kinds -> Sprints \cup {None}],\* sprintId of the two configs
         created : SUBSET Items,                 \* what the answers gave
         todo : SUBSET Nat]                      \* deletePlan: the positions left

Idle == [pc |-> "idle", k |-> None, n |-> 0, sprint |-> [kind \in Kinds |-> None],
         created |-> {}, todo |-> {}]

For(r) == attempts[r.k]
KindOf(r) == Plan[For(r)][r.n]

\* Mutation: the end of the plan is not noticed.
ContinueTooFar(w, r) ==
    [r EXCEPT !.pc = IF r.n > Len(Plan[w]) + 1 THEN "check"
                     ELSE IF r.n \in Blank[w] THEN "failed" ELSE "sprint"]

\* What comes next for the position r.n of the workflow w.
Continue(w, r) ==
    [r EXCEPT !.pc = IF r.n > Len(Plan[w]) THEN "check"
                     ELSE IF r.n \in Blank[w] THEN "failed"
                     ELSE IF r.sprint[Plan[w][r.n]] # None THEN "item"
                     ELSE "sprint"]

-----------------------------------------------------------------------------
(* Creation. *)

\* advance with a row that has no work item yet.
Begin(a) ==
    /\ run[a].pc = "idle"
    /\ Len(attempts) < MaxAttempts
    /\ \E w \in Workflows :
          /\ bound[w] = None
          /\ attempts' = Append(attempts, w)
          /\ run' = [run EXCEPT ![a] =
                       Continue(w, [Idle EXCEPT !.k = Len(attempts) + 1, !.n = 1])]
    /\ UNCHANGED <<bound, partials, sprints, items, history>>

Active == {s \in Sprints : sprints[s] = "active"}

\* Mutation: archived sprints are not asked for.
MatchedActive == Active

Matched == {s \in Sprints : sprints[s] # "none"}

\* Mutation: of several sprints of the name, any active one will do.
SelectedAny ==
    IF Active # {} THEN Active ELSE IF Cardinality(Matched) = 1 THEN Matched ELSE {}

\* The sprint of this name: the only active one, or the only one.
Selected ==
    IF Cardinality(Active) = 1 THEN Active
    ELSE IF Cardinality(Matched) = 1 THEN Matched ELSE {}

Resolve(a, s) ==
    run' = [run EXCEPT ![a] = [@ EXCEPT !.sprint[KindOf(run[a])] = s, !.pc = "item"]]

\* A creation that finds no sprint makes one; after a creation without an answer
\* to use, none is an error.  Two that match are an error in either case.  (The
\* list by name and the list of all are one step: only the last one counts.)
FindSprint(a) ==
    /\ run[a].pc \in {"sprint", "reread"}
    /\ \/ \E s \in Selected : Resolve(a, s)
       \/ /\ Selected = {}
          /\ run' = [run EXCEPT ![a].pc =
                       IF Matched = {} /\ @ = "sprint" THEN "newSprint" ELSE "failed"]
    /\ UNCHANGED <<bound, partials, attempts, sprints, items, history>>

\* POST sprints: the answer holds the id, holds none, or is an error.
CreateSprint(a) ==
    /\ run[a].pc = "newSprint"
    /\ \E s \in Sprints :
          /\ sprints[s] = "none"
          /\ sprints' = [sprints EXCEPT ![s] = "active"]
          /\ \/ Resolve(a, s)
             \/ \E pc \in {"reread", "failed"} : run' = [run EXCEPT ![a].pc = pc]
    /\ raced' = (raced \/ \E b \in Threads \ {a} : run[b].pc = "newSprint")
    /\ UNCHANGED <<bound, partials, attempts, items, deleted, byHand, unknown, broken>>

\* Mutation: an item whose answer cannot be used is passed over.
CreateItemLenient(a) ==
    LET r == run[a]
        item == [by |-> r.k, node |-> r.n, sprint |-> r.sprint[KindOf(r)]]
        next == [r EXCEPT !.n = @ + 1]
    IN  /\ r.pc = "item"
        /\ items' = items \cup {item}
        /\ \/ /\ run' = [run EXCEPT ![a] = Continue(For(r), [next EXCEPT !.created = @ \cup {item}])]
              /\ UNCHANGED unknown
           \/ /\ run' = [run EXCEPT ![a] = Continue(For(r), next)]
              /\ unknown' = unknown \cup {item}
        /\ UNCHANGED <<bound, partials, attempts, sprints, deleted, byHand, broken, raced>>

\* POST workitems, below the demand created last: with an answer that holds the
\* id, or without one.
CreateItem(a) ==
    LET r == run[a]
        item == [by |-> r.k, node |-> r.n, sprint |-> r.sprint[KindOf(r)]]
    IN  /\ r.pc = "item"
        /\ items' = items \cup {item}
        /\ \/ /\ run' = [run EXCEPT ![a] =
                           Continue(For(r), [r EXCEPT !.n = @ + 1, !.created = @ \cup {item}])]
              /\ UNCHANGED unknown
           \/ /\ run' = [run EXCEPT ![a].pc = "failed"]
              /\ unknown' = unknown \cup {item}
        /\ UNCHANGED <<bound, partials, attempts, sprints, deleted, byHand, broken, raced>>

\* A request is refused, or the assignee of the next item cannot be resolved.
Fail(a) ==
    /\ run[a].pc \in {"sprint", "newSprint", "reread", "item"}
    /\ run' = [run EXCEPT ![a].pc = "failed"]
    /\ UNCHANGED <<bound, partials, attempts, sprints, items, history>>

\* assert_yunxiao_create_result_valid: everything was made, but what the guard
\* raises carries no partialResult.
CheckResult(a) ==
    LET r == run[a] IN
    /\ r.pc = "check"
    /\ IF For(r) \in Miscategorized
       THEN /\ run' = [run EXCEPT ![a] = [@ EXCEPT !.pc = "failed", !.created = {}]]
            /\ broken' = broken \cup {r.k}
       ELSE /\ run' = [run EXCEPT ![a].pc = "bind"]
            /\ UNCHANGED broken
    /\ UNCHANGED <<bound, partials, attempts, sprints, items, deleted, byHand, unknown, raced>>

\* Mutation: the partial result holds only what was made after the first item.
RecordResultRootless(a) ==
    LET r == run[a] IN
    /\ r.pc \in {"bind", "failed"}
    /\ IF bound[For(r)] = None
       THEN /\ bound' = IF r.pc = "bind" THEN [bound EXCEPT ![For(r)] = r.k] ELSE bound
            /\ partials' = IF r.pc = "failed"
                           THEN partials \cup {i \in r.created : i.node > 1} ELSE partials
            /\ UNCHANGED broken
       ELSE broken' = broken \cup {r.k} /\ UNCHANGED <<bound, partials>>
    /\ run' = [run EXCEPT ![a] = Idle]
    /\ UNCHANGED <<attempts, sprints, items, deleted, byHand, unknown, raced>>

\* The result, or the error with its partialResult, goes into a row that is still
\* at REQUIREMENT_PARSED; another row is left alone and nothing recorded.
RecordResult(a) ==
    LET r == run[a] IN
    /\ r.pc \in {"bind", "failed"}
    /\ IF bound[For(r)] = None
       THEN /\ bound' = IF r.pc = "bind" THEN [bound EXCEPT ![For(r)] = r.k] ELSE bound
            /\ partials' = IF r.pc = "failed" THEN partials \cup r.created ELSE partials
            /\ UNCHANGED broken
       ELSE broken' = broken \cup {r.k} /\ UNCHANGED <<bound, partials>>
    /\ run' = [run EXCEPT ![a] = Idle]
    /\ UNCHANGED <<attempts, sprints, items, deleted, byHand, unknown, raced>>

\* The process dies, or a request ends in an exception nobody catches.
Break(a) ==
    /\ run[a].pc # "idle"
    /\ run' = [run EXCEPT ![a] = Idle]
    /\ broken' = IF run[a].pc \in Creating THEN broken \cup {run[a].k} ELSE broken
    /\ UNCHANGED <<bound, partials, attempts, sprints, items, deleted, byHand, unknown, raced>>

-----------------------------------------------------------------------------
(* Deletion. *)

\* The order of a plan: tasks before demands, each kind as it was created.
Before(w, m, n) ==
    \/ Plan[w][m] = "task" /\ Plan[w][n] = "demand"
    \/ Plan[w][m] = Plan[w][n] /\ m < n

\* _workflow_delete_workitem_ids: the tasks, and the demands on request.
DeletePlan(w, demands) == {n \in 1 .. Len(Plan[w]) : Plan[w][n] = "task" \/ demands}

\* DELETE workitems for a workflow: what its row records is deleted.
BeginDelete(a) ==
    /\ run[a].pc = "idle"
    /\ \E w \in {x \in Workflows : bound[x] # None}, demands \in BOOLEAN :
          /\ DeletePlan(w, demands) # {}
          /\ run' = [run EXCEPT ![a] = [Idle EXCEPT !.pc = "delete", !.k = bound[w],
                                          !.todo = DeletePlan(w, demands)]]
    /\ UNCHANGED <<bound, partials, attempts, sprints, items, history>>

\* The step of the plan that is next.
IsNext(r, n) == n \in r.todo /\ \A m \in r.todo : ~Before(For(r), m, n)

Delete(item) == items' = items \ {item} /\ deleted' = deleted \cup {item}

\* Mutation: what cannot be deleted is passed over.
DeleteItemLenient(a) ==
    LET r == run[a] IN
    /\ r.pc = "delete"
    /\ \E n \in r.todo :
          /\ IsNext(r, n)
          /\ \/ \E item \in items : item.by = r.k /\ item.node = n /\ Delete(item)
             \/ UNCHANGED <<items, deleted>>
          /\ run' = [run EXCEPT ![a] = IF r.todo = {n} THEN Idle ELSE [r EXCEPT !.todo = @ \ {n}]]
    /\ UNCHANGED <<bound, partials, attempts, sprints, byHand, unknown, broken, raced>>

\* The plan is given up at the first error: an item that is gone already is one,
\* and an item may be deleted though the answer is an error.  No row changes.
DeleteItem(a) ==
    LET r == run[a] IN
    /\ r.pc = "delete"
    /\ \/ \E n \in r.todo, item \in items :
             /\ IsNext(r, n) /\ item.by = r.k /\ item.node = n
             /\ Delete(item)
             /\ run' \in {[run EXCEPT ![a] = Idle],
                          [run EXCEPT ![a] = IF r.todo = {n} THEN Idle
                                             ELSE [r EXCEPT !.todo = @ \ {n}]]}
       \/ /\ run' = [run EXCEPT ![a] = Idle]
          /\ UNCHANGED <<items, deleted>>
    /\ UNCHANGED <<bound, partials, attempts, sprints, byHand, unknown, broken, raced>>

\* DELETE workitems with one explicit id, of a partial result or of a bound tree.
DeleteByHand(item) ==
    /\ Cardinality(byHand) < MaxByHand
    /\ item \in partials \/ bound[attempts[item.by]] = item.by
    /\ Delete(item)
    /\ byHand' = byHand \cup {item}
    /\ UNCHANGED <<bound, partials, attempts, sprints, run, unknown, broken, raced>>

\* People archive sprints.
Archive(s) ==
    /\ sprints[s] = "active"
    /\ sprints' = [sprints EXCEPT ![s] = "archived"]
    /\ UNCHANGED <<bound, partials, attempts, items, run, history>>

Init ==
    /\ bound = [w \in Workflows |-> None]
    /\ partials = {} /\ attempts = <<>> /\ items = {}
    /\ sprints = [s \in Sprints |-> "none"]
    /\ run = [a \in Threads |-> Idle]
    /\ deleted = {} /\ byHand = {} /\ unknown = {} /\ broken = {}
    /\ raced = FALSE

Step(a) ==
    \/ Begin(a) \/ FindSprint(a) \/ CreateSprint(a) \/ CreateItem(a) \/ Fail(a)
    \/ CheckResult(a) \/ RecordResult(a) \/ Break(a)
    \/ BeginDelete(a) \/ DeleteItem(a)

Next ==
    \/ \E a \in Threads : Step(a)
    \/ \E item \in items : DeleteByHand(item)
    \/ \E s \in Sprints : Archive(s)

Spec == Init /\ [][Next]_vars

-----------------------------------------------------------------------------
(* Properties. *)

TypeOK ==
    /\ bound \in [Workflows -> Attempts \cup {None}]
    /\ attempts \in Seq(Workflows) /\ Len(attempts) <= MaxAttempts
    /\ sprints \in [Sprints -> {"none", "active", "archived"}]
    /\ run \in [Threads -> Runs]
    /\ partials \subseteq Items /\ items \subseteq Items
    /\ deleted \subseteq Items /\ byHand \subseteq deleted /\ unknown \subseteq Items
    /\ broken \subseteq Attempts /\ raced \in BOOLEAN
    /\ \A a \in Threads :
          LET r == run[a] IN
          /\ r.pc \in Creating => r.k \in 1 .. Len(attempts)
          /\ r.pc \in {"sprint", "newSprint", "reread", "item"} => r.n \in DOMAIN Plan[For(r)]
          /\ r.pc = "item" => r.sprint[KindOf(r)] # None
          /\ r.pc = "delete" => r.k \in 1 .. Len(attempts) /\ r.todo \subseteq DOMAIN Plan[For(r)]

\* A row is bound to a tree only when one attempt made all of it and knows every
\* id: neither failures half way nor a second attempt leave a mixed tree behind.
BoundIsWhole ==
    \A w \in Workflows :
        bound[w] # None =>
            /\ attempts[bound[w]] = w /\ w \notin Miscategorized
            /\ \A n \in 1 .. Len(Plan[w]) :
                  \E i \in (items \cup deleted) \ unknown : i.by = bound[w] /\ i.node = n

\* An item of Yunxiao that no row and no event holds comes from an attempt that is
\* still going on or was broken off (or refused by the guard, or overtaken by
\* another), or from a creation that was not answered: a repetition, which makes
\* the whole tree again, leaves nothing behind that nobody can find.
NothingUnaccounted ==
    \A i \in items \ (partials \cup unknown) :
        \/ i.by \in broken
        \/ bound[attempts[i.by]] = i.by
        \/ \E a \in Threads : i \in run[a].created

\* Demands and tasks resolve the sprint one after the other and by name: they
\* agree, unless the sprint of the demands is archived by then.
TreeInOneSprint ==
    \A a \in Threads :
        LET s == run[a].sprint IN
        s["demand"] # None /\ s["task"] \notin {None, s["demand"]} =>
            sprints[s["demand"]] = "archived"

\* A version gets a second sprint only from two creations that overlapped; not
\* from failures and repetitions.
SecondSprintNeedsRace ==
    Cardinality({s \in Sprints : sprints[s] # "none"}) > 1 => raced

\* What a deletion by workflow leaves, whatever fails and whoever else deletes,
\* is the rest of its plan: no demand goes before a task that is recorded with it.
DeletionIsPrefix ==
    \A w \in Workflows, i \in deleted \ byHand :
        bound[w] = i.by =>
            \A m \in 1 .. Len(Plan[w]) :
                Before(w, m, i.node) => \E j \in deleted : j.by = i.by /\ j.node = m
=============================================================================
