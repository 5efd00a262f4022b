------------------------ MODULE RequirementTreeProofs ------------------------
(* What creations and deletions of work item trees leave behind, for any      *)
(* plans, any number of sprints, requests and attempts.                       *)
EXTENDS RequirementTree, FiniteSetTheorems, TLAPS

USE PlansAreTrees, BlankIsPartOfPlan, BoundsAreNatural, NothingIsNone,
    SprintsAreFinite

\* The items that were made.
Made == items \cup deleted

\* A request in good order, given the attempts and the sprints.
RunOK(r, at, sp) ==
    /\ r.pc \in Creating \cup {"delete"} => r.k \in 1 .. Len(at)
    /\ r.pc \in Creating => r.n \in 1 .. Len(Plan[at[r.k]]) + 1
    /\ r.pc \in {"sprint", "newSprint", "reread", "item"} => r.n <= Len(Plan[at[r.k]])
    /\ r.pc \in {"check", "bind"} => r.n = Len(Plan[at[r.k]]) + 1
    /\ r.pc = "bind" => at[r.k] \notin Miscategorized
    /\ r.pc = "item" => r.sprint[Plan[at[r.k]][r.n]] # None
    /\ r.pc \in {"sprint", "newSprint", "reread"} => r.sprint[Plan[at[r.k]][r.n]] = None
    /\ r.pc = "newSprint" => \A kind \in Kinds : r.sprint[kind] = None
    /\ r.pc \in Creating /\ r.n > 1 => r.sprint["demand"] # None
    /\ r.sprint["demand"] = None => r.sprint["task"] = None
    /\ \A kind \in Kinds : r.sprint[kind] # None => sp[r.sprint[kind]] # "none"
    /\ \A i \in r.created : r.pc \in Creating /\ i.by = r.k /\ i.node < r.n

\* What a request that creates a tree has made so far.
CreationOK(r, al, un, bd) ==
    r.pc \in Creating =>
        /\ \A m \in 1 .. r.n - 1 : \E i \in al \ un : i.by = r.k /\ i.node = m
        /\ \A i \in al : i.by = r.k /\ r.pc # "failed" => i.node < r.n
        /\ \A i \in un : i.by = r.k => r.pc = "failed" /\ i.node >= r.n
        /\ \A w \in Workflows : bd[w] # r.k

\* What a deletion has left out of its plan.
DeletionOK(r, at, bd, del) ==
    r.pc = "delete" =>
        /\ bd[at[r.k]] = r.k
        /\ r.todo \subseteq 1 .. Len(Plan[at[r.k]])
        /\ \A n \in r.todo, m \in 1 .. Len(Plan[at[r.k]]) :
              Before(at[r.k], m, n) => m \in r.todo \/ \E j \in del : j.by = r.k /\ j.node = m

GoodRun(r, at, sp, al, un, bd, del) ==
    RunOK(r, at, sp) /\ CreationOK(r, al, un, bd) /\ DeletionOK(r, at, bd, del)

\* The parts of the inductive invariant.
TypeInv ==
    /\ bound \in [Workflows -> Attempts \cup {None}]
    /\ attempts \in Seq(Workflows) /\ Len(attempts) <= MaxAttempts
    /\ sprints \in [Sprints -> {"none", "active", "archived"}]
    /\ run \in [Threads -> Runs]
    /\ partials \subseteq Items /\ items \subseteq Items
    /\ deleted \subseteq Items /\ byHand \subseteq deleted /\ unknown \subseteq Items
    /\ broken \subseteq Attempts /\ raced \in BOOLEAN

RunsInv ==
    /\ \A a \in Threads : GoodRun(run[a], attempts, sprints, Made, unknown, bound, deleted)
    /\ \A a, b \in Threads :
          run[a].pc \in Creating /\ run[b].pc \in Creating /\ run[a].k = run[b].k => a = b

ItemsInv ==
    /\ \A i \in items \cup deleted \cup unknown : i.by <= Len(attempts)
    /\ \A i \in deleted \ byHand : bound[attempts[i.by]] = i.by
    /\ \A w \in Workflows : bound[w] # None => bound[w] \in 1 .. Len(attempts)

RaceInv ==
    \A a \in Threads, s \in Sprints :
        run[a].pc = "newSprint" /\ sprints[s] # "none" => raced

OneSprint(s, t) == sprints[s] = "none" \/ sprints[t] = "none" \/ s = t

\* SecondSprintNeedsRace without counting.
NoSecondSprint == raced \/ \A s, t \in Sprints : OneSprint(s, t)

Inv == /\ TypeInv /\ RunsInv /\ ItemsInv /\ RaceInv
       /\ BoundIsWhole /\ NothingUnaccounted /\ TreeInOneSprint /\ DeletionIsPrefix
       /\ NoSecondSprint

-----------------------------------------------------------------------------
(* The requests that do not move. *)

\* A request that is not idle is of an attempt that was numbered.
LEMMA OfAttempt ==
    ASSUME NEW r, NEW at, NEW sp, RunOK(r, at, sp), r.pc \in Creating \cup {"delete"}
    PROVE  r.k \in 1 .. Len(at)
BY DEF RunOK

\* A bound tree stays whole as long as its row and the requests answered stay.
LEMMA WholeStays ==
    ASSUME BoundIsWhole, UNCHANGED <<bound, attempts, unknown>>, Made \subseteq Made'
    PROVE  BoundIsWhole'
BY DEF BoundIsWhole, Made

\* A deletion's order rests on what is bound and deleted only.
LEMMA PrefixStays ==
    ASSUME DeletionIsPrefix, UNCHANGED <<bound, deleted, byHand>>
    PROVE  DeletionIsPrefix'
BY DEF DeletionIsPrefix, Before

\* A request stays in order while attempts, sprints, items and deletions are added
\* to, rows of others are bound and answers of others are lost.
LEMMA Stays ==
    ASSUME NEW r \in Runs, attempts \in Seq(Workflows), attempts' \in Seq(Workflows),
           GoodRun(r, attempts, sprints, Made, unknown, bound, deleted),
           Len(attempts) <= Len(attempts'),
           \A k \in 1 .. Len(attempts) : attempts'[k] = attempts[k],
           \A s \in Sprints : sprints[s] # "none" => sprints'[s] # "none",
           Made \subseteq Made', deleted \subseteq deleted',
           r.pc \in Creating =>
              \A i \in (Made' \ Made) \cup (unknown' \ unknown) : i.by # r.k,
           r.pc \in Creating => \A w \in Workflows : bound'[w] = bound[w] \/ bound'[w] # r.k,
           \A w \in Workflows : bound[w] # None => bound'[w] = bound[w]
    PROVE  GoodRun(r, attempts', sprints', Made', unknown', bound', deleted')
<1>1. r.pc \in Creating \cup {"delete"} =>
        /\ r.k \in 1 .. Len(attempts) /\ r.k \in 1 .. Len(attempts')
        /\ attempts'[r.k] = attempts[r.k]
  <2>1. RunOK(r, attempts, sprints) /\ Len(attempts) \in Nat /\ Len(attempts') \in Nat
    BY DEF GoodRun
  <2>2. r.pc \in Creating \cup {"delete"} => r.k \in 1 .. Len(attempts)
    BY <2>1, OfAttempt
  <2>3. QED
    BY <2>1, <2>2
<1>2. RunOK(r, attempts', sprints')
  <2>1. \A kind \in Kinds : r.sprint[kind] \in Sprints \cup {None}
    BY DEF Runs
  <2>2. \A kind \in Kinds : r.sprint[kind] # None => sprints'[r.sprint[kind]] # "none"
    BY <2>1 DEF GoodRun, RunOK
  <2>3. CASE r.pc \in Creating \cup {"delete"}
    BY <1>1, <2>2, <2>3 DEF GoodRun, RunOK
  <2>4. CASE r.pc \notin Creating \cup {"delete"}
    BY <2>2, <2>4 DEF GoodRun, RunOK, Creating
  <2>5. QED
    BY <2>3, <2>4
<1>3. CreationOK(r, Made', unknown', bound')
  BY DEF GoodRun, CreationOK
<1>4. DeletionOK(r, attempts', bound', deleted')
  <2>1. SUFFICES ASSUME r.pc = "delete" PROVE DeletionOK(r, attempts', bound', deleted')
    BY DEF DeletionOK
  <2>2. /\ r.k \in 1 .. Len(attempts) /\ attempts[r.k] \in Workflows /\ r.k # None
        /\ bound[attempts[r.k]] = r.k /\ attempts'[r.k] = attempts[r.k]
    BY <2>1, <1>1 DEF GoodRun, DeletionOK
  <2>3. QED
    BY <2>1, <2>2 DEF GoodRun, DeletionOK
<1>5. QED
  BY <1>2, <1>3, <1>4 DEF GoodRun

\* The invariant of the requests, when one of them moved and nothing it holds
\* is another's.
LEMMA OneMoves ==
    ASSUME Inv, NEW a \in Threads, NEW next \in Runs, run' = [run EXCEPT ![a] = next],
           TypeInv',
           GoodRun(next, attempts', sprints', Made', unknown', bound', deleted'),
           Len(attempts) <= Len(attempts'),
           \A k \in 1 .. Len(attempts) : attempts'[k] = attempts[k],
           \A s \in Sprints : sprints[s] # "none" => sprints'[s] # "none",
           Made \subseteq Made', deleted \subseteq deleted',
           \A i \in (Made' \ Made) \cup (unknown' \ unknown) :
              run[a].pc \in Creating /\ i.by = run[a].k,
           \A w \in Workflows : bound'[w] # bound[w] =>
              bound[w] = None /\ run[a].pc \in Creating /\ bound'[w] = run[a].k,
           next.pc \in Creating =>
              \/ run[a].pc \in Creating /\ next.k = run[a].k
              \/ next.k > Len(attempts)
    PROVE  RunsInv'
<1>1. /\ run' \in [Threads -> Runs] /\ run'[a] = next
      /\ \A b \in Threads \ {a} : run'[b] = run[b] /\ run[b] \in Runs
  BY DEF Inv, TypeInv
<1>2. \A b \in Threads : GoodRun(run'[b], attempts', sprints', Made', unknown', bound', deleted')
  <2> SUFFICES ASSUME NEW b \in Threads \ {a}
               PROVE  GoodRun(run[b], attempts', sprints', Made', unknown', bound', deleted')
    BY <1>1
  <2>1. GoodRun(run[b], attempts, sprints, Made, unknown, bound, deleted) /\ run[b] \in Runs
    BY <1>1 DEF Inv, RunsInv
  <2>2. run[b].pc \in Creating /\ run[a].pc \in Creating => run[a].k # run[b].k
    BY DEF Inv, RunsInv
  <2>3. attempts \in Seq(Workflows) /\ attempts' \in Seq(Workflows)
    BY DEF Inv, TypeInv
  <2>4. run[b].pc \in Creating =>
           \A i \in (Made' \ Made) \cup (unknown' \ unknown) : i.by # run[b].k
    BY <2>2
  <2>5. run[b].pc \in Creating =>
           \A w \in Workflows : bound'[w] \in {bound[w]} \/ bound'[w] # run[b].k
    BY <2>2
  <2>6. \A w \in Workflows : bound[w] # None => bound'[w] = bound[w]
    OBVIOUS
  <2>7. QED
    BY <2>1, <2>3, <2>4, <2>5, <2>6, Stays
<1>3. \A b, c \in Threads :
         run'[b].pc \in Creating /\ run'[c].pc \in Creating /\ run'[b].k = run'[c].k => b = c
  <2>1. \A b \in Threads : run[b].pc \in Creating => run[b].k \in Nat /\ run[b].k <= Len(attempts)
    <3>1. \A b \in Threads : RunOK(run[b], attempts, sprints)
      BY DEF Inv, RunsInv, GoodRun
    <3>2. \A b \in Threads : run[b].pc \in Creating => run[b].k \in 1 .. Len(attempts)
      BY <3>1, OfAttempt
    <3>3. QED
      BY <3>2
  <2>2. Len(attempts) \in Nat
    BY DEF Inv, TypeInv
  <2>3. \A b \in Threads \ {a} :
           run'[a].pc \in Creating /\ run'[b].pc \in Creating => run'[a].k # run'[b].k
    BY <1>1, <2>1, <2>2 DEF Inv, RunsInv
  <2>4. QED
    BY <1>1, <2>3 DEF Inv, RunsInv
<1>4. QED
  BY <1>2, <1>3 DEF RunsInv

\* An idle request is in good order.
LEMMA IdleOK ==
    /\ Idle \in Runs /\ Idle.created = {} /\ Idle.pc = "idle" /\ Idle.pc \notin Creating
    /\ \A kind \in Kinds : Idle.sprint[kind] = None
    /\ \A at, sp, al, un, bd, del : GoodRun(Idle, at, sp, al, un, bd, del)
BY DEF Idle, Runs, Pcs, Creating, GoodRun, RunOK, CreationOK, DeletionOK, Kinds

-----------------------------------------------------------------------------
(* Steps that do nothing but move one request. *)

\* A request that is where it was, with the same items.
LEMMA Moves ==
    ASSUME Inv, NEW a \in Threads, run[a].pc \in Creating,
           NEW next \in Runs, RunOK(next, attempts, sprints), next.pc \in Creating,
           next.k = run[a].k, next.n = run[a].n, next.created = run[a].created,
           next.pc = "failed" \/ run[a].pc # "failed",
           next.pc = "newSprint" => \A s \in Sprints : sprints[s] # "none" => raced,
           next.sprint["demand"] # None /\ next.sprint["task"] \notin {None, next.sprint["demand"]}
              => sprints[next.sprint["demand"]] = "archived",
           run' = [run EXCEPT ![a] = next],
           UNCHANGED <<bound, partials, attempts, sprints, items, history>>
    PROVE  Inv'
<1> USE DEF history
<1>1. TypeInv'
  BY DEF Inv, TypeInv
<1>2. run'[a] = next /\ \A b \in Threads \ {a} : run'[b] = run[b]
  BY DEF Inv, TypeInv
<1>3. RunsInv'
  <2>1. GoodRun(next, attempts, sprints, Made, unknown, bound, deleted)
    BY DEF Inv, RunsInv, GoodRun, CreationOK, DeletionOK, Creating
  <2>2. Made' = Made
    BY DEF Made
  <2>3. /\ attempts' = attempts /\ sprints' = sprints /\ unknown' = unknown
        /\ bound' = bound /\ deleted' = deleted /\ Len(attempts) \in Nat
    BY DEF Inv, TypeInv
  <2>4. GoodRun(next, attempts', sprints', Made', unknown', bound', deleted')
    BY <2>1, <2>2, <2>3
  <2>5. /\ Len(attempts) <= Len(attempts')
        /\ \A k \in 1 .. Len(attempts) : attempts'[k] = attempts[k]
        /\ \A s \in Sprints : sprints[s] # "none" => sprints'[s] # "none"
        /\ Made \subseteq Made' /\ deleted \subseteq deleted'
        /\ \A i \in (Made' \ Made) \cup (unknown' \ unknown) :
              run[a].pc \in Creating /\ i.by = run[a].k
        /\ \A w \in Workflows : bound'[w] # bound[w] =>
              bound[w] = None /\ run[a].pc \in Creating /\ bound'[w] = run[a].k
    BY <2>2, <2>3
  <2>6. QED
    BY <1>1, <2>4, <2>5, OneMoves
<1>4. ItemsInv'
  BY DEF Inv, ItemsInv
<1>5. RaceInv'
  BY <1>2 DEF Inv, RaceInv
<1>6. BoundIsWhole' /\ DeletionIsPrefix' /\ NoSecondSprint'
  BY DEF Inv, BoundIsWhole, DeletionIsPrefix, NoSecondSprint, OneSprint, Before
<1>7. NothingUnaccounted'
  BY <1>2 DEF Inv, NothingUnaccounted
<1>8. TreeInOneSprint'
  BY <1>2 DEF Inv, TreeInOneSprint
<1>9. QED
  BY <1>1, <1>3, <1>4, <1>5, <1>6, <1>7, <1>8 DEF Inv

LEMMA FailOK == ASSUME Inv, NEW a \in Threads, Fail(a) PROVE Inv'
<1> DEFINE next == [run[a] EXCEPT !.pc = "failed"]
<1>1. run[a] \in Runs /\ RunOK(run[a], attempts, sprints) /\ run[a].pc \in Creating
  BY DEF Inv, TypeInv, RunsInv, GoodRun, Fail, Creating
<1>2. next \in Runs /\ RunOK(next, attempts, sprints)
  BY <1>1 DEF Runs, Pcs, Creating, RunOK
<1>3. run' = [run EXCEPT ![a] = next]
  BY DEF Fail
<1>4. /\ next.pc = "failed" /\ next.pc \in Creating /\ next.k = run[a].k
      /\ next.n = run[a].n /\ next.created = run[a].created /\ next.sprint = run[a].sprint
  BY <1>1 DEF Runs, Creating
<1>5. next.sprint["demand"] # None /\ next.sprint["task"] \notin {None, next.sprint["demand"]}
         => sprints[next.sprint["demand"]] = "archived"
  BY <1>4 DEF Inv, TreeInOneSprint
<1>6. UNCHANGED <<bound, partials, attempts, sprints, items, history>>
  BY DEF Fail
<1> HIDE DEF next
<1>7. QED
  BY <1>1, <1>2, <1>3, <1>4, <1>5, <1>6, Moves

\* The sprint that is selected is the only active one, or none is active.
LEMMA SelectedIsOnly ==
    ASSUME NEW s \in Selected
    PROVE  s \in Sprints /\ sprints[s] # "none" /\ \A t \in Sprints : sprints[t] = "active" => t = s
<1>1. IsFiniteSet(Active) /\ IsFiniteSet(Matched) /\ Active \subseteq Matched
  <2>1. Active \in SUBSET Sprints /\ Matched \in SUBSET Sprints /\ Active \subseteq Matched
    BY DEF Active, Matched
  <2>2. QED
    BY <2>1, FS_Subset
<1>2. CASE Cardinality(Active) = 1
  <2>1. PICK x : Active = {x}
    BY <1>1, <1>2, FS_Singleton
  <2>2. s = x
    BY <1>2, <2>1 DEF Selected
  <2>3. QED
    BY <2>1, <2>2 DEF Active
<1>3. CASE Cardinality(Active) # 1
  <2>1. Cardinality(Matched) = 1 /\ s \in Matched
    BY <1>3 DEF Selected
  <2>2. PICK x : Matched = {x}
    BY <1>1, <2>1, FS_Singleton
  <2>3. QED
    BY <2>1, <2>2 DEF Matched
<1>4. QED
  BY <1>2, <1>3

\* Where a request stands that is about to create an item.
LEMMA AtItem ==
    ASSUME Inv, NEW a \in Threads, run[a].pc \in {"sprint", "newSprint", "reread", "item"}
    PROVE  /\ run[a] \in Runs /\ run[a].pc \in Creating
           /\ RunOK(run[a], attempts, sprints) /\ CreationOK(run[a], Made, unknown, bound)
           /\ run[a].k \in 1 .. Len(attempts) /\ For(run[a]) \in Workflows
           /\ run[a].n \in 1 .. Len(Plan[For(run[a])]) /\ KindOf(run[a]) \in Kinds
           /\ Len(Plan[For(run[a])]) \in Nat /\ run[a].k \in Attempts
           /\ run[a].n = 1 => KindOf(run[a]) = "demand"
<1>1. run[a] \in Runs /\ GoodRun(run[a], attempts, sprints, Made, unknown, bound, deleted)
  BY DEF Inv, TypeInv, RunsInv
<1>2. run[a].pc \in Creating /\ run[a].pc # "delete"
  BY DEF Creating
<1>3. attempts \in Seq(Workflows) /\ run[a].k \in 1 .. Len(attempts) /\ attempts[run[a].k] \in Workflows
  <2>1. attempts \in Seq(Workflows) /\ RunOK(run[a], attempts, sprints)
    BY <1>1 DEF Inv, TypeInv, GoodRun
  <2>2. run[a].k \in 1 .. Len(attempts)
    BY <1>2, <2>1, OfAttempt
  <2>3. QED
    BY <2>1, <2>2
<1>4. Plan[For(run[a])] \in Seq(Kinds) /\ Plan[For(run[a])][1] = "demand"
  BY <1>3 DEF For
<1>5. run[a].n \in 1 .. Len(Plan[For(run[a])])
  <2>1. RunOK(run[a], attempts, sprints)
    BY <1>1 DEF GoodRun
  <2>2. run[a].n \in 1 .. Len(Plan[For(run[a])]) + 1 /\ run[a].n <= Len(Plan[For(run[a])])
    BY <1>2, <2>1, Zenon DEF RunOK, For
  <2>3. QED
    BY <1>4, <2>2
<1>6. run[a].k \in Attempts
  BY <1>3 DEF Inv, TypeInv, Attempts
<1>7. QED
  BY <1>1, <1>2, <1>3, <1>4, <1>5, <1>6 DEF GoodRun, KindOf, For

\* A request that has resolved its sprint.
Resolved(r, s) == [r EXCEPT !.sprint[KindOf(r)] = s, !.pc = "item"]

LEMMA ResolvedOK ==
    ASSUME Inv, NEW a \in Threads, run[a].pc \in {"sprint", "newSprint", "reread"},
           NEW s \in Sprints, sprints'[s] # "none",
           \A t \in Sprints : sprints[t] # "none" => sprints'[t] # "none",
           NEW next, next = Resolved(run[a], s)
    PROVE  /\ next \in Runs /\ RunOK(next, attempts, sprints') /\ next.pc = "item"
           /\ next.k = run[a].k /\ next.n = run[a].n /\ next.created = run[a].created
           /\ next.sprint = [run[a].sprint EXCEPT ![KindOf(run[a])] = s]
           /\ run[a].sprint[KindOf(run[a])] = None
           /\ next.sprint["demand"] # None
<1>1. /\ run[a] \in Runs /\ RunOK(run[a], attempts, sprints) /\ run[a].pc \in Creating
      /\ run[a].n \in 1 .. Len(Plan[For(run[a])]) /\ KindOf(run[a]) \in Kinds
      /\ run[a].n = 1 => KindOf(run[a]) = "demand"
  BY AtItem
<1>2. /\ run[a].sprint \in [Kinds -> Sprints \cup {None}]
      /\ run[a].n \in Nat /\ Kinds = {"demand", "task"} /\ s # None
  BY <1>1 DEF Runs, Kinds
<1>3. /\ next \in Runs /\ next.pc = "item" /\ next.k = run[a].k /\ next.n = run[a].n
      /\ next.created = run[a].created
      /\ next.sprint = [run[a].sprint EXCEPT ![KindOf(run[a])] = s]
  BY <1>1, <1>2 DEF Resolved, Runs, Pcs, Creating
<1>4. run[a].sprint[KindOf(run[a])] = None
  BY <1>1 DEF RunOK, KindOf, For
<1>5. next.sprint["demand"] # None
  <2>1. CASE KindOf(run[a]) = "demand"
    BY <1>2, <1>3, <2>1
  <2>2. CASE KindOf(run[a]) = "task"
    <3>1. run[a].n > 1
      BY <1>1, <1>2, <2>2
    <3>2. run[a].sprint["demand"] # None
      BY <1>1, <3>1 DEF RunOK
    <3>3. QED
      BY <1>2, <1>3, <2>2, <3>2
  <2>3. QED
    BY <1>1, <1>2, <2>1, <2>2
<1>6. next.sprint[KindOf(run[a])] = s /\ \A kind \in Kinds \ {KindOf(run[a])} : next.sprint[kind] = run[a].sprint[kind]
  BY <1>1, <1>2, <1>3
<1>7. \A kind \in Kinds : next.sprint[kind] # None => sprints'[next.sprint[kind]] # "none"
  BY <1>1, <1>2, <1>6 DEF RunOK
<1>8. next.sprint[Plan[attempts[next.k]][next.n]] # None
  BY <1>2, <1>3, <1>6 DEF KindOf, For
<1>9. \A i \in next.created : i.by = next.k /\ i.node < next.n
  BY <1>1, <1>3 DEF RunOK
<1>10. /\ next.k \in 1 .. Len(attempts) /\ next.n \in 1 .. Len(Plan[attempts[next.k]]) + 1
       /\ next.n <= Len(Plan[attempts[next.k]])
  BY <1>1, <1>3 DEF RunOK, For
<1>11. RunOK(next, attempts, sprints')
  BY <1>3, <1>5, <1>7, <1>8, <1>9, <1>10 DEF RunOK, Creating
<1>12. QED
  BY <1>3, <1>4, <1>5, <1>11

LEMMA FindSprintOK == ASSUME Inv, NEW a \in Threads, FindSprint(a) PROVE Inv'
<1>1. run[a].pc \in {"sprint", "reread"}
  BY DEF FindSprint
<1>2. /\ run[a] \in Runs /\ run[a].pc \in Creating /\ RunOK(run[a], attempts, sprints)
      /\ run[a].sprint \in [Kinds -> Sprints \cup {None}] /\ KindOf(run[a]) \in Kinds
  BY <1>1, AtItem DEF Runs
<1>3. UNCHANGED <<bound, partials, attempts, sprints, items, history>>
  BY DEF FindSprint
<1>4. CASE \E s \in Selected : Resolve(a, s)
  <2>1. PICK s \in Selected : Resolve(a, s)
    BY <1>4
  <2>2. s \in Sprints /\ sprints[s] # "none" /\ \A t \in Sprints : sprints[t] = "active" => t = s
    BY <2>1, SelectedIsOnly
  <2> DEFINE next == Resolved(run[a], s)
  <2>4. run' = [run EXCEPT ![a] = next] /\ sprints' = sprints
    BY <1>3, <2>1 DEF Resolve, Resolved
  <2>3. /\ next \in Runs /\ RunOK(next, attempts, sprints) /\ next.pc = "item"
        /\ next.k = run[a].k /\ next.n = run[a].n /\ next.created = run[a].created
        /\ next.sprint = [run[a].sprint EXCEPT ![KindOf(run[a])] = s]
        /\ run[a].sprint[KindOf(run[a])] = None
        /\ next.sprint["demand"] # None
    BY <1>1, <2>2, <2>4, ResolvedOK
  <2> HIDE DEF next
  <2>5. ASSUME next.sprint["demand"] # None, next.sprint["task"] \notin {None, next.sprint["demand"]}
        PROVE  sprints[next.sprint["demand"]] = "archived"
    <3>1. CASE KindOf(run[a]) = "task"
      <4>1. next.sprint["task"] = s /\ next.sprint["demand"] = run[a].sprint["demand"]
        BY <1>2, <2>3, <3>1 DEF Kinds
      <4>2. run[a].sprint["demand"] \in Sprints /\ sprints[run[a].sprint["demand"]] # "none"
        BY <1>2, <2>5, <4>1 DEF RunOK, Kinds
      <4>3. QED
        BY <2>2, <2>5, <4>1, <4>2 DEF Inv, TypeInv
    <3>2. CASE KindOf(run[a]) = "demand"
      <4>1. run[a].sprint["task"] = None
        BY <1>2, <2>3, <3>2 DEF RunOK
      <4>2. QED
        BY <1>2, <2>3, <2>5, <3>2, <4>1 DEF Kinds
    <3>3. QED
      BY <1>2, <3>1, <3>2 DEF Kinds
  <2>6. next.pc \in Creating /\ next.pc # "newSprint" /\ run[a].pc # "failed"
    BY <1>1, <2>3 DEF Creating
  <2>7. QED
    BY <1>2, <1>3, <2>3, <2>4, <2>5, <2>6, Moves
<1>5. CASE /\ Selected = {}
           /\ run' = [run EXCEPT ![a].pc =
                       IF Matched = {} /\ @ = "sprint" THEN "newSprint" ELSE "failed"]
  <2> DEFINE pc == IF Matched = {} /\ run[a].pc = "sprint" THEN "newSprint" ELSE "failed"
             next == [run[a] EXCEPT !.pc = pc]
  <2>1. run' = [run EXCEPT ![a] = next]
    BY <1>5
  <2>2. /\ next \in Runs /\ next.k = run[a].k /\ next.n = run[a].n /\ next.created = run[a].created
        /\ next.sprint = run[a].sprint /\ next.pc = pc /\ next.pc \in {"newSprint", "failed"}
    BY <1>2 DEF Runs, Pcs, Creating
  <2>3. next.pc = "newSprint" => \A s \in Sprints : sprints[s] = "none"
    BY <2>2 DEF Matched
  <2> HIDE DEF next, pc
  <2>4. next.pc = "newSprint" => \A kind \in Kinds : next.sprint[kind] = None
    BY <1>2, <2>2, <2>3 DEF RunOK
  <2>5. RunOK(next, attempts, sprints)
    BY <1>1, <1>2, <2>2, <2>4 DEF RunOK, Creating
  <2>6. next.sprint["demand"] # None /\ next.sprint["task"] \notin {None, next.sprint["demand"]}
           => sprints[next.sprint["demand"]] = "archived"
    BY <2>2 DEF Inv, TreeInOneSprint
  <2>7. next.pc \in Creating /\ run[a].pc # "failed"
    BY <1>1, <2>2 DEF Creating
  <2>8. QED
    BY <1>2, <1>3, <2>1, <2>2, <2>3, <2>5, <2>6, <2>7, Moves
<1>6. QED
  BY <1>4, <1>5 DEF FindSprint

LEMMA CreateSprintOK == ASSUME Inv, NEW a \in Threads, CreateSprint(a) PROVE Inv'
<1>1. /\ run[a].pc = "newSprint"
      /\ raced' = (raced \/ \E b \in Threads \ {a} : run[b].pc = "newSprint")
      /\ UNCHANGED <<bound, partials, attempts, items, deleted, byHand, unknown, broken>>
  BY DEF CreateSprint
<1>2. PICK s \in Sprints :
        /\ sprints[s] = "none"
        /\ sprints' = [sprints EXCEPT ![s] = "active"]
        /\ \/ Resolve(a, s)
           \/ \E pc \in {"reread", "failed"} : run' = [run EXCEPT ![a].pc = pc]
  BY DEF CreateSprint
<1>3. /\ run[a] \in Runs /\ run[a].pc \in Creating /\ RunOK(run[a], attempts, sprints)
      /\ CreationOK(run[a], Made, unknown, bound)
      /\ run[a].sprint \in [Kinds -> Sprints \cup {None}] /\ KindOf(run[a]) \in Kinds
      /\ \A kind \in Kinds : run[a].sprint[kind] = None
  BY <1>1, AtItem DEF Runs, RunOK
<1>4. /\ sprints \in [Sprints -> {"none", "active", "archived"}]
      /\ sprints'[s] = "active" /\ \A t \in Sprints \ {s} : sprints'[t] = sprints[t]
      /\ \A t \in Sprints : sprints[t] # "none" => sprints'[t] = sprints[t]
  BY <1>2 DEF Inv, TypeInv
<1>5. PICK next \in Runs :
        /\ run' = [run EXCEPT ![a] = next]
        /\ RunOK(next, attempts, sprints') /\ next.pc \in {"item", "reread", "failed"}
        /\ next.k = run[a].k /\ next.n = run[a].n /\ next.created = run[a].created
        /\ next.sprint["task"] = None \/ next.sprint["demand"] = next.sprint["task"]
  <2>1. CASE Resolve(a, s)
    <3> DEFINE next == Resolved(run[a], s)
    <3>1. run' = [run EXCEPT ![a] = next]
      BY <2>1 DEF Resolve, Resolved
    <3>5. /\ run[a].pc \in {"sprint", "newSprint", "reread"} /\ sprints'[s] # "none"
          /\ \A t \in Sprints : sprints[t] # "none" => sprints'[t] # "none"
      BY <1>1, <1>4
    <3>2. /\ next \in Runs /\ RunOK(next, attempts, sprints') /\ next.pc = "item"
          /\ next.k = run[a].k /\ next.n = run[a].n /\ next.created = run[a].created
          /\ next.sprint = [run[a].sprint EXCEPT ![KindOf(run[a])] = s]
          /\ next.sprint["demand"] # None
      BY <3>5, ResolvedOK
    <3> HIDE DEF next
    <3>3. next.sprint["task"] = None
      BY <1>3, <3>2 DEF Kinds
    <3>4. QED
      BY <3>1, <3>2, <3>3
  <2>2. ASSUME NEW pc \in {"reread", "failed"}, run' = [run EXCEPT ![a].pc = pc]
        PROVE  \E next \in Runs :
                 /\ run' = [run EXCEPT ![a] = next]
                 /\ RunOK(next, attempts, sprints') /\ next.pc \in {"item", "reread", "failed"}
                 /\ next.k = run[a].k /\ next.n = run[a].n /\ next.created = run[a].created
                 /\ next.sprint["task"] = None \/ next.sprint["demand"] = next.sprint["task"]
    <3> DEFINE next == [run[a] EXCEPT !.pc = pc]
    <3>1. run' = [run EXCEPT ![a] = next]
      BY <2>2
    <3>2. /\ next \in Runs /\ next.k = run[a].k /\ next.n = run[a].n /\ next.pc = pc
          /\ next.created = run[a].created /\ next.sprint = run[a].sprint
      BY <1>3 DEF Runs, Pcs, Creating
    <3> HIDE DEF next
    <3>3. RunOK(next, attempts, sprints')
      BY <1>1, <1>3, <1>4, <3>2 DEF RunOK, Creating
    <3>4. QED
      BY <1>3, <3>1, <3>2, <3>3 DEF Kinds
  <2>3. QED
    BY <1>2, <2>1, <2>2
<1>6. run'[a] = next /\ \A b \in Threads \ {a} : run'[b] = run[b]
  BY <1>5 DEF Inv, TypeInv
<1>7. TypeInv'
  BY <1>1, <1>2, <1>5 DEF Inv, TypeInv
<1>8. Made' = Made
  BY <1>1 DEF Made
<1>9. RunsInv'
  <2>1. GoodRun(next, attempts', sprints', Made', unknown', bound', deleted')
    BY <1>1, <1>3, <1>5, <1>8 DEF GoodRun, CreationOK, DeletionOK
  <2>2. Len(attempts) \in Nat
    BY DEF Inv, TypeInv
  <2>3. /\ Len(attempts) <= Len(attempts')
        /\ \A k \in 1 .. Len(attempts) : attempts'[k] = attempts[k]
        /\ \A t \in Sprints : sprints[t] # "none" => sprints'[t] # "none"
        /\ Made \subseteq Made' /\ deleted \subseteq deleted'
        /\ \A i \in (Made' \ Made) \cup (unknown' \ unknown) :
              run[a].pc \in Creating /\ i.by = run[a].k
        /\ \A w \in Workflows : bound'[w] # bound[w] =>
              bound[w] = None /\ run[a].pc \in Creating /\ bound'[w] = run[a].k
    BY <1>1, <1>4, <1>8, <2>2
  <2>4. QED
    BY <1>3, <1>5, <1>7, <2>1, <2>3, OneMoves
<1>10. ItemsInv' /\ BoundIsWhole' /\ DeletionIsPrefix'
  <2>1. ItemsInv'
    BY <1>1 DEF Inv, ItemsInv
  <2>2. BoundIsWhole'
    BY <1>1 DEF Inv, BoundIsWhole
  <2>3. DeletionIsPrefix'
    BY <1>1, PrefixStays DEF Inv
  <2>4. QED
    BY <2>1, <2>2, <2>3
<1>11. RaceInv'
  BY <1>1, <1>5, <1>6 DEF RaceInv
<1>12. NoSecondSprint'
  <2>1. CASE \E t \in Sprints : sprints[t] # "none"
    BY <1>1, <2>1 DEF Inv, RaceInv, NoSecondSprint
  <2>2. CASE \A t \in Sprints : sprints[t] = "none"
    BY <1>4, <2>2 DEF NoSecondSprint, OneSprint
  <2>3. QED
    BY <2>1, <2>2
<1>13. NothingUnaccounted'
  BY <1>1, <1>5, <1>6 DEF Inv, NothingUnaccounted
<1>14. TreeInOneSprint'
  <2> SUFFICES ASSUME NEW b \in Threads, run'[b].sprint["demand"] # None,
                      run'[b].sprint["task"] \notin {None, run'[b].sprint["demand"]}
               PROVE  sprints'[run'[b].sprint["demand"]] = "archived"
    BY DEF TreeInOneSprint
  <2>1. b # a
    BY <1>5, <1>6
  <2>2. run[b] \in Runs /\ run'[b] = run[b]
    BY <1>6, <2>1 DEF Inv, TypeInv
  <2>3. run[b].sprint["demand"] \in Sprints /\ sprints[run[b].sprint["demand"]] = "archived"
    BY <2>2 DEF Inv, TreeInOneSprint, Runs, Kinds
  <2>4. QED
    BY <1>4, <2>2, <2>3
<1>15. QED
  BY <1>7, <1>9, <1>10, <1>11, <1>12, <1>13, <1>14 DEF Inv

\* What a request is to do for the position n.
LEMMA ContinueOK ==
    ASSUME NEW w \in Workflows, NEW r \in Runs, r.n \in 1 .. Len(Plan[w]) + 1,
           NEW next, next = Continue(w, r)
    PROVE  /\ next \in Runs /\ next.pc \in {"check", "failed", "item", "sprint"}
           /\ next.k = r.k /\ next.n = r.n /\ next.created = r.created /\ next.sprint = r.sprint
           /\ next.pc \in {"item", "sprint"} => r.n <= Len(Plan[w])
           /\ next.pc = "check" => r.n = Len(Plan[w]) + 1
           /\ next.pc = "item" => r.sprint[Plan[w][r.n]] # None
           /\ next.pc = "sprint" => r.sprint[Plan[w][r.n]] = None
<1>1. Plan[w] \in Seq(Kinds) /\ Len(Plan[w]) \in Nat /\ r.n \in Nat
  OBVIOUS
<1> DEFINE pc == IF r.n > Len(Plan[w]) THEN "check"
                 ELSE IF r.n \in Blank[w] THEN "failed"
                 ELSE IF r.sprint[Plan[w][r.n]] # None THEN "item" ELSE "sprint"
<1>2. next = [r EXCEPT !.pc = pc]
  BY DEF Continue
<1>3. pc \in {"check", "failed", "item", "sprint"}
  OBVIOUS
<1>4. /\ pc \in {"item", "sprint"} => r.n <= Len(Plan[w])
      /\ pc = "check" => r.n = Len(Plan[w]) + 1
      /\ pc = "item" => r.sprint[Plan[w][r.n]] # None
      /\ pc = "sprint" => r.sprint[Plan[w][r.n]] = None
  BY <1>1
<1> HIDE DEF pc
<1>5. /\ next \in Runs /\ next.pc = pc /\ next.k = r.k /\ next.n = r.n
      /\ next.created = r.created /\ next.sprint = r.sprint
  BY <1>2, <1>3 DEF Runs, Pcs, Creating
<1>6. QED
  BY <1>3, <1>4, <1>5

LEMMA CreateItemOK == ASSUME Inv, NEW a \in Threads, CreateItem(a) PROVE Inv'
<1> DEFINE r == run[a]
           item == [by |-> r.k, node |-> r.n, sprint |-> r.sprint[KindOf(r)]]
           grown == [r EXCEPT !.n = @ + 1, !.created = @ \cup {item}]
           lost == [r EXCEPT !.pc = "failed"]
<1>1. /\ run[a].pc = "item" /\ items' = items \cup {item}
      /\ \/ run' = [run EXCEPT ![a] = Continue(For(r), grown)] /\ unknown' = unknown
         \/ run' = [run EXCEPT ![a] = lost] /\ unknown' = unknown \cup {item}
      /\ UNCHANGED <<bound, partials, attempts, sprints, deleted, byHand, broken, raced>>
  BY DEF CreateItem
<1>2. /\ r \in Runs /\ r.pc \in Creating /\ RunOK(r, attempts, sprints)
      /\ CreationOK(r, Made, unknown, bound) /\ For(r) \in Workflows
      /\ r.k \in 1 .. Len(attempts) /\ r.k \in Attempts /\ Len(attempts) \in Nat
      /\ r.n \in 1 .. Len(Plan[For(r)]) /\ KindOf(r) \in Kinds /\ Len(Plan[For(r)]) \in Nat
      /\ r.n = 1 => KindOf(r) = "demand"
      /\ r.sprint \in [Kinds -> Sprints \cup {None}]
  BY <1>1, AtItem DEF Runs, Inv, TypeInv
<1>3. r.sprint[KindOf(r)] # None /\ r.sprint["demand"] # None
  <2>1. r.sprint[KindOf(r)] # None
    BY <1>1, <1>2 DEF RunOK, KindOf, For
  <2>2. r.n > 1 \/ KindOf(r) = "demand"
    BY <1>2
  <2>3. QED
    BY <1>2, <2>1, <2>2 DEF RunOK
<1>4. /\ item \in Items /\ item.by = r.k /\ item.node = r.n /\ r.n \in Nat
      /\ \A i \in Made \cup unknown : i.by = r.k => i.node < r.n /\ i \notin unknown
  <2>1. item \in Items
    BY <1>2, <1>3 DEF Items
  <2>2. \A i \in unknown : i.by # r.k
    BY <1>1, <1>2 DEF CreationOK
  <2>3. QED
    BY <1>1, <1>2, <2>1, <2>2 DEF CreationOK
<1>5. Made' = Made \cup {item}
  BY <1>1 DEF Made
<1>17. r.created \subseteq Items /\ Made \subseteq Items /\ \A i \in Items : i.node \in Nat
  BY <1>2 DEF Runs, Items, Inv, TypeInv, Made
<1>6. PICK next \in Runs :
        /\ run' = [run EXCEPT ![a] = next]
        /\ next.pc \in {"check", "failed", "item", "sprint"}
        /\ next.k = r.k /\ next.sprint = r.sprint /\ r.created \subseteq next.created
        /\ RunOK(next, attempts, sprints)
        /\ CreationOK(next, Made', unknown', bound)
        /\ item \in next.created \cup unknown'
  <2>1. CASE run' = [run EXCEPT ![a] = Continue(For(r), grown)] /\ unknown' = unknown
    <3> DEFINE next == Continue(For(r), grown)
    <3>1. /\ grown \in Runs /\ grown.n = r.n + 1 /\ grown.created = r.created \cup {item}
          /\ grown.k = r.k /\ grown.sprint = r.sprint
      <4> HIDE DEF item
      <4>1. r.created \cup {item} \in SUBSET Items /\ r.n + 1 \in Nat
        BY <1>4, <1>17
      <4>2. QED
        BY <1>2, <4>1 DEF Runs
    <3>2. grown.n \in 1 .. Len(Plan[For(r)]) + 1
      BY <1>2, <3>1
    <3>3. /\ next \in Runs /\ next.pc \in {"check", "failed", "item", "sprint"}
          /\ next.k = grown.k /\ next.n = grown.n /\ next.created = grown.created
          /\ next.sprint = grown.sprint
          /\ next.pc \in {"item", "sprint"} => grown.n <= Len(Plan[For(r)])
          /\ next.pc = "check" => grown.n = Len(Plan[For(r)]) + 1
          /\ next.pc = "item" => grown.sprint[Plan[For(r)][grown.n]] # None
          /\ next.pc = "sprint" => grown.sprint[Plan[For(r)][grown.n]] = None
      <4> HIDE DEF grown
      <4>1. QED
        BY <1>2, <3>1, <3>2, ContinueOK
    <3>4. \A i \in next.created : i.by = next.k /\ i.node < next.n
      <4> HIDE DEF next, grown, item
      <4>1. QED
        BY <1>2, <1>4, <1>17, <3>1, <3>3 DEF RunOK
    <3> HIDE DEF next, grown, item
    <3>5. RunOK(next, attempts, sprints)
      <4>1. /\ r.k \in 1 .. Len(attempts) /\ attempts[r.k] = For(r) /\ r.sprint["demand"] # None
            /\ \A kind \in Kinds : r.sprint[kind] # None => sprints[r.sprint[kind]] # "none"
        BY <1>2, <1>3 DEF RunOK, For, Creating
      <4>2. QED
        BY <3>1, <3>2, <3>3, <3>4, <4>1 DEF RunOK, For, Creating
    <3>6. CreationOK(next, Made', unknown', bound)
      <4>1. \A m \in 1 .. next.n - 1 : \E i \in Made' \ unknown' : i.by = next.k /\ i.node = m
        <5> SUFFICES ASSUME NEW m \in 1 .. r.n
                     PROVE  \E i \in Made' \ unknown : i.by = r.k /\ i.node = m
          BY <2>1, <1>2, <3>1, <3>3
        <5>1. CASE m = r.n
          BY <1>4, <1>5, <5>1
        <5>2. CASE m # r.n
          BY <1>2, <1>5, <5>2 DEF CreationOK
        <5>3. QED
          BY <5>1, <5>2
      <4>2. \A i \in Made' : i.by = next.k => i.node < next.n
        BY <1>2, <1>4, <1>5, <1>17, <3>1, <3>3
      <4>3. \A i \in unknown' : i.by # next.k
        BY <1>4, <2>1, <3>1, <3>3
      <4>4. \A w \in Workflows : bound[w] # next.k
        BY <1>2, <3>1, <3>3 DEF CreationOK
      <4>5. QED
        BY <4>1, <4>2, <4>3, <4>4 DEF CreationOK
    <3>7. run' = [run EXCEPT ![a] = next]
      BY <2>1 DEF next
    <3>8. QED
      BY <3>1, <3>3, <3>5, <3>6, <3>7
  <2>2. CASE run' = [run EXCEPT ![a] = lost] /\ unknown' = unknown \cup {item}
    <3>1. /\ lost \in Runs /\ lost.pc = "failed" /\ lost.k = r.k /\ lost.n = r.n
          /\ lost.created = r.created /\ lost.sprint = r.sprint
      BY <1>2 DEF Runs, Pcs, Creating
    <3> HIDE DEF lost, item
    <3>2. RunOK(lost, attempts, sprints)
      BY <1>1, <1>2, <3>1 DEF RunOK, Creating
    <3>3. CreationOK(lost, Made', unknown', bound)
      <4>1. \A m \in 1 .. r.n - 1 : \E i \in Made' \ unknown' : i.by = r.k /\ i.node = m
        <5> SUFFICES ASSUME NEW m \in 1 .. r.n - 1
                     PROVE  \E i \in Made' \ unknown' : i.by = r.k /\ i.node = m
          OBVIOUS
        <5>1. PICK i \in Made \ unknown : i.by = r.k /\ i.node = m
          BY <1>2 DEF CreationOK
        <5>2. i # item
          BY <1>2, <1>4, <5>1
        <5>3. QED
          BY <1>5, <2>2, <5>1, <5>2
      <4>2. \A i \in unknown' : i.by = r.k => i.node >= r.n
        BY <1>2, <1>4, <2>2
      <4>3. QED
        BY <1>2, <3>1, <4>1, <4>2 DEF CreationOK, Creating
    <3>4. QED
      BY <2>2, <3>1, <3>2, <3>3
  <2>3. QED
    BY <1>1, <2>1, <2>2
<1> HIDE DEF r, item, grown, lost
<1>7. run'[a] = next /\ \A b \in Threads \ {a} : run'[b] = run[b]
  BY <1>6 DEF Inv, TypeInv
<1>8. TypeInv'
  BY <1>1, <1>4, <1>6 DEF Inv, TypeInv
<1>9. unknown \subseteq unknown' /\ unknown' \subseteq unknown \cup {item}
  BY <1>1
<1>10. RunsInv'
  <2>1. GoodRun(next, attempts', sprints', Made', unknown', bound', deleted')
    BY <1>1, <1>6 DEF GoodRun, DeletionOK
  <2>2. /\ Len(attempts) <= Len(attempts')
        /\ \A k \in 1 .. Len(attempts) : attempts'[k] = attempts[k]
        /\ \A t \in Sprints : sprints[t] # "none" => sprints'[t] # "none"
        /\ Made \subseteq Made' /\ deleted \subseteq deleted'
        /\ \A i \in (Made' \ Made) \cup (unknown' \ unknown) :
              run[a].pc \in Creating /\ i.by = run[a].k
        /\ \A w \in Workflows : bound'[w] # bound[w] =>
              bound[w] = None /\ run[a].pc \in Creating /\ bound'[w] = run[a].k
    BY <1>1, <1>2, <1>4, <1>5, <1>9 DEF r
  <2>3. next.pc \in Creating => run[a].pc \in Creating /\ next.k = run[a].k
    BY <1>2, <1>6 DEF r
  <2>4. QED
    BY <1>6, <1>8, <2>1, <2>2, <2>3, OneMoves
<1>11. ItemsInv'
  BY <1>1, <1>2, <1>4, <1>9 DEF Inv, ItemsInv
<1>12. RaceInv' /\ NoSecondSprint'
  BY <1>1, <1>6, <1>7 DEF Inv, RaceInv, NoSecondSprint, OneSprint
<1>13. BoundIsWhole'
  <2> SUFFICES ASSUME NEW w \in Workflows, bound[w] # None, NEW n \in 1 .. Len(Plan[w])
               PROVE  \E i \in (items' \cup deleted) \ unknown' : i.by = bound[w] /\ i.node = n
    BY <1>1 DEF Inv, BoundIsWhole
  <2>1. PICK i \in (items \cup deleted) \ unknown : i.by = bound[w] /\ i.node = n
    BY DEF Inv, BoundIsWhole
  <2>2. i # item
    BY <1>2, <1>4, <2>1 DEF CreationOK
  <2>3. QED
    BY <1>1, <1>9, <2>1, <2>2
<1>14. NothingUnaccounted'
  BY <1>1, <1>6, <1>7, <1>9 DEF Inv, NothingUnaccounted, r
<1>15. TreeInOneSprint' /\ DeletionIsPrefix'
  <2>1. TreeInOneSprint'
    BY <1>1, <1>6, <1>7 DEF Inv, TreeInOneSprint, r
  <2>2. DeletionIsPrefix'
    BY <1>1, PrefixStays DEF Inv
  <2>3. QED
    BY <2>1, <2>2
<1>16. QED
  BY <1>8, <1>10, <1>11, <1>12, <1>13, <1>14, <1>15 DEF Inv

-----------------------------------------------------------------------------
(* Steps that begin or end a request. *)

\* A request ends, and what it made is recorded, bound or given up.
LEMMA Ends ==
    ASSUME Inv, NEW a \in Threads, run' = [run EXCEPT ![a] = Idle], TypeInv',
           \A w \in Workflows : bound'[w] # bound[w] =>
              /\ bound[w] = None /\ run[a].pc = "bind"
              /\ bound'[w] = run[a].k /\ w = For(run[a]),
           partials \subseteq partials', broken \subseteq broken',
           \A i \in run[a].created :
              i \in partials' \/ i.by \in broken' \/ bound'[attempts[i.by]] = i.by,
           UNCHANGED <<attempts, sprints, items, deleted, byHand, unknown, raced>>
    PROVE  Inv'
<1>1. run'[a] = Idle /\ \A b \in Threads \ {a} : run'[b] = run[b]
  BY DEF Inv, TypeInv
<1>2. Made' = Made
  BY DEF Made
<1>3. /\ attempts \in Seq(Workflows) /\ Len(attempts) \in Nat
      /\ \A w \in Workflows : bound[w] # None => bound'[w] = bound[w]
  BY DEF Inv, TypeInv
<1>4. run[a].pc = "bind" =>
        /\ run[a].k \in 1 .. Len(attempts) /\ For(run[a]) \in Workflows
        /\ For(run[a]) \notin Miscategorized
        /\ run[a].n = Len(Plan[For(run[a])]) + 1 /\ Len(Plan[For(run[a])]) \in Nat
        /\ CreationOK(run[a], Made, unknown, bound) /\ run[a].pc \in Creating
        /\ run[a].k # None
  BY <1>3 DEF Inv, RunsInv, GoodRun, RunOK, For, Creating
<1>5. RunsInv'
  <2>1. Idle \in Runs /\ Idle.pc \notin Creating
        /\ GoodRun(Idle, attempts', sprints', Made', unknown', bound', deleted')
    BY IdleOK
  <2>2. /\ Len(attempts) <= Len(attempts')
        /\ \A k \in 1 .. Len(attempts) : attempts'[k] = attempts[k]
        /\ \A t \in Sprints : sprints[t] # "none" => sprints'[t] # "none"
        /\ Made \subseteq Made' /\ deleted \subseteq deleted'
        /\ \A i \in (Made' \ Made) \cup (unknown' \ unknown) :
              run[a].pc \in Creating /\ i.by = run[a].k
        /\ \A w \in Workflows : bound'[w] # bound[w] =>
              bound[w] = None /\ run[a].pc \in Creating /\ bound'[w] = run[a].k
    BY <1>2, <1>3, <1>4
  <2>3. QED
    BY <2>1, <2>2, OneMoves
<1>6. ItemsInv'
  <2>1. \A i \in deleted \ byHand : bound[attempts[i.by]] = i.by /\ i.by \in Nat /\ i.by >= 1
                                   /\ i.by <= Len(attempts)
    BY DEF Inv, TypeInv, ItemsInv, Items, Attempts
  <2>2. \A i \in deleted \ byHand : attempts[i.by] \in Workflows /\ bound[attempts[i.by]] # None
    BY <1>3, <2>1
  <2>3. \A w \in Workflows : bound'[w] # None => bound'[w] \in 1 .. Len(attempts)
    BY <1>4 DEF Inv, ItemsInv
  <2>4. QED
    BY <1>3, <2>1, <2>2, <2>3 DEF Inv, ItemsInv
<1>7. RaceInv' /\ NoSecondSprint'
  BY <1>1, IdleOK DEF Inv, RaceInv, NoSecondSprint, OneSprint
<1>8. BoundIsWhole'
  <2> SUFFICES ASSUME NEW w \in Workflows, bound'[w] # None
               PROVE  /\ attempts[bound'[w]] = w /\ w \notin Miscategorized
                      /\ \A n \in 1 .. Len(Plan[w]) :
                            \E i \in Made \ unknown : i.by = bound'[w] /\ i.node = n
    BY DEF BoundIsWhole, Made
  <2>1. CASE bound'[w] = bound[w]
    BY <2>1 DEF Inv, BoundIsWhole, Made
  <2>2. CASE bound'[w] # bound[w]
    <3>1. w = For(run[a]) /\ bound'[w] = run[a].k /\ run[a].pc = "bind"
      BY <2>2
    <3>2. 1 .. run[a].n - 1 = 1 .. Len(Plan[w])
      BY <1>4, <3>1
    <3>3. QED
      BY <1>4, <3>1, <3>2 DEF CreationOK, For
  <2>3. QED
    BY <2>1, <2>2
<1>9. NothingUnaccounted'
  <2> SUFFICES ASSUME NEW i \in items \ (partials' \cup unknown)
               PROVE  \/ i.by \in broken' \/ bound'[attempts[i.by]] = i.by
                      \/ \E b \in Threads : i \in run'[b].created
    BY DEF NothingUnaccounted
  <2>1. \/ i.by \in broken \/ bound[attempts[i.by]] = i.by
        \/ \E b \in Threads : i \in run[b].created
    BY DEF Inv, NothingUnaccounted
  <2>2. i.by \in 1 .. Len(attempts) /\ attempts[i.by] \in Workflows /\ i.by # None
    BY <1>3 DEF Inv, TypeInv, ItemsInv, Items, Attempts
  <2>3. QED
    BY <1>1, <1>3, <2>1, <2>2
<1>10. TreeInOneSprint'
  BY <1>1, IdleOK DEF Inv, TreeInOneSprint, Kinds
<1>11. DeletionIsPrefix'
  <2> SUFFICES ASSUME NEW w \in Workflows, NEW i \in deleted \ byHand, bound'[w] = i.by,
                      NEW m \in 1 .. Len(Plan[w]), Before(w, m, i.node)
               PROVE  \E j \in deleted : j.by = i.by /\ j.node = m
    BY DEF DeletionIsPrefix, Before
  <2>1. CASE bound'[w] = bound[w]
    <3>1. DeletionIsPrefix /\ bound[w] = i.by
      BY <2>1 DEF Inv
    <3>2. QED
      BY <3>1, Zenon DEF DeletionIsPrefix
  <2>2. CASE bound'[w] # bound[w]
    <3>1. w = For(run[a]) /\ i.by = run[a].k /\ run[a].pc = "bind"
      BY <2>2
    <3>2. bound[attempts[i.by]] = i.by
      BY DEF Inv, ItemsInv
    <3>3. QED
      BY <1>4, <3>1, <3>2 DEF CreationOK, For
  <2>3. QED
    BY <2>1, <2>2
<1>12. QED
  BY <1>5, <1>6, <1>7, <1>8, <1>9, <1>10, <1>11 DEF Inv

LEMMA RecordResultOK == ASSUME Inv, NEW a \in Threads, RecordResult(a) PROVE Inv'
<1>1. run[a] \in Runs /\ run[a].pc \in Creating /\ run[a].pc \in {"bind", "failed"}
  BY DEF RecordResult, Inv, TypeInv, Creating
<1>2. /\ run[a].k \in 1 .. Len(attempts) /\ For(run[a]) \in Workflows /\ run[a].k \in Attempts
      /\ \A i \in run[a].created : i.by = run[a].k
      /\ run[a].created \subseteq Items
  BY <1>1 DEF Inv, TypeInv, RunsInv, GoodRun, RunOK, For, Attempts, Runs
<1>3. /\ run' = [run EXCEPT ![a] = Idle]
      /\ UNCHANGED <<attempts, sprints, items, deleted, byHand, unknown, raced>>
  BY DEF RecordResult
<1>4. CASE bound[For(run[a])] = None
  <2>1. /\ bound' = IF run[a].pc = "bind" THEN [bound EXCEPT ![For(run[a])] = run[a].k] ELSE bound
        /\ partials' = IF run[a].pc = "failed" THEN partials \cup run[a].created ELSE partials
        /\ broken' = broken
    BY <1>4 DEF RecordResult
  <2>2. TypeInv'
    BY <1>2, <1>3, <2>1, IdleOK DEF Inv, TypeInv
  <2>3. \A w \in Workflows : bound'[w] # bound[w] =>
          /\ bound[w] = None /\ run[a].pc = "bind"
          /\ bound'[w] = run[a].k /\ w = For(run[a])
    BY <1>2, <1>4, <2>1 DEF Inv, TypeInv
  <2>4. \A i \in run[a].created : i \in partials' \/ bound'[attempts[i.by]] = i.by
    BY <1>1, <1>2, <2>1 DEF Inv, TypeInv, For
  <2>5. partials \subseteq partials' /\ broken \subseteq broken'
    BY <2>1
  <2>6. QED
    BY <1>3, <2>2, <2>3, <2>4, <2>5, Ends
<1>5. CASE bound[For(run[a])] # None
  <2>1. bound' = bound /\ partials' = partials /\ broken' = broken \cup {run[a].k}
    BY <1>5 DEF RecordResult
  <2>2. TypeInv'
    BY <1>2, <1>3, <2>1, IdleOK DEF Inv, TypeInv
  <2>3. QED
    BY <1>2, <1>3, <2>1, <2>2, Ends
<1>6. QED
  BY <1>4, <1>5

LEMMA BreakOK == ASSUME Inv, NEW a \in Threads, Break(a) PROVE Inv'
<1>1. /\ run' = [run EXCEPT ![a] = Idle]
      /\ broken' = IF run[a].pc \in Creating THEN broken \cup {run[a].k} ELSE broken
      /\ UNCHANGED <<bound, partials, attempts, sprints, items, deleted, byHand, unknown, raced>>
  BY DEF Break
<1>2. /\ run[a].pc \in Creating => run[a].k \in Attempts
      /\ \A i \in run[a].created : run[a].pc \in Creating /\ i.by = run[a].k
  BY DEF Inv, TypeInv, RunsInv, GoodRun, RunOK, Attempts
<1>3. TypeInv'
  BY <1>1, <1>2, IdleOK DEF Inv, TypeInv
<1>4. broken \subseteq broken' /\ \A i \in run[a].created : i.by \in broken'
  BY <1>1, <1>2
<1>5. QED
  BY <1>1, <1>3, <1>4, Ends

LEMMA CheckResultOK == ASSUME Inv, NEW a \in Threads, CheckResult(a) PROVE Inv'
<1>1. run[a].pc = "check" /\ run[a] \in Runs /\ run[a].pc \in Creating
  BY DEF CheckResult, Inv, TypeInv, Creating
<1>2. /\ RunOK(run[a], attempts, sprints) /\ CreationOK(run[a], Made, unknown, bound)
      /\ run[a].k \in 1 .. Len(attempts) /\ run[a].k \in Attempts
  BY <1>1 DEF Inv, TypeInv, RunsInv, GoodRun, RunOK, Attempts
<1>3. CASE For(run[a]) \notin Miscategorized
  <2> DEFINE next == [run[a] EXCEPT !.pc = "bind"]
  <2>1. /\ run' = [run EXCEPT ![a] = next]
        /\ UNCHANGED <<bound, partials, attempts, sprints, items, history>>
    BY <1>3 DEF CheckResult, history
  <2>2. /\ next \in Runs /\ next.pc = "bind" /\ next.pc \in Creating /\ next.k = run[a].k
        /\ next.n = run[a].n /\ next.created = run[a].created /\ next.sprint = run[a].sprint
    BY <1>1 DEF Runs, Pcs, Creating
  <2> HIDE DEF next
  <2>3. RunOK(next, attempts, sprints)
    BY <1>1, <1>2, <1>3, <2>2 DEF RunOK, For
  <2>4. next.sprint["demand"] # None /\ next.sprint["task"] \notin {None, next.sprint["demand"]}
           => sprints[next.sprint["demand"]] = "archived"
    BY <2>2 DEF Inv, TreeInOneSprint
  <2>5. next.pc # "newSprint" /\ run[a].pc # "failed"
    BY <1>1, <2>2
  <2>6. QED
    BY <1>1, <2>1, <2>2, <2>3, <2>4, <2>5, Moves
<1>4. CASE For(run[a]) \in Miscategorized
  <2> DEFINE next == [run[a] EXCEPT !.pc = "failed", !.created = {}]
  <2>1. /\ run' = [run EXCEPT ![a] = next] /\ broken' = broken \cup {run[a].k}
        /\ UNCHANGED <<bound, partials, attempts, sprints, items, deleted, byHand, unknown, raced>>
    BY <1>4 DEF CheckResult
  <2>2. /\ next \in Runs /\ next.pc = "failed" /\ next.pc \in Creating /\ next.k = run[a].k
        /\ next.n = run[a].n /\ next.created = {} /\ next.sprint = run[a].sprint
    BY <1>1 DEF Runs, Pcs, Creating
  <2> HIDE DEF next
  <2>3. run'[a] = next /\ \A b \in Threads \ {a} : run'[b] = run[b]
    BY <2>1 DEF Inv, TypeInv
  <2>4. TypeInv'
    BY <1>2, <2>1, <2>2 DEF Inv, TypeInv
  <2>5. Made' = Made /\ Len(attempts) \in Nat
    BY <2>1 DEF Made, Inv, TypeInv
  <2>6. RunsInv'
    <3>1. GoodRun(next, attempts', sprints', Made', unknown', bound', deleted')
      BY <1>1, <1>2, <2>1, <2>2, <2>5 DEF GoodRun, RunOK, CreationOK, DeletionOK
    <3>2. /\ Len(attempts) <= Len(attempts')
          /\ \A k \in 1 .. Len(attempts) : attempts'[k] = attempts[k]
          /\ \A t \in Sprints : sprints[t] # "none" => sprints'[t] # "none"
          /\ Made \subseteq Made' /\ deleted \subseteq deleted'
          /\ \A i \in (Made' \ Made) \cup (unknown' \ unknown) :
                run[a].pc \in Creating /\ i.by = run[a].k
          /\ \A w \in Workflows : bound'[w] # bound[w] =>
                bound[w] = None /\ run[a].pc \in Creating /\ bound'[w] = run[a].k
      BY <2>1, <2>5
    <3>3. QED
      BY <1>1, <2>1, <2>2, <2>4, <3>1, <3>2, OneMoves
  <2>7. ItemsInv' /\ RaceInv' /\ NoSecondSprint'
    BY <2>1, <2>2, <2>3 DEF Inv, ItemsInv, RaceInv, NoSecondSprint, OneSprint
  <2>8. BoundIsWhole' /\ DeletionIsPrefix' /\ TreeInOneSprint'
    <3>1. BoundIsWhole'
      BY <2>1, <2>5, WholeStays DEF Inv
    <3>2. DeletionIsPrefix'
      BY <2>1, <2>2, <2>3, PrefixStays DEF Inv
    <3>3. TreeInOneSprint'
      BY <2>1, <2>2, <2>3 DEF Inv, TreeInOneSprint
    <3>4. QED
      BY <3>1, <3>2, <3>3
  <2>9. NothingUnaccounted'
    <3>1. \A i \in run[a].created : i.by = run[a].k
      BY <1>2 DEF RunOK
    <3>2. QED
      BY <2>1, <2>2, <2>3, <3>1 DEF Inv, NothingUnaccounted
  <2>10. QED
    BY <2>4, <2>6, <2>7, <2>8, <2>9 DEF Inv
<1>5. QED
  BY <1>3, <1>4

LEMMA BeginOK == ASSUME Inv, NEW a \in Threads, Begin(a) PROVE Inv'
<1>1. PICK w \in Workflows :
        /\ bound[w] = None
        /\ attempts' = Append(attempts, w)
        /\ run' = [run EXCEPT ![a] =
                     Continue(w, [Idle EXCEPT !.k = Len(attempts) + 1, !.n = 1])]
  BY DEF Begin
<1>2. /\ run[a].pc = "idle" /\ Len(attempts) < MaxAttempts
      /\ UNCHANGED <<bound, partials, sprints, items, deleted, byHand, unknown, broken, raced>>
  BY DEF Begin, history
<1> DEFINE first == [Idle EXCEPT !.k = Len(attempts) + 1, !.n = 1]
           next == Continue(w, first)
           k == Len(attempts) + 1
<1>3. /\ attempts \in Seq(Workflows) /\ attempts' \in Seq(Workflows) /\ Len(attempts) \in Nat
      /\ Len(attempts') = k /\ attempts'[k] = w
      /\ \A j \in 1 .. Len(attempts) : attempts'[j] = attempts[j]
  BY <1>1 DEF Inv, TypeInv
<1>4. k \in Attempts /\ k \in Nat /\ k > Len(attempts)
  BY <1>2, <1>3 DEF Attempts
<1>5. /\ first \in Runs /\ first.k = k /\ first.n = 1 /\ first.created = {}
      /\ \A kind \in Kinds : first.sprint[kind] = None
  BY <1>4 DEF Idle, Runs, Pcs
<1> HIDE DEF first
<1>6. /\ Plan[w] \in Seq(Kinds) /\ Len(Plan[w]) \in Nat /\ Len(Plan[w]) >= 1
      /\ first.n \in 1 .. Len(Plan[w]) + 1
      /\ first.n <= Len(Plan[w]) /\ Plan[w][first.n] = "demand" /\ "demand" \in Kinds
      /\ "task" \in Kinds
  <2>1. Plan[w] \in Seq(Kinds) /\ Plan[w] # <<>> /\ Plan[w][1] = "demand"
    OBVIOUS
  <2>2. Len(Plan[w]) \in Nat /\ Len(Plan[w]) >= 1
    BY <2>1
  <2>3. QED
    BY <1>5, <2>1, <2>2 DEF Kinds
<1>7. /\ next \in Runs /\ next.pc \in {"check", "failed", "item", "sprint"}
      /\ next.k = k /\ next.n = 1 /\ next.created = {}
      /\ next.sprint = first.sprint
      /\ next.pc = "check" => first.n = Len(Plan[w]) + 1
      /\ next.pc = "item" => first.sprint[Plan[w][first.n]] # None
  BY <1>5, <1>6, ContinueOK
<1> HIDE DEF next, k
<1>8. next.pc \in {"failed", "sprint"} /\ next.pc \in Creating
  BY <1>5, <1>6, <1>7 DEF Creating
<1>9. run' = [run EXCEPT ![a] = next]
  BY <1>1 DEF next, first
<1>10. run'[a] = next /\ \A b \in Threads \ {a} : run'[b] = run[b]
  BY <1>9 DEF Inv, TypeInv
<1>11. Made' = Made
  BY <1>2 DEF Made
<1>12. TypeInv'
  <2>1. Len(attempts') <= MaxAttempts
    BY <1>3, <1>4 DEF Attempts
  <2>2. QED
    BY <1>2, <1>3, <1>7, <1>9, <2>1 DEF Inv, TypeInv
<1>13. \A i \in items \cup deleted \cup unknown : i.by \in 1 .. Len(attempts)
  BY <1>3 DEF Inv, TypeInv, ItemsInv, Items, Attempts
<1>14. RunsInv'
  <2>1. RunOK(next, attempts', sprints')
    BY <1>3, <1>4, <1>5, <1>6, <1>7, <1>8 DEF RunOK
  <2>2. CreationOK(next, Made', unknown', bound')
    <3>1. \A w2 \in Workflows : bound[w2] # k
      BY <1>3, <1>4 DEF Inv, TypeInv, ItemsInv
    <3>2. \A i \in Made \cup unknown : i.by # k
      BY <1>3, <1>4, <1>13 DEF Made
    <3>3. QED
      BY <1>2, <1>7, <1>11, <3>1, <3>2 DEF CreationOK
  <2>3. DeletionOK(next, attempts', bound', deleted')
    BY <1>8 DEF DeletionOK
  <2>4. GoodRun(next, attempts', sprints', Made', unknown', bound', deleted')
    BY <2>1, <2>2, <2>3 DEF GoodRun
  <2>5. /\ Len(attempts) <= Len(attempts')
        /\ \A j \in 1 .. Len(attempts) : attempts'[j] = attempts[j]
        /\ \A t \in Sprints : sprints[t] # "none" => sprints'[t] # "none"
        /\ Made \subseteq Made' /\ deleted \subseteq deleted'
        /\ \A i \in (Made' \ Made) \cup (unknown' \ unknown) :
              run[a].pc \in Creating /\ i.by = run[a].k
        /\ \A w2 \in Workflows : bound'[w2] # bound[w2] =>
              bound[w2] = None /\ run[a].pc \in Creating /\ bound'[w2] = run[a].k
    BY <1>2, <1>3, <1>4, <1>11
  <2>6. next.k > Len(attempts)
    BY <1>4, <1>7
  <2>7. QED
    BY <1>7, <1>9, <1>12, <2>4, <2>5, <2>6, OneMoves
<1>15. ItemsInv'
  <2>1. \A i \in deleted : attempts'[i.by] = attempts[i.by]
    BY <1>3, <1>13
  <2>2. \A i \in deleted' \ byHand' : bound'[attempts'[i.by]] = i.by
    BY <1>2, <2>1 DEF Inv, ItemsInv
  <2>3. \A i \in items' \cup deleted' \cup unknown' : i.by <= Len(attempts')
    <3>1. \A i \in items \cup deleted \cup unknown : i.by <= Len(attempts')
      BY <1>3, <1>4, <1>13
    <3>2. QED
      BY <1>2, <3>1
  <2>4. \A x \in Workflows : bound'[x] # None => bound'[x] \in 1 .. Len(attempts')
    BY <1>2, <1>3, <1>4 DEF Inv, ItemsInv
  <2>5. QED
    BY <2>2, <2>3, <2>4 DEF ItemsInv
<1>16. RaceInv' /\ NoSecondSprint'
  BY <1>2, <1>8, <1>10 DEF Inv, RaceInv, NoSecondSprint, OneSprint
<1>17. BoundIsWhole'
  <2>1. \A w2 \in Workflows : bound[w2] # None => attempts'[bound[w2]] = attempts[bound[w2]]
    BY <1>3 DEF Inv, ItemsInv
  <2>2. SUFFICES ASSUME NEW x \in Workflows, bound[x] # None
                 PROVE  /\ attempts[bound[x]] = x /\ x \notin Miscategorized
                        /\ \A n \in 1 .. Len(Plan[x]) :
                              \E i \in (items \cup deleted) \ unknown : i.by = bound[x] /\ i.node = n
    BY <1>2, <2>1 DEF BoundIsWhole
  <2>3. BoundIsWhole
    BY DEF Inv
  <2>4. QED
    BY <2>2, <2>3, Zenon DEF BoundIsWhole
<1>18. NothingUnaccounted'
  <2>1. \A i \in items : attempts'[i.by] = attempts[i.by]
    BY <1>3, <1>13
  <2>2. run[a].created = {}
    BY <1>2 DEF Inv, RunsInv, GoodRun, RunOK, Creating
  <2>3. QED
    BY <1>2, <1>10, <2>1, <2>2 DEF Inv, NothingUnaccounted
<1>19. TreeInOneSprint' /\ DeletionIsPrefix'
  <2>1. TreeInOneSprint'
    BY <1>2, <1>5, <1>6, <1>7, <1>10 DEF Inv, TreeInOneSprint
  <2>2. DeletionIsPrefix'
    BY <1>2, PrefixStays DEF Inv
  <2>3. QED
    BY <2>1, <2>2
<1>20. QED
  BY <1>12, <1>14, <1>15, <1>16, <1>17, <1>18, <1>19 DEF Inv

LEMMA BeginDeleteOK == ASSUME Inv, NEW a \in Threads, BeginDelete(a) PROVE Inv'
<1>1. PICK w \in Workflows, demands \in BOOLEAN :
        /\ bound[w] # None
        /\ run' = [run EXCEPT ![a] = [Idle EXCEPT !.pc = "delete", !.k = bound[w],
                                        !.todo = DeletePlan(w, demands)]]
  BY DEF BeginDelete
<1>2. /\ run[a].pc = "idle"
      /\ UNCHANGED <<bound, partials, attempts, sprints, items, deleted, byHand, unknown,
                     broken, raced>>
  BY DEF BeginDelete, history
<1> DEFINE next == [Idle EXCEPT !.pc = "delete", !.k = bound[w], !.todo = DeletePlan(w, demands)]
<1>3. /\ bound[w] \in 1 .. Len(attempts) /\ bound[w] \in Attempts /\ attempts[bound[w]] = w
      /\ Plan[w] \in Seq(Kinds) /\ Len(Plan[w]) \in Nat /\ Len(attempts) \in Nat
  BY <1>1 DEF Inv, TypeInv, ItemsInv, BoundIsWhole
<1>4. DeletePlan(w, demands) \subseteq 1 .. Len(Plan[w]) /\ DeletePlan(w, demands) \subseteq Nat
  BY <1>3 DEF DeletePlan
<1>5. /\ next \in Runs /\ next.pc = "delete" /\ next.k = bound[w] /\ next.created = {}
      /\ next.todo = DeletePlan(w, demands) /\ next.pc \notin Creating
      /\ \A kind \in Kinds : next.sprint[kind] = None
  BY <1>3, <1>4 DEF Idle, Runs, Pcs, Creating
<1>6. run' = [run EXCEPT ![a] = next]
  BY <1>1
<1> HIDE DEF next
<1>7. run'[a] = next /\ \A b \in Threads \ {a} : run'[b] = run[b]
  BY <1>6 DEF Inv, TypeInv
<1>8. Made' = Made
  BY <1>2 DEF Made
<1>9. TypeInv'
  BY <1>2, <1>5, <1>6 DEF Inv, TypeInv
<1>10. RunsInv'
  <2>1. RunOK(next, attempts', sprints')
    BY <1>2, <1>3, <1>5 DEF RunOK, Creating, Kinds
  <2>2. DeletionOK(next, attempts', bound', deleted')
    <3>1. \A n \in DeletePlan(w, demands), m \in 1 .. Len(Plan[w]) :
             Before(w, m, n) => m \in DeletePlan(w, demands)
      BY <1>3 DEF DeletePlan, Before
    <3>2. QED
      BY <1>2, <1>3, <1>4, <1>5, <3>1 DEF DeletionOK
  <2>3. GoodRun(next, attempts', sprints', Made', unknown', bound', deleted')
    BY <1>5, <2>1, <2>2 DEF GoodRun, CreationOK
  <2>4. /\ Len(attempts) <= Len(attempts')
        /\ \A j \in 1 .. Len(attempts) : attempts'[j] = attempts[j]
        /\ \A t \in Sprints : sprints[t] # "none" => sprints'[t] # "none"
        /\ Made \subseteq Made' /\ deleted \subseteq deleted'
        /\ \A i \in (Made' \ Made) \cup (unknown' \ unknown) :
              run[a].pc \in Creating /\ i.by = run[a].k
        /\ \A x \in Workflows : bound'[x] # bound[x] =>
              bound[x] = None /\ run[a].pc \in Creating /\ bound'[x] = run[a].k
    BY <1>2, <1>3, <1>8
  <2>5. QED
    BY <1>5, <1>6, <1>9, <2>3, <2>4, OneMoves
<1>11. ItemsInv' /\ BoundIsWhole'
  <2>1. ItemsInv'
    BY <1>2 DEF Inv, ItemsInv
  <2>2. BoundIsWhole'
    BY <1>2 DEF Inv, BoundIsWhole
  <2>3. QED
    BY <2>1, <2>2
<1>12. RaceInv' /\ NoSecondSprint'
  BY <1>2, <1>5, <1>7 DEF Inv, RaceInv, NoSecondSprint, OneSprint
<1>13. NothingUnaccounted'
  <2>1. run[a].created = {}
    BY <1>2 DEF Inv, RunsInv, GoodRun, RunOK, Creating
  <2>2. QED
    BY <1>2, <1>7, <2>1 DEF Inv, NothingUnaccounted
<1>14. TreeInOneSprint'
  BY <1>2, <1>5, <1>7 DEF Inv, TreeInOneSprint, Kinds
<1>15. DeletionIsPrefix'
  BY <1>2, PrefixStays DEF Inv
<1>16. QED
  BY <1>9, <1>10, <1>11, <1>12, <1>13, <1>14, <1>15 DEF Inv

\* A plan step deletes the item x at the position n, and the plan goes on or ends.
LEMMA Deletes ==
    ASSUME Inv, NEW a \in Threads, run[a].pc = "delete",
           NEW n \in run[a].todo, NEW x \in items,
           IsNext(run[a], n), x.by = run[a].k, x.node = n, Delete(x),
           NEW next \in Runs, run' = [run EXCEPT ![a] = next],
           \/ next = Idle
           \/ /\ next.pc = "delete" /\ next.k = run[a].k /\ next.created = {}
              /\ next.sprint = run[a].sprint /\ next.todo = run[a].todo \ {n},
           UNCHANGED <<bound, partials, attempts, sprints, byHand, unknown, broken, raced>>
    PROVE  Inv'
<1>1. /\ items' = items \ {x} /\ deleted' = deleted \cup {x} /\ Made' = Made
  BY DEF Delete, Made
<1>2. /\ RunOK(run[a], attempts, sprints) /\ DeletionOK(run[a], attempts, bound, deleted)
      /\ run[a].k \in 1 .. Len(attempts) /\ run[a].pc \notin Creating
      /\ attempts[run[a].k] \in Workflows /\ Len(attempts) \in Nat /\ run[a].created = {}
  <2>1. RunOK(run[a], attempts, sprints) /\ DeletionOK(run[a], attempts, bound, deleted)
    BY DEF Inv, RunsInv, GoodRun
  <2>2. run[a].pc \notin Creating
    BY DEF Creating
  <2>3. attempts \in Seq(Workflows)
    BY DEF Inv, TypeInv
  <2>4. run[a].k \in 1 .. Len(attempts)
    BY <2>1, OfAttempt
  <2>5. run[a].created = {}
    BY <2>1, <2>2 DEF RunOK
  <2>6. QED
    BY <2>1, <2>2, <2>3, <2>4, <2>5
<1>3. /\ bound[attempts[run[a].k]] = run[a].k /\ n \in 1 .. Len(Plan[attempts[run[a].k]])
  BY <1>2 DEF DeletionOK
<1>4. run'[a] = next /\ \A b \in Threads \ {a} : run'[b] = run[b]
  BY DEF Inv, TypeInv
<1>5. TypeInv'
  BY <1>1 DEF Inv, TypeInv
<1>6. /\ next.pc \in {"idle", "delete"} /\ next.pc \notin Creating /\ next.created = {}
      /\ next.sprint = run[a].sprint \/ \A kind \in Kinds : next.sprint[kind] = None
  BY IdleOK DEF Creating
<1>7. RunsInv'
  <2>1. GoodRun(next, attempts', sprints', Made', unknown', bound', deleted')
    <3>1. CASE next = Idle
      BY <3>1, IdleOK
    <3>2. CASE /\ next.pc = "delete" /\ next.k = run[a].k /\ next.created = {}
               /\ next.sprint = run[a].sprint /\ next.todo = run[a].todo \ {n}
      <4>1. RunOK(next, attempts', sprints')
        BY <1>2, <1>6, <3>2 DEF RunOK, Creating
      <4>2. DeletionOK(next, attempts', bound', deleted')
        BY <1>1, <1>2, <3>2 DEF DeletionOK
      <4>3. QED
        BY <1>6, <4>1, <4>2 DEF GoodRun, CreationOK
    <3>3. QED
      BY <3>1, <3>2
  <2>2. /\ Len(attempts) <= Len(attempts')
        /\ \A j \in 1 .. Len(attempts) : attempts'[j] = attempts[j]
        /\ \A t \in Sprints : sprints[t] # "none" => sprints'[t] # "none"
        /\ Made \subseteq Made' /\ deleted \subseteq deleted'
        /\ \A i \in (Made' \ Made) \cup (unknown' \ unknown) :
              run[a].pc \in Creating /\ i.by = run[a].k
        /\ \A w \in Workflows : bound'[w] # bound[w] =>
              bound[w] = None /\ run[a].pc \in Creating /\ bound'[w] = run[a].k
    BY <1>1, <1>2
  <2>3. QED
    BY <1>5, <1>6, <2>1, <2>2, OneMoves
<1>8. ItemsInv'
  BY <1>1, <1>2, <1>3 DEF Inv, ItemsInv
<1>9. RaceInv' /\ NoSecondSprint'
  BY <1>4, <1>6 DEF Inv, RaceInv, NoSecondSprint, OneSprint
<1>10. BoundIsWhole'
  BY <1>1 DEF Inv, BoundIsWhole, Made
<1>11. NothingUnaccounted'
  BY <1>1, <1>2, <1>4 DEF Inv, NothingUnaccounted
<1>12. TreeInOneSprint'
  BY <1>4, <1>6 DEF Inv, TreeInOneSprint, Kinds
<1>13. DeletionIsPrefix'
  <2> SUFFICES ASSUME NEW w \in Workflows, NEW i \in deleted' \ byHand, bound[w] = i.by,
                      NEW m \in 1 .. Len(Plan[w]), Before(w, m, i.node)
               PROVE  \E j \in deleted' : j.by = i.by /\ j.node = m
    BY DEF DeletionIsPrefix, Before
  <2>1. CASE i \in deleted
    <3>1. DeletionIsPrefix /\ i \in deleted \ byHand /\ bound[w] = i.by
      BY <2>1 DEF Inv
    <3>2. \A q \in 1 .. Len(Plan[w]) :
            Before(w, q, i.node) => \E j \in deleted : j.by = i.by /\ j.node = q
      BY <3>1, Zenon DEF DeletionIsPrefix
    <3>3. \E j \in deleted : j.by = i.by /\ j.node = m
      BY <3>2, Zenon
    <3>4. QED
      BY <1>1, <3>3
  <2>2. CASE i = x
    <3>1. bound[w] # None /\ bound[w] = run[a].k
      BY <1>2, <2>2 DEF Inv, TypeInv
    <3>2. attempts[run[a].k] = w
      BY <3>1 DEF Inv, BoundIsWhole
    <3>3. m \notin run[a].todo
      BY <2>2, <3>2 DEF IsNext, For
    <3>4. \E j \in deleted : j.by = run[a].k /\ j.node = m
      BY <1>2, <2>2, <3>2, <3>3 DEF DeletionOK
    <3>5. QED
      BY <1>1, <2>2, <3>4
  <2>3. QED
    BY <1>1, <2>1, <2>2
<1>14. QED
  BY <1>5, <1>7, <1>8, <1>9, <1>10, <1>11, <1>12, <1>13 DEF Inv

LEMMA DeleteItemOK == ASSUME Inv, NEW a \in Threads, DeleteItem(a) PROVE Inv'
<1>1. run[a].pc = "delete" /\ run[a] \in Runs
      /\ UNCHANGED <<bound, partials, attempts, sprints, byHand, unknown, broken, raced>>
  BY DEF DeleteItem, Inv, TypeInv
<1>2. CASE run' = [run EXCEPT ![a] = Idle] /\ UNCHANGED <<items, deleted>>
  <2>1. run[a].created = {}
    BY <1>1 DEF Inv, RunsInv, GoodRun, RunOK, Creating
  <2>2. TypeInv'
    BY <1>1, <1>2, IdleOK DEF Inv, TypeInv
  <2>3. QED
    BY <1>1, <1>2, <2>1, <2>2, Ends
<1>3. ASSUME NEW n \in run[a].todo, NEW x \in items,
             IsNext(run[a], n), x.by = run[a].k, x.node = n, Delete(x),
             run' \in {[run EXCEPT ![a] = Idle],
                       [run EXCEPT ![a] = IF run[a].todo = {n} THEN Idle
                                          ELSE [run[a] EXCEPT !.todo = @ \ {n}]]}
      PROVE  Inv'
  <2> DEFINE rest == [run[a] EXCEPT !.todo = @ \ {n}]
  <2>1. /\ rest \in Runs /\ rest.pc = "delete" /\ rest.k = run[a].k
        /\ rest.created = run[a].created
        /\ rest.sprint = run[a].sprint /\ rest.todo = run[a].todo \ {n}
    BY <1>1 DEF Runs
  <2>2. rest.created = {}
    BY <1>1, <2>1 DEF Inv, RunsInv, GoodRun, RunOK, Creating
  <2>3. PICK next \in {Idle, rest} : run' = [run EXCEPT ![a] = next]
    BY <1>3
  <2> HIDE DEF rest
  <2>4. next \in Runs
    BY <2>1, <2>3, IdleOK
  <2>5. \/ next = Idle
        \/ /\ next.pc = "delete" /\ next.k = run[a].k /\ next.created = {}
           /\ next.sprint = run[a].sprint /\ next.todo = run[a].todo \ {n}
    BY <2>1, <2>2, <2>3
  <2>6. QED
    BY <1>1, <1>3, <2>3, <2>4, <2>5, Deletes
<1>4. QED
  BY <1>2, <1>3 DEF DeleteItem

\* Steps of others leave every request in order.
LEMMA OthersMove ==
    ASSUME Inv, UNCHANGED <<run, bound, attempts, unknown>>, Made' = Made,
           deleted \subseteq deleted',
           \A s \in Sprints : sprints[s] # "none" => sprints'[s] # "none"
    PROVE  RunsInv'
<1>1. attempts \in Seq(Workflows) /\ attempts' \in Seq(Workflows) /\ Len(attempts) \in Nat
  BY DEF Inv, TypeInv
<1>2. ASSUME NEW a \in Threads
      PROVE  GoodRun(run[a], attempts', sprints', Made', unknown', bound', deleted')
  <2>1. run[a] \in Runs /\ GoodRun(run[a], attempts, sprints, Made, unknown, bound, deleted)
    BY DEF Inv, TypeInv, RunsInv
  <2>2. /\ Len(attempts) <= Len(attempts')
        /\ \A k \in 1 .. Len(attempts) : attempts'[k] = attempts[k]
        /\ Made \subseteq Made'
        /\ run[a].pc \in Creating =>
              \A i \in (Made' \ Made) \cup (unknown' \ unknown) : i.by # run[a].k
        /\ run[a].pc \in Creating =>
              \A w \in Workflows : bound'[w] = bound[w] \/ bound'[w] # run[a].k
        /\ \A w \in Workflows : bound[w] # None => bound'[w] = bound[w]
    BY <1>1
  <2>3. QED
    BY <1>1, <2>1, <2>2, Stays
<1>3. QED
  BY <1>2 DEF Inv, RunsInv

LEMMA DeleteByHandOK == ASSUME Inv, NEW x \in items, DeleteByHand(x) PROVE Inv'
<1>1. /\ items' = items \ {x} /\ deleted' = deleted \cup {x} /\ byHand' = byHand \cup {x}
      /\ UNCHANGED <<bound, partials, attempts, sprints, run, unknown, broken, raced>>
      /\ Made' = Made
  BY DEF DeleteByHand, Delete, Made
<1>2. TypeInv'
  BY <1>1 DEF Inv, TypeInv
<1>3. RunsInv'
  BY <1>1, OthersMove
<1>4. ItemsInv' /\ RaceInv' /\ NoSecondSprint' /\ TreeInOneSprint'
  BY <1>1 DEF Inv, ItemsInv, RaceInv, NoSecondSprint, OneSprint, TreeInOneSprint
<1>5. BoundIsWhole' /\ NothingUnaccounted'
  BY <1>1 DEF Inv, BoundIsWhole, NothingUnaccounted, Made
<1>6. DeletionIsPrefix'
  BY <1>1 DEF Inv, DeletionIsPrefix, Before
<1>7. QED
  BY <1>2, <1>3, <1>4, <1>5, <1>6 DEF Inv

LEMMA ArchiveOK == ASSUME Inv, NEW s \in Sprints, Archive(s) PROVE Inv'
<1>1. /\ sprints[s] = "active" /\ sprints' = [sprints EXCEPT ![s] = "archived"]
      /\ UNCHANGED <<bound, partials, attempts, items, run, deleted, byHand, unknown, broken, raced>>
      /\ Made' = Made
  BY DEF Archive, history, Made
<1>2. sprints'[s] = "archived" /\ \A t \in Sprints \ {s} : sprints'[t] = sprints[t]
  BY <1>1 DEF Inv, TypeInv
<1>3. TypeInv'
  BY <1>1 DEF Inv, TypeInv
<1>4. RunsInv'
  BY <1>1, <1>2, OthersMove
<1>5. ItemsInv' /\ BoundIsWhole' /\ NothingUnaccounted'
  <2>1. ItemsInv' /\ NothingUnaccounted'
    BY <1>1 DEF Inv, ItemsInv, NothingUnaccounted
  <2>2. BoundIsWhole'
    BY <1>1 DEF Inv, BoundIsWhole
  <2>3. QED
    BY <2>1, <2>2
<1>6. RaceInv' /\ NoSecondSprint'
  BY <1>1, <1>2 DEF Inv, RaceInv, NoSecondSprint, OneSprint
<1>7. DeletionIsPrefix'
  BY <1>1, PrefixStays DEF Inv
<1>8. TreeInOneSprint'
  <2> SUFFICES ASSUME NEW a \in Threads, run[a].sprint["demand"] # None,
                      run[a].sprint["task"] \notin {None, run[a].sprint["demand"]}
               PROVE  sprints'[run[a].sprint["demand"]] = "archived"
    BY <1>1 DEF TreeInOneSprint
  <2>1. run[a].sprint["demand"] \in Sprints /\ sprints[run[a].sprint["demand"]] = "archived"
    BY DEF Inv, TypeInv, TreeInOneSprint, Runs, Kinds
  <2>2. QED
    BY <1>1, <1>2, <2>1
<1>9. QED
  BY <1>3, <1>4, <1>5, <1>6, <1>7, <1>8 DEF Inv

-----------------------------------------------------------------------------
(* The theorems. *)

LEMMA InitOK == Init => Inv
<1> SUFFICES ASSUME Init PROVE Inv
  OBVIOUS
<1>1. TypeInv
  <2>1. attempts \in Seq(Workflows) /\ Len(attempts) = 0
    BY DEF Init
  <2>2. Len(attempts) <= MaxAttempts
    BY <2>1, BoundsAreNatural
  <2>3. run \in [Threads -> Runs]
    BY IdleOK DEF Init
  <2>4. QED
    BY <2>1, <2>2, <2>3 DEF Init, TypeInv
<1>2. RunsInv
  BY IdleOK DEF Init, RunsInv
<1>3. ItemsInv /\ RaceInv /\ NoSecondSprint
  BY IdleOK DEF Init, ItemsInv, RaceInv, NoSecondSprint, OneSprint
<1>4. BoundIsWhole /\ NothingUnaccounted /\ DeletionIsPrefix
  BY DEF Init, BoundIsWhole, NothingUnaccounted, DeletionIsPrefix
<1>5. TreeInOneSprint
  BY IdleOK DEF Init, TreeInOneSprint, Kinds
<1>6. QED
  BY <1>1, <1>2, <1>3, <1>4, <1>5 DEF Inv

LEMMA NextOK == Inv /\ [Next]_vars => Inv'
<1> SUFFICES ASSUME Inv, [Next]_vars PROVE Inv'
  OBVIOUS
<1>1. ASSUME NEW a \in Threads, Step(a) PROVE Inv'
  BY <1>1, BeginOK, FindSprintOK, CreateSprintOK, CreateItemOK, FailOK, CheckResultOK,
     RecordResultOK, BreakOK, BeginDeleteOK, DeleteItemOK DEF Step
<1>2. ASSUME NEW x \in items, DeleteByHand(x) PROVE Inv'
  BY <1>2, DeleteByHandOK
<1>3. ASSUME NEW s \in Sprints, Archive(s) PROVE Inv'
  BY <1>3, ArchiveOK
<1>4. CASE UNCHANGED vars
  <2>1. /\ UNCHANGED <<bound, partials, attempts, sprints, items, run, deleted, byHand,
                       unknown, broken, raced>>
        /\ Made' = Made
    BY <1>4 DEF vars, Made
  <2>2. RunsInv'
    BY <2>1, OthersMove
  <2>3. TypeInv' /\ ItemsInv' /\ RaceInv' /\ NoSecondSprint'
    BY <2>1 DEF Inv, TypeInv, ItemsInv, RaceInv, NoSecondSprint, OneSprint
  <2>4. NothingUnaccounted' /\ TreeInOneSprint'
    BY <2>1 DEF Inv, NothingUnaccounted, TreeInOneSprint
  <2>5. BoundIsWhole'
    BY <2>1 DEF Inv, BoundIsWhole
  <2>6. DeletionIsPrefix'
    BY <2>1, PrefixStays DEF Inv
  <2>7. QED
    BY <2>2, <2>3, <2>4, <2>5, <2>6 DEF Inv
<1>5. QED
  BY <1>1, <1>2, <1>3, <1>4 DEF Next

THEOREM Invariance == Spec => []Inv
<1>1. QED
  BY InitOK, NextOK, PTL DEF Spec

\* Requests, items and sprints keep their types: no request leaves its plan.
THEOREM TypeCorrect == Spec => []TypeOK
<1>1. Inv => TypeOK
  <2> SUFFICES ASSUME Inv PROVE TypeOK
    OBVIOUS
  <2>1. \A a \in Threads :
          LET r == run[a] IN
          /\ r.pc \in Creating => r.k \in 1 .. Len(attempts)
          /\ r.pc \in {"sprint", "newSprint", "reread", "item"} => r.n \in DOMAIN Plan[For(r)]
          /\ r.pc = "item" => r.sprint[KindOf(r)] # None
          /\ r.pc = "delete" => r.k \in 1 .. Len(attempts) /\ r.todo \subseteq DOMAIN Plan[For(r)]
    <3> SUFFICES ASSUME NEW a \in Threads
                 PROVE  LET r == run[a] IN
          /\ r.pc \in Creating => r.k \in 1 .. Len(attempts)
          /\ r.pc \in {"sprint", "newSprint", "reread", "item"} => r.n \in DOMAIN Plan[For(r)]
          /\ r.pc = "item" => r.sprint[KindOf(r)] # None
          /\ r.pc = "delete" => r.k \in 1 .. Len(attempts) /\ r.todo \subseteq DOMAIN Plan[For(r)]
      OBVIOUS
    <3>1. /\ RunOK(run[a], attempts, sprints) /\ DeletionOK(run[a], attempts, bound, deleted)
          /\ attempts \in Seq(Workflows)
      BY DEF Inv, TypeInv, RunsInv, GoodRun
    <3>2. run[a].pc \in {"sprint", "newSprint", "reread", "item"} =>
             run[a].n \in DOMAIN Plan[For(run[a])]
      <4> SUFFICES ASSUME run[a].pc \in {"sprint", "newSprint", "reread", "item"}
                   PROVE  run[a].n \in DOMAIN Plan[For(run[a])]
        OBVIOUS
      <4>1. For(run[a]) \in Workflows /\ run[a].n \in 1 .. Len(Plan[For(run[a])])
        BY AtItem
      <4>2. QED
        BY <4>1
    <3>3. run[a].pc = "delete" => run[a].todo \subseteq DOMAIN Plan[For(run[a])]
      <4> SUFFICES ASSUME run[a].pc = "delete" PROVE run[a].todo \subseteq DOMAIN Plan[For(run[a])]
        OBVIOUS
      <4>1. For(run[a]) \in Workflows /\ run[a].todo \subseteq 1 .. Len(Plan[For(run[a])])
        BY <3>1 DEF RunOK, DeletionOK, For
      <4>2. QED
        BY <4>1
    <3>4. QED
      BY <3>1, <3>2, <3>3 DEF RunOK, For, KindOf
  <2>2. QED
    BY <2>1 DEF Inv, TypeInv, TypeOK
<1>2. QED
  BY <1>1, Invariance, PTL

\* A row is bound to a tree only when one attempt made all of it: neither failures
\* half way nor attempts that overlap leave a mixed tree behind.
THEOREM BoundTreesAreWhole == Spec => []BoundIsWhole
<1>1. QED
  BY Invariance, PTL DEF Inv

\* What failed attempts made is recorded, unless the attempt was broken off or the
\* answer was lost.
THEOREM OrphansAreKnown == Spec => []NothingUnaccounted
<1>1. QED
  BY Invariance, PTL DEF Inv

\* Demands and tasks of a tree go to one sprint, unless that of the demands is
\* archived by then.
THEOREM SprintsAgree == Spec => []TreeInOneSprint
<1>1. QED
  BY Invariance, PTL DEF Inv

\* Without two creations that overlap a version has one sprint.
THEOREM OneSprintWithoutRace == Spec => []SecondSprintNeedsRace
<1>1. Inv => SecondSprintNeedsRace
  <2> SUFFICES ASSUME Inv, ~raced
               PROVE  ~(Cardinality({s \in Sprints : sprints[s] # "none"}) > 1)
    BY DEF SecondSprintNeedsRace
  <2> DEFINE made == {s \in Sprints : sprints[s] # "none"}
  <2>1. \A s, t \in made : s = t
    BY DEF Inv, NoSecondSprint, OneSprint
  <2>2. made = {} \/ \E s : made = {s}
    <3>1. CASE made = {}
      BY <3>1
    <3>2. CASE made # {}
      <4>1. PICK s : s \in made
        BY <3>2
      <4>2. made = {s}
        BY <4>1, <2>1
      <4>3. QED
        BY <4>2
    <3>3. QED
      BY <3>1, <3>2
  <2>3. Cardinality(made) \in {0, 1}
    BY <2>2, FS_EmptySet, FS_Singleton
  <2>4. QED
    BY <2>3
<1>2. QED
  BY <1>1, Invariance, PTL

\* Deletions by workflow take a tree from its tasks up.
THEOREM DeletionFollowsPlan == Spec => []DeletionIsPrefix
<1>1. QED
  BY Invariance, PTL DEF Inv
=============================================================================
