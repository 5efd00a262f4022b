------------------------ MODULE CallbackBindingProofs ------------------------
(* Truthful pipelines are not led astray by what earlier callbacks wrote, for *)
(* any number of workflows, references, builds, commits and callbacks.        *)
EXTENDS CallbackBinding, FiniteSetTheorems, TLAPS

USE ReferencesOfWorkflows, IdsOfWorkflows, NothingIsNone, UnknownIsNoBuild,
    AboutIsKnown, PayloadsAreTruthful, BoundsAreNatural

\* A callback in good order, when G are the workflows bound by a guess.
RunOK(r, G) ==
    /\ r.pc # "idle" => r.p \in Payloads
    /\ \A i \in DOMAIN r.todo : r.todo[i] \in Names(r.p)
    /\ r.pc \in {"ref", "refShown"} => r.todo # <<>>
    /\ r.pc \in {"param", "paramShown"} => r.p.param # None /\ r.todo = r.p.message
    /\ r.pc = "commit" => r.p.commit # None
    /\ r.pc \in {"found", "import"} => r.w \in Workflows
    /\ r.pc = "found" => r.status \in Statuses /\ r.w \in Mine(r.p) \cup G

\* The inductive invariant.
Inv == /\ rows \in [Workflows -> Rows]
       /\ run \in [Threads -> Runs]
       /\ calls \in Nat
       /\ guessed \subseteq Workflows
       /\ StraysAreGuesses
       /\ \A a \in Threads : RunOK(run[a], guessed)

Lookups == {"id", "param", "paramShown", "msgId", "ref", "refShown", "build", "commit"}

-----------------------------------------------------------------------------
(* The parts of a step. *)

\* A lookup follows a reference the payload carries.
LEMMA RefIsName ==
    ASSUME NEW r \in Runs, RunOK(r, guessed), r.pc \in {"param", "paramShown", "ref", "refShown"}
    PROVE  Ref(r) \in Names(r.p)
<1>1. CASE r.pc \in {"param", "paramShown"}
  BY <1>1 DEF Ref, RunOK, Names
<1>2. CASE r.pc \in {"ref", "refShown"}
  <2>1. r.todo \in Seq(Refs) /\ r.todo # <<>>
    BY <1>2 DEF RunOK, Runs
  <2>2. 1 \in DOMAIN r.todo /\ Head(r.todo) = r.todo[1]
    BY <2>1
  <2>3. QED
    BY <1>2, <2>2 DEF Ref, RunOK
<1>3. QED
  BY <1>1, <1>2

\* The rest of a message holds only what the message holds.
LEMMA TailType ==
    ASSUME NEW s \in Seq(Refs), s # <<>>
    PROVE  /\ Tail(s) \in Seq(Refs)
           /\ \A i \in DOMAIN Tail(s) : i + 1 \in DOMAIN s /\ Tail(s)[i] = s[i + 1]
OBVIOUS

\* What is tried next is again a callback in good order.
LEMMA FallThroughOK ==
    ASSUME NEW r \in Runs, RunOK(r, guessed), r.pc \in Lookups
    PROVE  FallThrough(r) \in Runs /\ RunOK(FallThrough(r), guessed)
           /\ FallThrough(r).pc # "found"
<1>1. r.p \in Payloads /\ r.p \in PayloadType
  BY DEF RunOK, Lookups
<1>2. CASE r.pc \in {"param", "ref"}
  BY <1>1, <1>2 DEF FallThrough, RunOK, Runs, Pcs
<1>3. CASE r.pc = "paramShown"
  <2>1. FallThrough(r) = [r EXCEPT !.pc = AfterParam(r.p)]
    BY <1>3 DEF FallThrough
  <2>2. AfterParam(r.p) \in {"msgId", "ref", "build"}
    BY DEF AfterParam
  <2>3. AfterParam(r.p) = "ref" => r.todo # <<>>
    BY <1>3 DEF AfterParam, RunOK
  <2>4. QED
    BY <1>1, <2>1, <2>2, <2>3 DEF RunOK, Runs, Pcs
<1>4. CASE r.pc = "refShown" /\ Tail(r.todo) # <<>>
  <2>1. FallThrough(r) = [r EXCEPT !.pc = "ref", !.todo = Tail(r.todo)]
    BY <1>4 DEF FallThrough
  <2>2. r.todo \in Seq(Refs) /\ r.todo # <<>>
    BY <1>4 DEF RunOK, Runs
  <2>3. /\ Tail(r.todo) \in Seq(Refs)
        /\ \A i \in DOMAIN Tail(r.todo) : i + 1 \in DOMAIN r.todo /\ Tail(r.todo)[i] = r.todo[i + 1]
    BY <2>2, TailType
  <2>4. \A i \in DOMAIN Tail(r.todo) : Tail(r.todo)[i] \in Names(r.p)
    BY <2>3 DEF RunOK
  <2>5. [r EXCEPT !.pc = "ref", !.todo = Tail(r.todo)] \in Runs
    BY <2>3 DEF Runs, Pcs
  <2>6. QED
    BY <1>1, <1>4, <2>1, <2>4, <2>5 DEF RunOK, Runs
<1>5. CASE r.pc = "build" /\ r.p.commit # None
  BY <1>1, <1>5 DEF FallThrough, RunOK, Runs, Pcs
<1>6. CASE \/ r.pc \in {"id", "msgId", "commit"}
           \/ r.pc = "build" /\ r.p.commit = None
           \/ r.pc = "refShown" /\ Tail(r.todo) = <<>>
  <2>1. \E pc \in {"notFound", "notMatched"} : FallThrough(r) = [r EXCEPT !.pc = pc]
    BY <1>6 DEF FallThrough
  <2>2. QED
    BY <1>1, <2>1 DEF RunOK, Runs, Pcs
<1>7. QED
  BY <1>2, <1>3, <1>4, <1>5, <1>6 DEF Lookups

\* Rows that the payload is about, or that are in G, leave the callback in order.
LEMMA ResultOK ==
    ASSUME NEW r \in Runs, RunOK(r, guessed), r.pc \in Lookups,
           rows \in [Workflows -> Rows],
           NEW G, guessed \subseteq G,
           NEW found \in SUBSET Workflows, found \subseteq Mine(r.p) \cup G,
           NEW next \in Result(r, found)
    PROVE  next \in Runs /\ RunOK(next, G)
<1>1. CASE found = {}
  <2>1. next = FallThrough(r)
    BY <1>1 DEF Result
  <2>2. next \in Runs /\ RunOK(next, guessed) /\ next.pc # "found"
    BY <2>1, FallThroughOK
  <2>3. QED
    BY <2>2 DEF RunOK
<1>2. CASE found # {} /\ Cardinality(found) > 1
  <2>1. next = [r EXCEPT !.pc = "ambiguous"]
    BY <1>2 DEF Result
  <2>2. QED
    BY <2>1 DEF RunOK, Runs, Pcs, Lookups
<1>3. CASE found # {} /\ ~(Cardinality(found) > 1)
  <2>1. PICK w \in found :
            next = [r EXCEPT !.pc = "found", !.w = w, !.status = rows[w].status]
    BY <1>3 DEF Result
  <2>2. rows[w].status \in Statuses
    BY DEF Rows
  <2>3. next \in Runs
    BY <2>1, <2>2 DEF Runs, Pcs
  <2>4. QED
    BY <2>1, <2>2, <2>3 DEF RunOK, Runs, Lookups
<1>4. QED
  BY <1>1, <1>2, <1>3

\* What a reference finds is what the payload is about.
LEMMA NamesAreMine ==
    ASSUME NEW p \in Payloads, NEW ref \in Names(p)
    PROVE  Carriers(ref) \subseteq Mine(p)
BY DEF Truthful

\* The thread that moves and the others, whose notes of who waits only shrink.
LEMMA BecomesOK ==
    ASSUME NEW a, NEW next \in Runs, RunOK(next, guessed'), guessed \subseteq guessed',
           run \in [Threads -> Runs], \A x \in Threads : RunOK(run[x], guessed),
           Becomes(a, next)
    PROVE  run' \in [Threads -> Runs] /\ \A x \in Threads : RunOK(run'[x], guessed')
<1> DEFINE base(x) == IF x = a THEN next ELSE run[x]
           still(x) == {w \in base(x).steady : rows'[w].status \in BindingStatuses(base(x).p.kind)}
<1>1. run' = [x \in Threads |-> [base(x) EXCEPT !.steady = still(x)]]
  BY DEF Becomes
<1>2. ASSUME NEW x \in Threads
      PROVE  base(x) \in Runs /\ RunOK(base(x), guessed')
  <2>1. RunOK(run[x], guessed')
    BY DEF RunOK
  <2>2. QED
    BY <2>1
<1>3. ASSUME NEW x \in Threads
      PROVE  still(x) \in SUBSET Workflows
  BY <1>2 DEF Runs
<1> HIDE DEF base, still
<1>4. ASSUME NEW x \in Threads
      PROVE  run'[x] \in Runs /\ RunOK(run'[x], guessed')
  <2>1. run'[x] = [base(x) EXCEPT !.steady = still(x)]
    BY <1>1
  <2>2. base(x) \in Runs /\ RunOK(base(x), guessed') /\ still(x) \in SUBSET Workflows
    BY <1>2, <1>3
  <2>3. run'[x] \in Runs
    BY <2>1, <2>2 DEF Runs
  <2>4. QED
    BY <2>1, <2>2, <2>3 DEF RunOK, Runs
<1>5. QED
  BY <1>1, <1>4

LEMMA IdleOK == \A G : Idle \in Runs /\ RunOK(Idle, G)
BY DEF Idle, Runs, RunOK, Pcs

\* A write that is made for a callback brings in nothing of another workflow.
LEMMA UpdatesOK ==
    ASSUME Inv, NEW p \in Payloads, NEW w \in Workflows, w \in Mine(p) \cup guessed,
           NEW from, NEW to \in Statuses,
           Updates(w, p, from, to), UNCHANGED guessed
    PROVE  rows' \in [Workflows -> Rows] /\ StraysAreGuesses'
<1>1. CASE UNCHANGED rows
  BY <1>1 DEF Inv, StraysAreGuesses
<1>2. CASE rows' = Recorded(w, p, to)
  <2> DEFINE new == [status |-> to, build |-> p.build,
                     commit |-> IF p.commit = None THEN rows[w].commit ELSE p.commit]
  <2>1. rows' = [rows EXCEPT ![w] = new]
    BY <1>2 DEF Recorded
  <2>2. p \in PayloadType /\ Truthful(p)
    OBVIOUS
  <2>3. rows[w] \in Rows
    BY DEF Inv
  <2>4. new \in Rows
    BY <2>2, <2>3 DEF Rows, PayloadType
  <2>5. w \notin guessed => /\ p.build \in Builds => w \in About[p.build]
                            /\ p.commit # None => w \in About[p.commit]
    BY <2>2 DEF Truthful, Mine
  <2>6. w \notin guessed => /\ new.build \in Builds => w \in About[new.build]
                            /\ new.commit # None => w \in About[new.commit]
    BY <2>5 DEF Inv, StraysAreGuesses
  <2> HIDE DEF new
  <2>7. rows' \in [Workflows -> Rows]
    BY <2>1, <2>4 DEF Inv
  <2>8. \A v \in Workflows : rows'[v] = IF v = w THEN new ELSE rows[v]
    BY <2>1 DEF Inv
  <2>9. QED
    BY <2>6, <2>7, <2>8 DEF Inv, StraysAreGuesses
<1>3. QED
  BY <1>1, <1>2 DEF Updates

-----------------------------------------------------------------------------
(* The invariant. *)

LEMMA InitInv == Init => Inv
<1> SUFFICES ASSUME Init PROVE Inv
  OBVIOUS
<1>1. rows \in [Workflows -> Rows]
  BY DEF Init, Rows, Statuses
<1>2. run \in [Threads -> Runs] /\ \A a \in Threads : RunOK(run[a], guessed)
  BY IdleOK DEF Init
<1>3. StraysAreGuesses
  BY DEF Init, StraysAreGuesses
<1>4. QED
  BY <1>1, <1>2, <1>3 DEF Init, Inv

LEMMA ArriveInv ==
    ASSUME Inv, NEW a \in Threads, Arrive(a)
    PROVE  Inv'
<1>1. PICK p \in Payloads :
          Becomes(a, [Idle EXCEPT !.pc = FirstLookup(p), !.p = p, !.todo = p.message,
                                  !.steady = Waiting(p.kind)])
  BY DEF Arrive
<1> DEFINE next == [Idle EXCEPT !.pc = FirstLookup(p), !.p = p, !.todo = p.message,
                                !.steady = Waiting(p.kind)]
<1>2. p \in PayloadType /\ p.message \in Seq(Refs)
  BY DEF PayloadType
<1>3. Waiting(p.kind) \in SUBSET Workflows
  BY DEF Waiting
<1>4. FirstLookup(p) \in {"id", "param", "msgId", "ref", "build"}
  BY DEF FirstLookup, AfterParam
<1>5. /\ FirstLookup(p) = "ref" => p.message # <<>>
      /\ FirstLookup(p) = "param" => p.param # None
  BY DEF FirstLookup, AfterParam
<1>6. next \in Runs
  BY <1>2, <1>3, <1>4 DEF Idle, Runs, Pcs
<1>7. \A i \in DOMAIN p.message : p.message[i] \in Names(p)
  BY DEF Names
<1>8. RunOK(next, guessed')
  BY <1>4, <1>5, <1>6, <1>7 DEF RunOK, Runs, Idle
<1> HIDE DEF next
<1>9. run' \in [Threads -> Runs] /\ \A x \in Threads : RunOK(run'[x], guessed')
  BY <1>1, <1>6, <1>8, BecomesOK DEF Inv, Arrive, next
<1>10. QED
  BY <1>9 DEF Inv, Arrive, StraysAreGuesses

\* The rows a lookup finds are rows of the payload, unless the build is no build.
LEMMA LookUpInv ==
    ASSUME Inv, NEW a \in Threads, LookUp(a)
    PROVE  Inv'
<1> DEFINE r == run[a]
           found == Matches(run[a])
<1>1. r \in Runs /\ RunOK(r, guessed) /\ r.p \in Payloads
  BY DEF Inv, LookUp, RunOK
<1>2. r.pc \in {"id", "param", "msgId", "ref", "build", "commit"}
  BY DEF LookUp
<1>3. PICK next \in Result(r, found) :
        /\ Becomes(a, next)
        /\ guessed' = IF next.pc = "found" /\ r.pc = "build" /\ r.p.build = Unknown
                      THEN guessed \cup {next.w} ELSE guessed
  BY DEF LookUp
<1>4. r.p \in PayloadType /\ Truthful(r.p)
  BY <1>1
<1>5. found \in SUBSET Workflows
  BY <1>2 DEF Matches
<1>6. CASE r.pc \in {"id", "msgId"}
  <2>1. found \subseteq Ids(r.p) \cap Workflows
    BY <1>6 DEF Matches, Ids
  <2>2. found \subseteq Mine(r.p)
    BY <2>1, <1>4 DEF Truthful
  <2>3. guessed' = guessed
    BY <1>3, <1>6
  <2>4. next \in Runs /\ RunOK(next, guessed')
    BY <1>1, <1>2, <1>3, <1>5, <2>2, <2>3, ResultOK DEF Inv, Lookups
  <2>5. QED
    BY <1>3, <2>3, <2>4, BecomesOK DEF Inv, LookUp, StraysAreGuesses
<1>7. CASE r.pc \in {"param", "ref"}
  <2>1. Ref(r) \in Names(r.p)
    BY <1>1, <1>7, RefIsName
  <2>2. Ref(r) # None
    <3>1. r.pc = "param" => Ref(r) = r.p.param /\ r.p.param # None
      BY <1>1 DEF Ref, RunOK
    <3>2. r.pc = "ref" => Ref(r) \in Refs
      BY <1>1 DEF Ref, RunOK, Runs
    <3>3. QED
      BY <1>7, <3>1, <3>2
  <2>3. found \subseteq Carriers(Ref(r))
    BY <1>7, <2>2 DEF Matches, Item, Carriers
  <2>4. found \subseteq Mine(r.p)
    BY <2>1, <2>3, <1>1, NamesAreMine
  <2>5. guessed' = guessed
    BY <1>3, <1>7
  <2>6. next \in Runs /\ RunOK(next, guessed')
    BY <1>1, <1>2, <1>3, <1>5, <2>4, <2>5, ResultOK DEF Inv, Lookups
  <2>7. QED
    BY <1>3, <2>5, <2>6, BecomesOK DEF Inv, LookUp, StraysAreGuesses
<1>8. CASE r.pc = "commit"
  <2>1. found = {w \in Workflows : rows[w].commit = r.p.commit}
    BY <1>8 DEF Matches
  <2>2. r.p.commit # None /\ About[r.p.commit] = Mine(r.p)
    BY <1>1, <1>4, <1>8 DEF RunOK, Truthful
  <2>3. found \subseteq Mine(r.p) \cup guessed
    BY <2>1, <2>2 DEF Inv, StraysAreGuesses
  <2>4. guessed' = guessed
    BY <1>3, <1>8
  <2>5. next \in Runs /\ RunOK(next, guessed')
    BY <1>1, <1>2, <1>3, <1>5, <2>3, <2>4, ResultOK DEF Inv, Lookups
  <2>6. QED
    BY <1>3, <2>4, <2>5, BecomesOK DEF Inv, LookUp, StraysAreGuesses
<1>9. CASE r.pc = "build" /\ r.p.build # Unknown
  <2>1. found = {w \in Workflows : rows[w].build = r.p.build}
    BY <1>9 DEF Matches
  <2>2. r.p.build \in Builds /\ About[r.p.build] = Mine(r.p)
    BY <1>4, <1>9 DEF PayloadType, Mine
  <2>3. found \subseteq Mine(r.p) \cup guessed
    BY <2>1, <2>2 DEF Inv, StraysAreGuesses
  <2>4. guessed' = guessed
    BY <1>3, <1>9
  <2>5. next \in Runs /\ RunOK(next, guessed')
    BY <1>1, <1>2, <1>3, <1>5, <2>3, <2>4, ResultOK DEF Inv, Lookups
  <2>6. QED
    BY <1>3, <2>4, <2>5, BecomesOK DEF Inv, LookUp, StraysAreGuesses
<1>10. CASE r.pc = "build" /\ r.p.build = Unknown
  <2>1. next \in Runs /\ RunOK(next, guessed \cup found)
    BY <1>1, <1>2, <1>3, <1>5, ResultOK DEF Inv, Lookups
  <2>2. CASE next.pc = "found"
    <3>1. next.w \in Workflows
      BY <2>1, <2>2 DEF RunOK
    <3>2. guessed' = guessed \cup {next.w}
      BY <1>3, <1>10, <2>2
    <3>3. RunOK(next, guessed')
      BY <2>1, <3>2 DEF RunOK
    <3>4. StraysAreGuesses'
      BY <3>2 DEF Inv, LookUp, StraysAreGuesses
    <3>5. QED
      BY <1>3, <2>1, <3>1, <3>2, <3>3, <3>4, BecomesOK DEF Inv, LookUp
  <2>3. CASE next.pc # "found"
    <3>1. guessed' = guessed
      BY <1>3, <2>3
    <3>2. RunOK(next, guessed')
      BY <2>1, <2>3, <3>1 DEF RunOK
    <3>3. QED
      BY <1>3, <2>1, <3>1, <3>2, BecomesOK DEF Inv, LookUp, StraysAreGuesses
  <2>4. QED
    BY <2>2, <2>3
<1>11. QED
  BY <1>2, <1>6, <1>7, <1>8, <1>9, <1>10

LEMMA LookUpShownInv ==
    ASSUME Inv, NEW a \in Threads, LookUpShown(a)
    PROVE  Inv'
<1> DEFINE r == run[a]
<1>1. r \in Runs /\ RunOK(r, guessed) /\ r.p \in Payloads /\ r.pc \in {"paramShown", "refShown"}
  BY DEF Inv, LookUpShown, RunOK
<1>2. PICK window \in Windows(r.p.kind) :
        \E next \in Result(r, {w \in window : Ref(r) \in Shown(w)}) :
            Becomes(a, [next EXCEPT !.cut = @ \/ window # Waiting(r.p.kind)])
  BY DEF LookUpShown
<1> DEFINE found == {w \in window : Ref(r) \in Shown(w)}
<1>3. window \subseteq Workflows
  BY DEF Windows, Waiting
<1>4. Ref(r) \in Names(r.p)
  BY <1>1, RefIsName
<1>5. found \subseteq Carriers(Ref(r))
  BY <1>3 DEF Shown, Carriers
<1>6. found \in SUBSET Workflows /\ found \subseteq Mine(r.p) \cup guessed
  BY <1>1, <1>3, <1>4, <1>5, NamesAreMine
<1>7. PICK next \in Result(r, found) :
        Becomes(a, [next EXCEPT !.cut = @ \/ window # Waiting(r.p.kind)])
  BY <1>2
<1>8. UNCHANGED <<rows, calls, guessed>>
  BY DEF LookUpShown
<1> HIDE DEF found
<1>9. next \in Runs /\ RunOK(next, guessed')
  BY <1>1, <1>6, <1>7, <1>8, ResultOK DEF Inv, Lookups
<1> DEFINE noted == [next EXCEPT !.cut = @ \/ window # Waiting(r.p.kind)]
<1>10. noted \in Runs
  BY <1>9 DEF Runs
<1>11. RunOK(noted, guessed')
  BY <1>9 DEF RunOK, Runs
<1> HIDE DEF noted
<1>12. run' \in [Threads -> Runs] /\ \A x \in Threads : RunOK(run'[x], guessed')
  BY <1>7, <1>8, <1>10, <1>11, BecomesOK DEF Inv, noted
<1>13. QED
  BY <1>8, <1>12 DEF Inv, StraysAreGuesses

\* An UPDATE for a found row, after which the callback is at next.
LEMMA HandledInv ==
    ASSUME Inv, NEW a \in Threads, run[a].pc = "found",
           NEW from, NEW to \in Statuses,
           Updates(run[a].w, run[a].p, from, to) \/ UNCHANGED rows,
           UNCHANGED <<calls, guessed>>,
           NEW next \in {Idle, [Idle EXCEPT !.pc = "import", !.p = run[a].p, !.w = run[a].w]},
           Becomes(a, next)
    PROVE  Inv'
<1>1. /\ run[a] \in Runs /\ run[a].p \in Payloads /\ run[a].w \in Workflows
      /\ run[a].w \in Mine(run[a].p) \cup guessed
  BY DEF Inv, RunOK
<1>2. rows' \in [Workflows -> Rows] /\ StraysAreGuesses'
  BY <1>1, UpdatesOK DEF Inv, StraysAreGuesses
<1>3. CASE next = Idle
  BY <1>2, <1>3, IdleOK, BecomesOK DEF Inv
<1>4. CASE next = [Idle EXCEPT !.pc = "import", !.p = run[a].p, !.w = run[a].w]
  <2>1. /\ next.pc = "import" /\ next.p = run[a].p /\ next.w = run[a].w
        /\ next.todo = <<>> /\ next \in Runs
    <3>1. next = [pc |-> "import", p |-> run[a].p, todo |-> <<>>, w |-> run[a].w,
                  status |-> None, steady |-> {}, cut |-> FALSE]
      BY <1>4 DEF Idle
    <3>2. run[a].p \in PayloadType /\ <<>> \in Seq(Refs)
      BY <1>1
    <3>3. QED
      BY <1>1, <3>1, <3>2 DEF Runs, Pcs
  <2>2. RunOK(next, guessed')
    BY <1>1, <2>1 DEF RunOK
  <2>3. QED
    BY <1>2, <2>1, <2>2, BecomesOK DEF Inv
<1>5. QED
  BY <1>3, <1>4

\* A row that only changes its status, or gets a commit of its own, brings in
\* nothing of another workflow.
LEMMA OwnChange ==
    ASSUME Inv, NEW w \in Workflows, NEW new \in Rows,
           rows' = [rows EXCEPT ![w] = new], UNCHANGED guessed,
           new.build = rows[w].build,
           new.commit = rows[w].commit \/ w \in About[new.commit]
    PROVE  rows' \in [Workflows -> Rows] /\ StraysAreGuesses'
<1>1. \A v \in Workflows : rows'[v] = IF v = w THEN new ELSE rows[v]
  BY DEF Inv
<1>2. QED
  BY <1>1 DEF Inv, StraysAreGuesses

LEMMA StatusChange ==
    ASSUME Inv, NEW w \in Workflows, NEW to \in Statuses,
           rows' = [rows EXCEPT ![w].status = to], UNCHANGED guessed
    PROVE  rows' \in [Workflows -> Rows] /\ StraysAreGuesses'
<1> DEFINE new == [rows[w] EXCEPT !.status = to]
<1>1. rows[w] \in Rows
  BY DEF Inv
<1>2. new \in Rows /\ new.build = rows[w].build /\ new.commit = rows[w].commit
  BY <1>1 DEF Rows
<1>3. rows' = [rows EXCEPT ![w] = new]
  BY DEF Inv
<1> HIDE DEF new
<1>4. QED
  BY <1>2, <1>3, OwnChange

LEMMA HandleInv ==
    ASSUME Inv, NEW a \in Threads, HandleRunning(a) \/ HandleFailure(a) \/ HandleSuccess(a)
    PROVE  Inv'
<1>1. CASE HandleRunning(a)
  BY <1>1, HandledInv DEF HandleRunning, Statuses
<1>2. CASE HandleFailure(a)
  BY <1>2, HandledInv DEF HandleFailure, Statuses
<1>3. CASE HandleSuccess(a)
  BY <1>3, HandledInv DEF HandleSuccess, Statuses
<1>4. QED
  BY <1>1, <1>2, <1>3

LEMMA RecordImportInv ==
    ASSUME Inv, NEW a \in Threads, RecordImport(a)
    PROVE  Inv'
<1>1. run[a].w \in Workflows
  BY DEF Inv, RecordImport, RunOK
<1>2. rows' \in {rows, [rows EXCEPT ![run[a].w].status = "APIFOX_SYNCED"]}
  BY DEF RecordImport
<1>3. rows' \in [Workflows -> Rows] /\ StraysAreGuesses'
  <2>1. CASE rows' = rows
    BY <2>1 DEF RecordImport, Inv, StraysAreGuesses
  <2>2. CASE rows' = [rows EXCEPT ![run[a].w].status = "APIFOX_SYNCED"]
    BY <1>1, <2>2, StatusChange DEF RecordImport, Statuses
  <2>3. QED
    BY <1>2, <2>1, <2>2
<1>4. QED
  BY <1>3, IdleOK, BecomesOK DEF RecordImport, Inv

LEMMA AnswerInv ==
    ASSUME Inv, NEW a \in Threads, Answer(a)
    PROVE  Inv'
BY IdleOK, BecomesOK DEF Answer, Inv, StraysAreGuesses

LEMMA ElsewhereInv ==
    ASSUME Inv, NEW w \in Workflows, Elsewhere(w)
    PROVE  Inv'
<1>1. rows' \in [Workflows -> Rows] /\ StraysAreGuesses'
  <2>1. CASE CreateWorkitem(w)
    BY <2>1, StatusChange DEF Elsewhere, CreateWorkitem, Statuses
  <2>2. CASE SubmitCodingResult(w)
    <3>1. PICK c \in Commits : /\ w \in About[c]
                               /\ rows' = [rows EXCEPT ![w].status = "CODE_SUBMITTED", ![w].commit = c]
      BY <2>2 DEF SubmitCodingResult
    <3> DEFINE new == [rows[w] EXCEPT !.status = "CODE_SUBMITTED", !.commit = c]
    <3>2. rows[w] \in Rows
      BY DEF Inv
    <3>3. new \in Rows /\ new.build = rows[w].build /\ new.commit = c
      BY <3>2 DEF Rows, Statuses
    <3>4. rows' = [rows EXCEPT ![w] = new]
      BY <3>1, <3>2 DEF Inv, Rows
    <3> HIDE DEF new
    <3>5. QED
      BY <3>1, <3>3, <3>4, OwnChange DEF Elsewhere
  <2>3. CASE RetryWorkflow(w)
    BY <2>3, StatusChange DEF Elsewhere, RetryWorkflow, Statuses
  <2>4. QED
    BY <2>1, <2>2, <2>3 DEF Elsewhere
<1>2. QED
  BY <1>1, IdleOK, BecomesOK DEF Elsewhere, Inv

\* No step breaks the invariant.
LEMMA NextInv == Inv /\ [Next]_vars => Inv'
<1> SUFFICES ASSUME Inv, [Next]_vars PROVE Inv'
  OBVIOUS
<1>1. ASSUME NEW a \in Threads, Callback(a) PROVE Inv'
  BY <1>1, ArriveInv, LookUpInv, LookUpShownInv, HandleInv, RecordImportInv, AnswerInv
     DEF Callback
<1>2. ASSUME NEW w \in Workflows, Elsewhere(w) PROVE Inv'
  BY <1>2, ElsewhereInv
<1>3. CASE UNCHANGED vars
  BY <1>3 DEF vars, Inv, StraysAreGuesses
<1>4. QED
  BY <1>1, <1>2, <1>3 DEF Next

LEMMA InvAlways == Spec => []Inv
<1>1. Init => Inv
  BY InitInv
<1>2. Inv /\ [Next]_vars => Inv'
  BY NextInv
<1>3. QED
  BY <1>1, <1>2, PTL DEF Spec

\* Rows, callbacks and counters have their types.
THEOREM TypeCorrect == Spec => []TypeOK
<1>1. Inv => TypeOK
  BY DEF Inv, RunOK, TypeOK
<1>2. QED
  BY <1>1, InvAlways, PTL

\* A row holds the build or commit of another workflow only after a callback was
\* bound to it by the build that stands for none: no chain of truthful callbacks,
\* each found by what an earlier one wrote, leads to a foreign row.
THEOREM NoChainStrays == Spec => []StraysAreGuesses
<1>1. Inv => StraysAreGuesses
  BY DEF Inv
<1>2. QED
  BY <1>1, InvAlways, PTL

\* A callback is bound to a workflow it is about, or to one bound by a guess.
THEOREM BindingIsSound == Spec => []BindingInv
<1>1. Inv => TypeOK
  BY DEF Inv, RunOK, TypeOK
<1>2. Inv => BindingInv
  BY <1>1 DEF Inv, RunOK, BindingInv
<1>3. QED
  BY <1>2, InvAlways, PTL
-----------------------------------------------------------------------------
(* What a search has ruled out. *)

\* The references of a payload that its lookups have not come to.
Left(r) ==
    CASE r.pc \in {"param", "paramShown"} -> Names(r.p)
      [] r.pc \in {"ref", "refShown"} -> {r.todo[i] : i \in DOMAIN r.todo}
      [] OTHER -> {}

\* A callback that goes by references alone, while the window hid nothing: what
\* waits all the time has none of the references that were tried, and if a
\* reference in a creation result led to a row, it is the only one.
Sought(r) ==
    /\ r.pc = "id" => r.p.id # None
    /\ r.pc = "msgId" => r.p.msgId # None
    /\ r.pc \in Lookups \cup {"notFound", "notMatched"} /\ Ids(r.p) = {} /\ ~r.cut =>
          \A ref \in Names(r.p) \ Left(r) : Carriers(ref) \cap r.steady = {}
    /\ r.pc = "found" /\ Ids(r.p) = {} /\ ~r.cut =>
          \A ref \in Refs : Names(r.p) = {ref} /\ TaskOf[r.w] # ref =>
              Carriers(ref) \cap r.steady \subseteq {r.w}

Steady(a) == run[a].steady \subseteq Waiting(run[a].p.kind)

SeekInv == \A a \in Threads : Steady(a) /\ Sought(run[a])

\* Of a set that is neither empty nor larger than one, each element is the only one.
LEMMA OnlyOne ==
    ASSUME NEW S \in SUBSET Workflows, ~(Cardinality(S) > 1), NEW w \in S
    PROVE  S = {w}
<1>1. IsFiniteSet(S)
  BY WorkflowsAreFinite, FS_Subset
<1>2. Cardinality(S) \in Nat /\ Cardinality(S) # 0
  BY <1>1, FS_CardinalityType, FS_EmptySet
<1>3. Cardinality(S) = 1
  BY <1>2
<1>4. PICK v : S = {v}
  BY <1>1, <1>3, FS_Singleton
<1>5. QED
  BY <1>4

\* A set within a set of one has at most one element.
LEMMA AtMostOne ==
    ASSUME NEW S, NEW w, S \subseteq {w}
    PROVE  Cardinality(S) <= 1
<1>1. CASE S = {}
  BY <1>1, FS_EmptySet
<1>2. CASE S = {w}
  <2>1. Cardinality({w}) = 1
    BY FS_Singleton
  <2>2. QED
    BY <1>2, <2>1
<1>3. QED
  BY <1>1, <1>2

\* What waits shows its work item and its tree.
LEMMA WaitingShows ==
    ASSUME NEW k, NEW w \in Waiting(k)
    PROVE  w \in Workflows /\ Item(w) = TaskOf[w] /\ Shown(w) = {TaskOf[w]} \cup TreeOf[w]
BY DEF Waiting, BindingStatuses, PIPELINE_FAILURE_FROM_STATUSES, PIPELINE_SUCCESS_FROM_STATUSES,
       PIPELINE_RUNNING_FROM_STATUSES, Item, Shown

\* A sequence is its head and its tail.
LEMMA HeadOrTail ==
    ASSUME NEW s \in Seq(Refs), s # <<>>, NEW i \in DOMAIN s
    PROVE  s[i] = Head(s) \/ \E j \in DOMAIN Tail(s) : s[i] = Tail(s)[j]
<1>1. CASE i = 1
  BY <1>1
<1>2. CASE i # 1
  <2>1. i - 1 \in DOMAIN Tail(s) /\ Tail(s)[i - 1] = s[i]
    BY <1>2
  <2>2. QED
    BY <2>1
<1>3. QED
  BY <1>1, <1>2

\* Who stops waiting takes nothing from what was ruled out.
LEMMA SoughtShrinks ==
    ASSUME NEW r \in Runs, Sought(r), NEW s, s \subseteq r.steady
    PROVE  Sought([r EXCEPT !.steady = s])
<1> DEFINE n == [r EXCEPT !.steady = s]
<1>1. n.pc = r.pc /\ n.p = r.p /\ n.todo = r.todo /\ n.w = r.w /\ n.cut = r.cut /\ n.steady = s
  BY DEF Runs
<1> HIDE DEF n
<1>2. Left(n) = Left(r)
  BY <1>1 DEF Left
<1>3. Sought(n)
  BY <1>1, <1>2 DEF Sought
<1>4. QED
  BY <1>3 DEF n

LEMMA BecomesSeeks ==
    ASSUME NEW a, NEW next \in Runs, Sought(next),
           run \in [Threads -> Runs], \A x \in Threads : Sought(run[x]),
           Becomes(a, next)
    PROVE  SeekInv'
<1> DEFINE base(x) == IF x = a THEN next ELSE run[x]
           still(x) == {w \in base(x).steady : rows'[w].status \in BindingStatuses(base(x).p.kind)}
<1>1. run' = [x \in Threads |-> [base(x) EXCEPT !.steady = still(x)]]
  BY DEF Becomes
<1>2. ASSUME NEW x \in Threads
      PROVE  /\ base(x) \in Runs /\ Sought(base(x)) /\ base(x).steady \subseteq Workflows
             /\ still(x) \subseteq base(x).steady
             /\ \A w \in still(x) : rows'[w].status \in BindingStatuses(base(x).p.kind)
  BY DEF Runs
<1> HIDE DEF base, still
<1>3. ASSUME NEW x \in Threads
      PROVE  Steady(x)' /\ Sought(run'[x])
  <2>1. run'[x] = [base(x) EXCEPT !.steady = still(x)]
    BY <1>1
  <2>2. Sought(run'[x])
    <3>1. Sought([base(x) EXCEPT !.steady = still(x)])
      BY <1>2, SoughtShrinks
    <3>2. QED
      BY <2>1, <3>1
  <2>3. run'[x].steady = still(x) /\ run'[x].p = base(x).p
    BY <1>2, <2>1 DEF Runs
  <2>4. Steady(x)'
    BY <1>2, <2>3 DEF Steady, Waiting
  <2>5. QED
    BY <2>2, <2>4
<1>4. QED
  BY <1>3 DEF SeekInv

\* A lookup by a column that finds nothing rules nothing out that was not.
LEMMA MissSeeks ==
    ASSUME NEW r \in Runs, RunOK(r, guessed), Sought(r),
           r.pc \in {"id", "param", "msgId", "ref", "build", "commit"}
    PROVE  Sought(FallThrough(r))
<1>1. r.p \in PayloadType
  BY DEF RunOK
<1>2. CASE r.pc \in {"id", "msgId"}
  <2>1. Ids(r.p) # {}
    BY <1>2 DEF Sought, Ids
  <2>2. FallThrough(r) = [r EXCEPT !.pc = "notFound"]
    BY <1>2 DEF FallThrough
  <2>3. QED
    BY <2>1, <2>2 DEF Sought, Runs
<1>3. CASE r.pc \in {"param", "ref"}
  <2>1. PICK pc : /\ FallThrough(r) = [r EXCEPT !.pc = pc]
                  /\ <<r.pc, pc>> \in {<<"param", "paramShown">>, <<"ref", "refShown">>}
    BY <1>3 DEF FallThrough
  <2> DEFINE n == [r EXCEPT !.pc = pc]
  <2>2. n.pc = pc /\ n.p = r.p /\ n.todo = r.todo /\ n.cut = r.cut /\ n.steady = r.steady
    BY DEF Runs
  <2> HIDE DEF n
  <2>3. Left(n) = Left(r)
    BY <1>3, <2>1, <2>2 DEF Left
  <2>4. Sought(n)
    BY <1>3, <2>1, <2>2, <2>3 DEF Sought, Lookups
  <2>5. QED
    BY <2>1, <2>4 DEF n
<1>4. CASE r.pc \in {"build", "commit"}
  <2>1. PICK pc \in {"commit", "notMatched"} : FallThrough(r) = [r EXCEPT !.pc = pc]
    BY <1>4 DEF FallThrough
  <2> DEFINE n == [r EXCEPT !.pc = pc]
  <2>2. n.pc = pc /\ n.p = r.p /\ n.cut = r.cut /\ n.steady = r.steady
    BY DEF Runs
  <2> HIDE DEF n
  <2>3. Left(n) = {} /\ Left(r) = {}
    BY <1>4, <2>2 DEF Left
  <2>4. Sought(n)
    BY <1>4, <2>1, <2>2, <2>3 DEF Sought, Lookups
  <2>5. QED
    BY <2>1, <2>4 DEF n
<1>5. QED
  BY <1>2, <1>3, <1>4

\* A reference that no waiting workflow shows is done with.
LEMMA UnshownSeeks ==
    ASSUME NEW r \in Runs, RunOK(r, guessed), Sought(r),
           r.pc \in {"paramShown", "refShown"},
           NEW n \in Runs, n.p = r.p, n.steady = r.steady,
           n.pc = FallThrough(r).pc, n.todo = FallThrough(r).todo,
           ~n.cut => ~r.cut /\ Carriers(Ref(r)) \cap r.steady = {}
    PROVE  Sought(n)
<1>1. r.p \in PayloadType /\ r.p.message \in Seq(Refs)
  BY DEF RunOK, PayloadType
<1>2. ASSUME Ids(r.p) = {}, ~n.cut, n.pc # "msgId",
             NEW ref \in Names(r.p), ref \notin Left(n)
      PROVE  Carriers(ref) \cap r.steady = {}
  <2>1. CASE ref = Ref(r)
    BY <1>2, <2>1
  <2>2. CASE r.pc = "paramShown" /\ ref # Ref(r)
    <3>1. r.todo = r.p.message /\ Ref(r) = r.p.param
      BY <2>2 DEF RunOK, Ref
    <3>2. PICK i \in DOMAIN r.p.message : ref = r.p.message[i]
      BY <3>1, <2>2 DEF Names
    <3>3. r.p.message # <<>>
      BY <1>1, <3>2
    <3>4. FallThrough(r) = [r EXCEPT !.pc = AfterParam(r.p)]
      BY <2>2 DEF FallThrough
    <3>5. n.pc = "ref" /\ n.todo = r.p.message
      BY <1>2, <3>1, <3>3, <3>4 DEF AfterParam, Runs
    <3>6. QED
      BY <1>2, <3>2, <3>5 DEF Left
  <2>3. CASE r.pc = "refShown" /\ ref # Ref(r)
    <3>1. r.todo \in Seq(Refs) /\ r.todo # <<>> /\ Ref(r) = Head(r.todo)
      BY <2>3 DEF RunOK, Ref, Runs
    <3>2. CASE ref \in Left(r)
      <4>1. PICK i \in DOMAIN r.todo : ref = r.todo[i]
        BY <2>3, <3>2 DEF Left
      <4>2. PICK j \in DOMAIN Tail(r.todo) : ref = Tail(r.todo)[j]
        BY <2>3, <3>1, <4>1, HeadOrTail
      <4>3. Tail(r.todo) # <<>>
        BY <3>1, <4>2
      <4>4. FallThrough(r) = [r EXCEPT !.pc = "ref", !.todo = Tail(r.todo)]
        BY <2>3, <4>3 DEF FallThrough
      <4>5. n.pc = "ref" /\ n.todo = Tail(r.todo)
        BY <4>4 DEF Runs
      <4>6. QED
        BY <1>2, <4>2, <4>5 DEF Left
    <3>3. CASE ref \notin Left(r)
      BY <1>2, <2>3, <3>3 DEF Sought, Lookups
    <3>4. QED
      BY <3>2, <3>3
  <2>4. QED
    BY <2>1, <2>2, <2>3
<1>3. /\ n.pc \notin {"id", "found"}
      /\ n.pc = "msgId" => n.p.msgId # None
  <2>1. CASE r.pc = "paramShown"
    <3>1. FallThrough(r).pc = AfterParam(r.p)
      BY <2>1 DEF FallThrough, Runs
    <3>2. QED
      BY <3>1 DEF AfterParam
  <2>2. CASE r.pc = "refShown"
    BY <2>2 DEF FallThrough, Runs
  <2>3. QED
    BY <2>1, <2>2
<1>4. n.pc = "msgId" => Ids(n.p) # {}
  BY <1>3 DEF Ids
<1>5. QED
  BY <1>2, <1>3, <1>4 DEF Sought

-----------------------------------------------------------------------------
(* The search invariant. *)

LEMMA IdleSeeks == Idle.steady = {} /\ Sought(Idle)
BY DEF Idle, Sought, Lookups

LEMMA SeekInit == Init => SeekInv
<1> SUFFICES ASSUME Init, NEW a \in Threads PROVE Steady(a) /\ Sought(run[a])
  BY DEF SeekInv
<1>1. run[a] = Idle
  BY DEF Init
<1>2. QED
  BY <1>1, IdleSeeks DEF Steady

LEMMA SeekArrive ==
    ASSUME Inv, SeekInv, NEW a \in Threads, Arrive(a)
    PROVE  SeekInv'
<1>1. PICK p \in Payloads :
          Becomes(a, [Idle EXCEPT !.pc = FirstLookup(p), !.p = p, !.todo = p.message,
                                  !.steady = Waiting(p.kind)])
  BY DEF Arrive
<1> DEFINE next == [Idle EXCEPT !.pc = FirstLookup(p), !.p = p, !.todo = p.message,
                                !.steady = Waiting(p.kind)]
<1>2. p \in PayloadType /\ p.message \in Seq(Refs)
  BY DEF PayloadType
<1>3. Waiting(p.kind) \in SUBSET Workflows
  BY DEF Waiting
<1>4. FirstLookup(p) \in {"id", "param", "msgId", "ref", "build"}
  BY DEF FirstLookup, AfterParam
<1>5. next \in Runs
  BY <1>2, <1>3, <1>4 DEF Idle, Runs, Pcs
<1>6. next.pc = FirstLookup(p) /\ next.p = p /\ next.todo = p.message
  BY DEF Idle
<1> HIDE DEF next
<1>7. /\ next.pc = "id" => p.id # None
      /\ next.pc = "msgId" => p.msgId # None
      /\ next.pc = "ref" => p.param = None
      /\ next.pc = "build" => p.param = None /\ p.message = <<>>
  BY <1>6 DEF FirstLookup, AfterParam
<1>8. next.pc \in {"param", "ref", "build"} => Names(p) \subseteq Left(next)
  <2>1. CASE next.pc = "param"
    BY <1>6, <2>1 DEF Left
  <2>2. CASE next.pc = "ref"
    BY <1>6, <1>7, <2>2 DEF Left, Names
  <2>3. CASE next.pc = "build"
    BY <1>7, <2>3 DEF Names
  <2>4. QED
    BY <2>1, <2>2, <2>3
<1>9. next.pc \in {"id", "msgId"} => Ids(p) # {}
  BY <1>7 DEF Ids
<1>10. Sought(next)
  BY <1>4, <1>6, <1>7, <1>8, <1>9 DEF Sought
<1>11. QED
  BY <1>1, <1>5, <1>10, BecomesSeeks DEF Inv, SeekInv, next

\* A row found by its column is the work item, or nothing else was waited for.
LEMMA SeekLookUp ==
    ASSUME Inv, SeekInv, NEW a \in Threads, LookUp(a)
    PROVE  SeekInv'
<1> DEFINE r == run[a]
           found == Matches(run[a])
<1>1. r \in Runs /\ RunOK(r, guessed) /\ Sought(r)
  BY DEF Inv, SeekInv
<1>2. r.pc \in {"id", "param", "msgId", "ref", "build", "commit"}
  BY DEF LookUp
<1>3. PICK next \in Result(r, found) : Becomes(a, next)
  BY DEF LookUp
<1>4. found \in SUBSET Workflows
  BY <1>2 DEF Matches
<1>5. CASE found = {}
  <2>1. next = FallThrough(r)
    BY <1>3, <1>5 DEF Result
  <2>2. next \in Runs /\ Sought(next)
    BY <1>1, <1>2, <2>1, FallThroughOK, MissSeeks DEF Lookups
  <2>3. QED
    BY <1>3, <2>2, BecomesSeeks DEF Inv, SeekInv
<1>6. CASE found # {} /\ Cardinality(found) > 1
  <2>1. next = [r EXCEPT !.pc = "ambiguous"]
    BY <1>3, <1>6 DEF Result
  <2>2. next \in Runs /\ next.pc = "ambiguous"
    BY <1>1, <2>1 DEF Runs, Pcs
  <2>3. Sought(next)
    BY <2>2 DEF Sought, Lookups
  <2>4. QED
    BY <1>3, <2>2, <2>3, BecomesSeeks DEF Inv, SeekInv
<1>7. CASE found # {} /\ ~(Cardinality(found) > 1)
  <2>1. PICK w \in found :
            next = [r EXCEPT !.pc = "found", !.w = w, !.status = rows[w].status]
    BY <1>3, <1>7 DEF Result
  <2>2. w \in Workflows /\ rows[w].status \in Statuses
    BY <1>4 DEF Inv, Rows
  <2>3. /\ next \in Runs /\ next.pc = "found" /\ next.p = r.p /\ next.w = w
        /\ next.cut = r.cut /\ next.steady = r.steady
    BY <1>1, <2>1, <2>2 DEF Runs, Pcs
  <2>4. ASSUME Ids(r.p) = {}, ~r.cut,
               NEW ref \in Refs, Names(r.p) = {ref}, TaskOf[w] # ref
        PROVE  Carriers(ref) \cap r.steady = {}
    <3>1. r.pc \notin {"id", "msgId"}
      BY <1>1, <2>4 DEF Sought, Ids
    <3>2. r.pc \notin {"param", "ref"}
      <4>1. ASSUME r.pc \in {"param", "ref"} PROVE FALSE
        <5>1. Ref(r) = ref
          BY <1>1, <2>4, <4>1, RefIsName
        <5>2. Item(w) = ref
          BY <2>1, <4>1, <5>1 DEF Matches
        <5>3. QED
          BY <2>4, <5>2 DEF Item
      <4>2. QED
        BY <4>1
    <3>3. r.pc \in {"build", "commit"}
      BY <1>2, <3>1, <3>2
    <3>4. Left(r) = {}
      BY <3>3 DEF Left
    <3>5. QED
      BY <1>1, <2>4, <3>3, <3>4 DEF Sought, Lookups
  <2>5. Sought(next)
    BY <2>3, <2>4 DEF Sought, Lookups
  <2>6. QED
    BY <1>3, <2>3, <2>5, BecomesSeeks DEF Inv, SeekInv
<1>8. QED
  BY <1>5, <1>6, <1>7

\* Without a window that hides some, what shows the reference is all that waits
\* and carries it.
LEMMA SeekLookUpShown ==
    ASSUME Inv, SeekInv, NEW a \in Threads, LookUpShown(a)
    PROVE  SeekInv'
<1> DEFINE r == run[a]
<1>1. r \in Runs /\ RunOK(r, guessed) /\ Sought(r) /\ r.steady \subseteq Waiting(r.p.kind)
  BY DEF Inv, SeekInv, Steady
<1>2. r.pc \in {"paramShown", "refShown"}
  BY DEF LookUpShown
<1>3. PICK window \in Windows(r.p.kind) :
        \E next \in Result(r, {w \in window : Ref(r) \in Shown(w)}) :
            Becomes(a, [next EXCEPT !.cut = @ \/ window # Waiting(r.p.kind)])
  BY DEF LookUpShown
<1> DEFINE found == {w \in window : Ref(r) \in Shown(w)}
<1>4. found \in SUBSET Workflows
  BY DEF Windows, Waiting
<1>5. PICK next \in Result(r, found) :
        Becomes(a, [next EXCEPT !.cut = @ \/ window # Waiting(r.p.kind)])
  BY <1>3
<1>6. ASSUME window = Waiting(r.p.kind)
      PROVE  Carriers(Ref(r)) \cap r.steady \subseteq found
  BY <1>1, <1>6, WaitingShows DEF Carriers
<1> DEFINE noted == [next EXCEPT !.cut = @ \/ window # Waiting(r.p.kind)]
<1> HIDE DEF found
<1>7. CASE found = {}
  <2>1. next = FallThrough(r)
    BY <1>5, <1>7 DEF Result
  <2>2. next \in Runs
    BY <1>1, <1>2, <2>1, FallThroughOK DEF Lookups
  <2>3. next.p = r.p /\ next.steady = r.steady /\ next.cut = r.cut
    BY <1>1, <1>2, <2>1 DEF FallThrough, Runs
  <2>4. /\ noted \in Runs /\ noted.p = next.p /\ noted.steady = next.steady
        /\ noted.pc = next.pc /\ noted.todo = next.todo
        /\ ~noted.cut => ~next.cut /\ window = Waiting(r.p.kind)
    BY <2>2 DEF Runs
  <2> HIDE DEF noted
  <2>5. ~noted.cut => ~r.cut /\ Carriers(Ref(r)) \cap r.steady = {}
    BY <1>6, <1>7, <2>3, <2>4
  <2>6. Sought(noted)
    BY <1>1, <1>2, <2>1, <2>3, <2>4, <2>5, UnshownSeeks
  <2>7. QED
    BY <1>5, <2>4, <2>6, BecomesSeeks DEF Inv, SeekInv, noted
<1>8. CASE found # {} /\ Cardinality(found) > 1
  <2>1. next = [r EXCEPT !.pc = "ambiguous"]
    BY <1>5, <1>8 DEF Result
  <2>2. noted \in Runs /\ noted.pc = "ambiguous"
    BY <1>1, <2>1 DEF Runs, Pcs
  <2> HIDE DEF noted
  <2>3. Sought(noted)
    BY <2>2 DEF Sought, Lookups
  <2>4. QED
    BY <1>5, <2>2, <2>3, BecomesSeeks DEF Inv, SeekInv, noted
<1>9. CASE found # {} /\ ~(Cardinality(found) > 1)
  <2>1. PICK w \in found :
            next = [r EXCEPT !.pc = "found", !.w = w, !.status = rows[w].status]
    BY <1>5, <1>9 DEF Result
  <2>2. w \in Workflows /\ rows[w].status \in Statuses
    BY <1>4 DEF Inv, Rows
  <2>3. next \in Runs /\ next.pc = "found" /\ next.p = r.p /\ next.w = w /\ next.steady = r.steady
    BY <1>1, <2>1, <2>2 DEF Runs, Pcs
  <2>4. /\ noted \in Runs /\ noted.p = r.p /\ noted.steady = r.steady
        /\ noted.pc = "found" /\ noted.w = w
        /\ ~noted.cut => window = Waiting(r.p.kind)
    BY <2>3 DEF Runs
  <2> HIDE DEF noted
  <2>5. found = {w}
    BY <1>4, <1>9, OnlyOne
  <2>6. ASSUME ~noted.cut, NEW ref \in Refs, Names(r.p) = {ref}
        PROVE  Carriers(ref) \cap r.steady \subseteq {w}
    <3>1. Ref(r) = ref
      BY <1>1, <1>2, <2>6, RefIsName
    <3>2. QED
      BY <1>6, <2>4, <2>5, <2>6, <3>1
  <2>7. Sought(noted)
    BY <2>4, <2>6 DEF Sought, Lookups
  <2>8. QED
    BY <1>5, <2>4, <2>7, BecomesSeeks DEF Inv, SeekInv, noted
<1>10. QED
  BY <1>7, <1>8, <1>9

\* A callback that found its row, or answers, seeks no more.
LEMMA SeekHandle ==
    ASSUME Inv, SeekInv, NEW a \in Threads,
           HandleRunning(a) \/ HandleFailure(a) \/ HandleSuccess(a) \/ RecordImport(a) \/ Answer(a)
    PROVE  SeekInv'
<1>1. CASE Becomes(a, Idle)
  BY <1>1, IdleOK, IdleSeeks, BecomesSeeks DEF Inv, SeekInv
<1>2. ASSUME NEW next, next = [Idle EXCEPT !.pc = "import", !.p = run[a].p, !.w = run[a].w],
             HandleSuccess(a), Becomes(a, next)
      PROVE  SeekInv'
  <2>1. run[a] \in Runs /\ run[a].p \in Payloads /\ run[a].w \in Workflows
    BY <1>2 DEF Inv, RunOK, HandleSuccess
  <2>2. next = [pc |-> "import", p |-> run[a].p, todo |-> <<>>, w |-> run[a].w,
                status |-> None, steady |-> {}, cut |-> FALSE]
    BY <1>2 DEF Idle
  <2>3. run[a].p \in PayloadType /\ <<>> \in Seq(Refs)
    BY <2>1
  <2>4. next \in Runs
    BY <2>1, <2>2, <2>3 DEF Runs, Pcs
  <2>5. Sought(next)
    BY <2>2 DEF Sought, Lookups
  <2>6. QED
    BY <1>2, <2>4, <2>5, BecomesSeeks DEF Inv, SeekInv
<1>3. QED
  BY <1>1, <1>2 DEF HandleRunning, HandleFailure, HandleSuccess, RecordImport, Answer

LEMMA SeekElsewhere ==
    ASSUME Inv, SeekInv, NEW w \in Workflows, Elsewhere(w)
    PROVE  SeekInv'
BY IdleOK, IdleSeeks, BecomesSeeks DEF Elsewhere, Inv, SeekInv

LEMMA SeekNext == Inv /\ SeekInv /\ [Next]_vars => SeekInv'
<1> SUFFICES ASSUME Inv, SeekInv, [Next]_vars PROVE SeekInv'
  OBVIOUS
<1>1. ASSUME NEW a \in Threads, Callback(a) PROVE SeekInv'
  BY <1>1, SeekArrive, SeekLookUp, SeekLookUpShown, SeekHandle DEF Callback
<1>2. ASSUME NEW w \in Workflows, Elsewhere(w) PROVE SeekInv'
  BY <1>2, SeekElsewhere
<1>3. CASE UNCHANGED vars
  BY <1>3 DEF vars, SeekInv, Steady, Waiting
<1>4. QED
  BY <1>1, <1>2, <1>3 DEF Next

LEMMA SeekAlways == Spec => []SeekInv
<1>1. Init => SeekInv
  BY SeekInit
<1>2. Inv /\ SeekInv /\ [Next]_vars => SeekInv'
  BY SeekNext
<1>3. QED
  BY <1>1, <1>2, InvAlways, PTL DEF Spec

\* A callback that names its workflow by a work item is neither dropped nor
\* imported past it: the lookups are a search without gaps, for any payload and
\* whatever else moves rows between them, as long as the window shows all.
THEOREM ReferencesFind == Spec => []NamedIsFound
<1>1. SeekInv => NamedIsFound
  <2> SUFFICES ASSUME SeekInv, NEW a \in Threads,
                      run[a].pc \in {"notFound", "notMatched"}, Ids(run[a].p) = {}, ~run[a].cut,
                      NEW ref \in Names(run[a].p)
               PROVE  Carriers(ref) \cap run[a].steady = {}
    BY DEF NamedIsFound
  <2>1. Left(run[a]) = {}
    BY DEF Left
  <2>2. QED
    BY <2>1 DEF SeekInv, Sought
<1>2. QED
  BY <1>1, SeekAlways, PTL

\* A reference that two waiting workflows show moves neither of them.
THEOREM SharedReferencesMoveNone == Spec => []NoGuessBetweenTwo
<1>1. SeekInv => NoGuessBetweenTwo
  <2> SUFFICES ASSUME SeekInv, NEW a \in Threads,
                      run[a].pc = "found", Ids(run[a].p) = {}, ~run[a].cut,
                      NEW ref \in Refs, Names(run[a].p) = {ref}, TaskOf[run[a].w] # ref
               PROVE  Cardinality(Carriers(ref) \cap run[a].steady) <= 1
    BY DEF NoGuessBetweenTwo
  <2>1. Carriers(ref) \cap run[a].steady \subseteq {run[a].w}
    BY DEF SeekInv, Sought
  <2>2. QED
    BY <2>1, AtMostOne
<1>2. QED
  BY <1>1, SeekAlways, PTL
=============================================================================
