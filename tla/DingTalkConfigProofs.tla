------------------------ MODULE DingTalkConfigProofs ------------------------
(* Proofs about DingTalkConfig: its types, that a cached token is good and   *)
(* of the credentials it is stored with, and that settings are those given   *)
(* last.                                                                     *)
EXTENDS DingTalkConfig, TLAPS

Names == Apps \cup Configs

\* What is recorded as left is at most the margin more than is.
Alive(t) == t.recorded > Margin /\ ~t.doubtful => t.left + Margin >= t.recorded

RowInv ==
    \A r \in Names :
        /\ Alive(rows[r])
        /\ r \notin mixed /\ rows[r].token # None => rows[r].token = rows[r].key

\* Until the migration has moved a configuration, the old table has what was given.
MovedInv == \A c \in Configs : configs[c] = None => olds[c] = givenConfigs[c]

\* What a request in progress knows: its token is of the credentials of its row, and
\* the columns it does not write have the values given last, unless others changed
\* them meanwhile or it found no row.
Knows(r) ==
    /\ Alive(r)
    /\ r.pc \in Refreshing /\ ~r.touched => rows[Source(r.config)].key = r.key
    /\ r.pc \in {"app", "doc"} => r.named = Both
    /\ r.pc \in {"mirror", "old"} => configs[r.config] # None
    /\ r.pc = "merge" /\ ~r.touched =>
          \/ r.named = Both
          \/ configs[r.config] = None
          \/ r.config \in lost
          \/ /\ givenConfigs[r.config] # None
             /\ "app" \notin r.named => r.values.app = givenConfigs[r.config].app
             /\ "op" \notin r.named => r.values.op = givenConfigs[r.config].op

RunInv == \A a \in Threads : Knows(run[a])

Inv == TypeOK /\ RowInv /\ SettingsAreLastGiven /\ MovedInv /\ RunInv

-----------------------------------------------------------------------------
(* Types. *)

\* What the types ask of the request of a thread.
RunTyped(r) ==
    /\ r.pc # "idle" => r.config \in Configs
    /\ r.pc \in Refreshing \cup {"app", "doc", "old"} => r.key # None
    /\ r.pc \in {"merge", "mirror", "app", "doc", "old"} => r.values # None

LEMMA IdleTyped ==
    /\ Idle \in Runs /\ RunTyped(Idle) /\ Idle.pc = "idle"
    /\ Idle.left = 0 /\ Idle.recorded = 0 /\ Alive(Idle) /\ Idle.touched = FALSE
BY DEF Idle, Runs, Pcs, Minutes, Both, RunTyped, Alive, Margin, Refreshing

LEMMA NoRowTyped ==
    /\ NoRow \in Rows /\ Alive(NoRow) /\ NoRow.token = None
    /\ \A k \in Keys : LET row == [NoRow EXCEPT !.key = k] IN
          row \in Rows /\ row.key = k /\ row.token = None /\ Alive(row)
<1>1. /\ NoRow \in Rows /\ Alive(NoRow) /\ NoRow.token = None
      /\ NoRow.recorded = 0
  BY DEF NoRow, Rows, Minutes, Alive, Margin
<1>2. ASSUME NEW k \in Keys, NEW row, row = [NoRow EXCEPT !.key = k]
      PROVE  /\ row \in Rows /\ row.key = k
             /\ row.token = NoRow.token /\ row.recorded = NoRow.recorded
  BY <1>1, <1>2 DEF Rows
<1>3. ASSUME NEW k \in Keys
      PROVE  LET row == [NoRow EXCEPT !.key = k] IN
             row \in Rows /\ row.key = k /\ row.token = None /\ Alive(row)
  BY <1>1, <1>2 DEF Alive, Margin
<1>4. QED
  BY <1>1, <1>3

\* A request in progress, by field.
LEMMA RunFields ==
    ASSUME TypeOK, NEW a \in Threads
    PROVE  /\ run[a] \in Runs /\ run[a].pc \in Pcs /\ run[a].left \in Nat /\ run[a].recorded \in Nat
           /\ run[a].doubtful \in BOOLEAN /\ run[a].key \in Keys \cup {None}
           /\ run[a].values \in Values \cup {None} /\ run[a].named \in SUBSET Both
           /\ run[a].touched \in BOOLEAN /\ RunTyped(run[a])
BY DEF TypeOK, Runs, Minutes, Both, RunTyped

LEMMA SourceTyped ==
    ASSUME TypeOK, NEW c \in Configs
    PROVE  /\ Source(c) \in Names /\ rows[Source(c)] \in Rows
           /\ configs[c] # None => configs[c] \in Values /\ Source(c) \in Apps
           /\ configs[c] = None => Source(c) = c
BY DEF TypeOK, Source, Values, Names

\* A thread keeps what it does, and does not forget that its rows were changed.
Keeps(b) ==
    /\ run'[b].pc = run[b].pc /\ run'[b].config = run[b].config /\ run'[b].key = run[b].key
    /\ run'[b].values = run[b].values /\ run'[b].named = run[b].named
    /\ run[b].touched => run'[b].touched

LEMMA GoTouchingTyped ==
    ASSUME TypeOK, NEW a \in Threads, NEW r \in Runs, RunTyped(r), NEW cs, NEW pcs,
           GoTouching(a, r, cs, pcs)
    PROVE  /\ run' \in [Threads -> Runs] /\ run'[a] = r
           /\ \A b \in Threads : RunTyped(run'[b])
           /\ \A b \in Threads \ {a} :
                 /\ Keeps(b) /\ run'[b].left = run[b].left /\ run'[b].recorded = run[b].recorded
                 /\ run'[b].doubtful = run[b].doubtful
                 /\ run[b].pc \in pcs /\ run[b].config \in cs => run'[b].touched
<1>1. run' = [b \in Threads |->
                IF b = a THEN r
                ELSE [run[b] EXCEPT !.touched = @ \/ (run[b].pc \in pcs /\ run[b].config \in cs)]]
  BY DEF GoTouching
<1>2. ASSUME NEW b \in Threads, NEW t \in BOOLEAN
      PROVE  LET s == [run[b] EXCEPT !.touched = t] IN
             /\ s \in Runs /\ s.pc = run[b].pc /\ s.config = run[b].config /\ s.key = run[b].key
             /\ s.values = run[b].values /\ s.named = run[b].named
             /\ s.left = run[b].left /\ s.recorded = run[b].recorded
             /\ s.doubtful = run[b].doubtful /\ s.touched = t
  BY RunFields DEF Runs
<1>3. ASSUME NEW b \in Threads \ {a}
      PROVE  LET t == run[b].touched \/ (run[b].pc \in pcs /\ run[b].config \in cs) IN
             t \in BOOLEAN /\ run'[b] = [run[b] EXCEPT !.touched = t]
  BY <1>1
<1>4. run'[a] = r
  BY <1>1
<1>5. ASSUME NEW b \in Threads \ {a}
      PROVE  /\ run'[b] \in Runs /\ Keeps(b)
             /\ run'[b].left = run[b].left /\ run'[b].recorded = run[b].recorded
             /\ run'[b].doubtful = run[b].doubtful
             /\ run[b].pc \in pcs /\ run[b].config \in cs => run'[b].touched
  <2> DEFINE t == run[b].touched \/ (run[b].pc \in pcs /\ run[b].config \in cs)
  <2>1. t \in BOOLEAN /\ run'[b] = [run[b] EXCEPT !.touched = t]
    BY <1>3
  <2>2. (run[b].touched => t) /\ (run[b].pc \in pcs /\ run[b].config \in cs => t)
    OBVIOUS
  <2> HIDE DEF t
  <2>3. /\ run'[b] \in Runs /\ run'[b].pc = run[b].pc /\ run'[b].config = run[b].config
        /\ run'[b].key = run[b].key /\ run'[b].values = run[b].values
        /\ run'[b].named = run[b].named /\ run'[b].left = run[b].left
        /\ run'[b].recorded = run[b].recorded /\ run'[b].doubtful = run[b].doubtful
        /\ run'[b].touched = t
    BY <1>2, <2>1
  <2>4. QED
    BY <2>2, <2>3 DEF Keeps
<1>6. ASSUME NEW b \in Threads PROVE run'[b] \in Runs /\ RunTyped(run'[b])
  <2>1. CASE b = a
    BY <1>4, <2>1
  <2>2. CASE b # a
    BY <1>5, <2>2, RunFields DEF RunTyped, Keeps
  <2>3. QED
    BY <2>1, <2>2
<1>7. run' \in [Threads -> Runs]
  BY <1>1, <1>6
<1>8. QED
  BY <1>4, <1>5, <1>6, <1>7

-----------------------------------------------------------------------------
(* The invariant, under the steps that only change what a thread does. *)

\* What an upsert read, unless it was told of a change, is as it was.
Unmerged(b) ==
    run[b].pc = "merge" /\ ~run'[b].touched =>
        LET c == run[b].config IN
        /\ givenConfigs'[c] = givenConfigs[c]
        /\ configs[c] = None => configs'[c] = None
        /\ c \in lost => c \in lost'

\* A thread that is only told of changes still knows what it knew.
LEMMA KnowsStays ==
    ASSUME TypeOK, NEW b \in Threads, Knows(run[b]), Keeps(b), Alive(run'[b]),
           run[b].pc \in Refreshing /\ ~run'[b].touched =>
              \A c \in Configs : run[b].config = c => rows'[Source(c)'].key = rows[Source(c)].key,
           Unmerged(b),
           \A c \in Configs : configs[c] # None => configs'[c] # None
    PROVE  Knows(run[b])'
<1> DEFINE r == run[b]
           s == run'[b]
<1>1. /\ s.pc = r.pc /\ s.config = r.config /\ s.key = r.key /\ s.values = r.values
      /\ s.named = r.named /\ (~s.touched => ~r.touched)
  BY DEF Keeps
<1>2. s.pc \in Refreshing /\ ~s.touched => (rows[Source(run[b].config)].key)' = s.key
  BY <1>1, RunFields DEF Knows, Source, RunTyped, Refreshing
<1>3. s.pc \in {"app", "doc"} => s.named = Both
  BY <1>1 DEF Knows
<1>4. s.pc \in {"mirror", "old"} => configs'[s.config] # None
  BY <1>1, RunFields DEF Knows, RunTyped
<1>5. s.pc = "merge" /\ ~s.touched =>
          \/ s.named = Both
          \/ configs'[s.config] = None
          \/ s.config \in lost'
          \/ /\ givenConfigs'[s.config] # None
             /\ "app" \notin s.named => s.values.app = givenConfigs'[s.config].app
             /\ "op" \notin s.named => s.values.op = givenConfigs'[s.config].op
  BY <1>1 DEF Knows, Unmerged
<1>6. QED
  BY <1>2, <1>3, <1>4, <1>5 DEF Knows

LEMMA Quiet ==
    ASSUME Inv, NEW a \in Threads, NEW r \in Runs, RunTyped(r), Knows(r),
           run' = [run EXCEPT ![a] = r],
           UNCHANGED <<rows, configs, olds, given, mixed>>, changes' \in 0 .. MaxChanges
    PROVE  Inv'
<1>1. UNCHANGED <<rows, configs, olds, givenKeys, givenConfigs, lost, mixed>> /\ TypeOK
  BY DEF given, Inv
<1>2. run' \in [Threads -> Runs] /\ run'[a] = r /\ \A b \in Threads : b # a => run'[b] = run[b]
  BY <1>1 DEF TypeOK
<1>3. \A b \in Threads : run'[b] = run[b] \/ run'[b] = r
  BY <1>2
<1>4. ASSUME NEW b \in Threads PROVE RunTyped(run'[b])
  BY <1>1, <1>3, RunFields
<1>5. TypeOK'
  BY <1>1, <1>2, <1>4 DEF TypeOK, RunTyped
<1>6. RowInv' /\ SettingsAreLastGiven' /\ MovedInv'
  BY <1>1 DEF Inv, RowInv, SettingsAreLastGiven, MovedInv
<1>7. ASSUME NEW s, Knows(s) PROVE Knows(s)'
  BY <1>1, <1>7 DEF Knows, Source
<1>8. ASSUME NEW b \in Threads PROVE Knows(run[b])'
  <2>1. CASE run'[b] = run[b]
    <3>1. Knows(run[b])
      BY DEF Inv, RunInv
    <3>2. QED
      BY <1>1, <2>1, <3>1 DEF Knows, Source
  <2>2. CASE run'[b] = r
    BY <1>1, <2>2 DEF Knows, Source
  <2>3. QED
    BY <1>3, <2>1, <2>2
<1>9. QED
  BY <1>5, <1>6, <1>8 DEF Inv, RunInv

LEMMA RefreshStep == ASSUME Inv, NEW a \in Threads, Refresh(a) PROVE Inv'
<1>1. PICK c \in Configs :
         /\ rows[Source(c)].key # None
         /\ run' = [run EXCEPT ![a] = [Idle EXCEPT !.pc = "wait", !.config = c,
                                                    !.key = rows[Source(c)].key]]
  BY DEF Refresh
<1> DEFINE key == rows[Source(c)].key
           r == [Idle EXCEPT !.pc = "wait", !.config = c, !.key = key]
<1>2. key \in Keys
  BY <1>1, SourceTyped DEF Inv, Rows
<1> HIDE DEF key
<1>3. /\ r \in Runs /\ r.pc = "wait" /\ r.config = c /\ r.key = key
      /\ r.left = 0 /\ r.recorded = 0
  BY <1>2, IdleTyped DEF Runs, Pcs
<1>4. run' = [run EXCEPT ![a] = r]
  BY <1>1 DEF key
<1> HIDE DEF r
<1>5. RunTyped(r) /\ Knows(r)
  <2>1. key # None
    BY <1>1 DEF key
  <2>2. QED
    BY <1>3, <2>1 DEF RunTyped, Knows, Alive, Margin, key
<1>6. UNCHANGED <<rows, configs, olds, given, mixed>> /\ changes' \in 0 .. MaxChanges
  BY DEF Refresh, Inv, TypeOK
<1>7. QED
  BY <1>3, <1>4, <1>5, <1>6, Quiet

\* What is recorded of a token, and how long it is good.
Fits(time) ==
    /\ time.recorded \in Nat /\ time.left \in Nat /\ time.doubtful \in BOOLEAN
    /\ Alive(time)

LEMMA TimeFits ==
    ASSUME NEW recorded \in Int, NEW left \in Int, NEW doubtful \in BOOLEAN,
           recorded > Margin /\ ~doubtful => left + Margin >= recorded
    PROVE  Fits(Time(recorded, left, doubtful))
<1> DEFINE used == recorded > Margin
           good == IF left < recorded - Margin THEN left ELSE recorded - Margin
           r == IF used THEN recorded ELSE 0
           l == IF used /\ ~doubtful /\ good > 0 THEN good ELSE 0
           d == used /\ doubtful
<1>1. /\ r \in Nat /\ l \in Nat /\ d \in BOOLEAN
      /\ r > Margin /\ ~d => l + Margin >= r
  BY DEF Margin
<1>2. Time(recorded, left, doubtful) = [recorded |-> r, left |-> l, doubtful |-> d]
  BY DEF Time
<1> HIDE DEF r, l, d
<1>3. QED
  BY <1>1, <1>2 DEF Fits, Alive

LEMMA TimedRow ==
    ASSUME NEW t \in Rows, NEW time, Fits(time)
    PROVE  LET s == Timed(t, time) IN
           s \in Rows /\ Alive(s) /\ s.key = t.key /\ s.token = t.token
BY DEF Timed, Fits, Rows, Minutes, Alive

LEMMA TimedRun ==
    ASSUME NEW t \in Runs, NEW time, Fits(time)
    PROVE  LET s == Timed(t, time) IN
           /\ s \in Runs /\ Alive(s) /\ s.pc = t.pc /\ s.config = t.config /\ s.key = t.key
           /\ s.values = t.values /\ s.named = t.named /\ s.touched = t.touched
BY DEF Timed, Fits, Runs, Minutes, Alive

\* An answer that is not doubtful was made no longer ago than what is taken off the
\* lifetime and the margin together.
LEMMA AnswersFit == ASSUME NEW time \in Answers PROVE Fits(time)
<1>1. PICK life \in Lives, ago \in 0 .. Late, named \in BOOLEAN : time = Answer(life, ago, named)
  BY DEF Answers
<1> DEFINE counted == IF named /\ life > 0 THEN life ELSE Default
           recorded == Recorded(counted)
           left == life - ago
           doubtful == counted > life \/ ago >= Late
<1>2. /\ recorded \in Int /\ left \in Int /\ doubtful \in BOOLEAN
      /\ recorded > Margin /\ ~doubtful => left + Margin >= recorded
  <2>1. life \in Nat /\ counted \in Nat /\ ago \in 0 .. Late
    BY LivesAreMinutes
  <2> HIDE DEF counted
  <2>2. QED
    BY <2>1 DEF Recorded, Late, Reserve, Least, Margin
<1>3. time = Time(recorded, left, doubtful)
  BY <1>1 DEF Answer
<1> HIDE DEF recorded, left, doubtful
<1>4. QED
  BY <1>2, <1>3, TimeFits

LEMMA ReceiveStep == ASSUME Inv, NEW a \in Threads, Receive(a) PROVE Inv'
<1>1. PICK time \in Answers :
          run' = [run EXCEPT ![a] = [Timed(run[a], time) EXCEPT !.pc = "save"]]
  BY DEF Receive, Inv, TypeOK
<1> DEFINE got == Timed(run[a], time)
           r == [got EXCEPT !.pc = "save"]
<1>2. run' = [run EXCEPT ![a] = r]
  BY <1>1
<1>3. run[a] \in Runs /\ RunTyped(run[a]) /\ Knows(run[a]) /\ run[a].pc = "wait"
  BY RunFields DEF Inv, RunInv, Receive
<1>4. /\ got \in Runs /\ Alive(got) /\ got.config = run[a].config /\ got.key = run[a].key
      /\ got.values = run[a].values /\ got.touched = run[a].touched
  BY <1>3, AnswersFit, TimedRun
<1> HIDE DEF got
<1>5. /\ r \in Runs /\ r.pc = "save" /\ r.config = run[a].config /\ r.key = run[a].key
      /\ r.touched = run[a].touched /\ r.values = run[a].values /\ Alive(r)
  BY <1>4 DEF Runs, Pcs, Alive
<1> HIDE DEF r
<1>6. RunTyped(r) /\ Knows(r)
  BY <1>3, <1>5 DEF RunTyped, Knows, Refreshing
<1>7. UNCHANGED <<rows, configs, olds, given, mixed>> /\ changes' \in 0 .. MaxChanges
  BY DEF Receive, Inv, TypeOK
<1>8. QED
  BY <1>2, <1>5, <1>6, <1>7, Quiet

LEMMA IdleKnows == Knows(Idle)
BY IdleTyped DEF Knows, Refreshing

LEMMA StopStep == ASSUME Inv, NEW a \in Threads, Stop(a) PROVE Inv'
BY Quiet, IdleTyped, IdleKnows DEF Stop, Inv, TypeOK

LEMMA ValuesIs ==
    ASSUME NEW app \in Apps, NEW op \in Operators \cup {None}
    PROVE  /\ [app |-> app, op |-> op] \in Values
           /\ [app |-> app, op |-> op].app = app /\ [app |-> app, op |-> op].op = op
BY DEF Values

LEMMA BeginUpsertStep == ASSUME Inv, NEW a \in Threads, BeginUpsert(a) PROVE Inv'
<1>1. PICK c \in Configs, app \in Apps, op \in Operators, named \in (SUBSET Both) \ {{}} :
          LET new == [app |-> IF "app" \in named THEN app ELSE Current(c).app,
                      op |-> IF "op" \in named THEN op ELSE Current(c).op]
          IN  run' = [run EXCEPT ![a] = [Idle EXCEPT !.pc = "merge", !.config = c,
                                              !.values = new, !.named = named]]
  BY DEF BeginUpsert
<1> DEFINE now == Current(c)
           new == [app |-> IF "app" \in named THEN app ELSE now.app,
                   op |-> IF "op" \in named THEN op ELSE now.op]
           r == [Idle EXCEPT !.pc = "merge", !.config = c, !.values = new, !.named = named]
<1>2. now.app \in Apps /\ now.op \in Operators \cup {None} /\ (configs[c] # None => now = configs[c])
  BY SourceTyped, DefaultIsAnApp DEF Inv, Current, Values
<1>3. /\ new \in Values
      /\ "app" \notin named => new.app = now.app
      /\ "op" \notin named => new.op = now.op
  BY <1>2, ValuesIs
<1>4. run' = [run EXCEPT ![a] = r] /\ named \in SUBSET Both
  BY <1>1
<1>5. configs[c] # None /\ c \notin lost => now = givenConfigs[c] /\ givenConfigs[c] # None
  BY <1>2 DEF Inv, SettingsAreLastGiven
<1> HIDE DEF new, now
<1>6. /\ r \in Runs /\ r.pc = "merge" /\ r.config = c /\ r.values = new /\ r.named = named
      /\ r.left = 0 /\ r.recorded = 0
  BY <1>3, <1>4, IdleTyped DEF Runs, Pcs
<1> HIDE DEF r
<1>7. RunTyped(r)
  <2>1. new # None
    BY <1>3, NoValuesAreNone
  <2>2. QED
    BY <1>6, <2>1 DEF RunTyped, Refreshing
<1>8. Knows(r)
  BY <1>3, <1>4, <1>5, <1>6 DEF Knows, Alive, Margin, Refreshing
<1>9. UNCHANGED <<rows, configs, olds, given, mixed>> /\ changes' \in 0 .. MaxChanges
  BY ChangesAreBounded DEF BeginUpsert, Inv, TypeOK
<1>10. QED
  BY <1>4, <1>6, <1>7, <1>8, <1>9, Quiet

LEMMA BeginScriptStep == ASSUME Inv, NEW a \in Threads, BeginScript(a) PROVE Inv'
<1>1. PICK c \in Configs, v \in Values, k \in Keys :
          run' = [run EXCEPT ![a] = [Idle EXCEPT !.pc = "app", !.config = c, !.key = k,
                                       !.values = v, !.named = Both]]
  BY DEF BeginScript
<1> DEFINE r == [Idle EXCEPT !.pc = "app", !.config = c, !.key = k, !.values = v, !.named = Both]
<1>2. run' = [run EXCEPT ![a] = r]
  BY <1>1
<1>3. /\ r \in Runs /\ r.pc = "app" /\ r.config = c /\ r.key = k /\ r.values = v
      /\ r.named = Both /\ r.left = 0 /\ r.recorded = 0
  <2> DEFINE s == [Idle EXCEPT !.pc = "app", !.config = c, !.key = k]
  <2>1. /\ s \in Runs /\ s.pc = "app" /\ s.config = c /\ s.key = k /\ s.left = 0 /\ s.recorded = 0
    BY IdleTyped DEF Runs, Pcs
  <2>2. r = [s EXCEPT !.values = v, !.named = Both]
    OBVIOUS
  <2> HIDE DEF s, r
  <2>3. QED
    BY <2>1, <2>2 DEF Runs
<1> HIDE DEF r
<1>4. RunTyped(r) /\ Knows(r)
  BY <1>3, NoValuesAreNone, NothingIsNone DEF RunTyped, Knows, Alive, Margin, Refreshing
<1>5. UNCHANGED <<rows, configs, olds, given, mixed>> /\ changes' \in 0 .. MaxChanges
  BY ChangesAreBounded DEF BeginScript, Inv, TypeOK
<1>6. QED
  BY <1>2, <1>3, <1>4, <1>5, Quiet

-----------------------------------------------------------------------------
(* The steps that write. *)

\* A thread goes on, and the others are at most told of changes.
Goes(a, r) ==
    /\ run' \in [Threads -> Runs] /\ run'[a] = r
    /\ \A b \in Threads : RunTyped(run'[b])
    /\ \A b \in Threads \ {a} :
          /\ Keeps(b) /\ run'[b].left = run[b].left /\ run'[b].recorded = run[b].recorded
          /\ run'[b].doubtful = run[b].doubtful

LEMMA EndGoes ==
    ASSUME TypeOK, NEW a \in Threads, run' = [run EXCEPT ![a] = Idle]
    PROVE  Goes(a, Idle)
<1>1. run' \in [Threads -> Runs] /\ run'[a] = Idle /\ \A b \in Threads : b # a => run'[b] = run[b]
  BY IdleTyped DEF TypeOK
<1>2. \A b \in Threads : run'[b] = run[b] \/ run'[b] = Idle
  BY <1>1
<1>3. \A b \in Threads : RunTyped(run'[b])
  BY <1>2, IdleTyped, RunFields
<1>4. QED
  BY <1>1, <1>3 DEF Goes, Keeps

LEMMA Write ==
    ASSUME Inv, NEW a \in Threads, NEW r \in Runs, Goes(a, r), Alive(r),
           r.pc \notin Refreshing \cup {"merge"},
           r.pc \in {"app", "doc"} => r.named = Both,
           r.pc \in {"mirror", "old"} => configs'[r.config] # None,
           rows' \in [Names -> Rows], configs' \in [Configs -> Values \cup {None}],
           olds' \in [Configs -> Values \cup {None}], givenKeys' \in [Apps -> Keys \cup {None}],
           givenConfigs' \in [Configs -> Values \cup {None}],
           lost' \subseteq Configs, mixed' \subseteq Names, UNCHANGED changes,
           RowInv', SettingsAreLastGiven', MovedInv',
           \A c \in Configs : configs[c] # None => configs'[c] # None,
           \A b \in Threads \ {a} : run[b].pc \in Refreshing /\ ~run'[b].touched =>
              \A c \in Configs : run[b].config = c => rows'[Source(c)'].key = rows[Source(c)].key,
           \A b \in Threads \ {a} : Unmerged(b)
    PROVE  Inv'
<1>1. TypeOK'
  BY DEF Inv, TypeOK, Goes, RunTyped, Names
<1>2. ASSUME NEW b \in Threads \ {a} PROVE Knows(run[b])'
  <2>1. Knows(run[b]) /\ TypeOK /\ Keeps(b) /\ Alive(run'[b])
    BY DEF Inv, RunInv, Goes, Knows, Alive
  <2>2. QED
    BY <2>1, KnowsStays
<1>3. Knows(run[a])'
  BY DEF Goes, Knows
<1>4. RunInv'
  BY <1>2, <1>3 DEF RunInv
<1>5. QED
  BY <1>1, <1>4 DEF Inv

\* What the invariant says of the variables a step leaves alone.
LEMMA Typed ==
    ASSUME Inv
    PROVE  /\ rows \in [Names -> Rows] /\ configs \in [Configs -> Values \cup {None}]
           /\ olds \in [Configs -> Values \cup {None}] /\ givenKeys \in [Apps -> Keys \cup {None}]
           /\ givenConfigs \in [Configs -> Values \cup {None}]
           /\ lost \subseteq Configs /\ mixed \subseteq Names /\ TypeOK
BY DEF Inv, TypeOK, Names

LEMMA SaveStep == ASSUME Inv, NEW a \in Threads, Save(a) PROVE Inv'
<1> DEFINE r == run[a]
           row == Source(r.config)
           new == [rows[row] EXCEPT !.token = r.key, !.recorded = r.recorded,
                                    !.left = r.left, !.doubtful = r.doubtful]
<1>1. /\ r.pc = "save" /\ rows' = [rows EXCEPT ![row] = new]
      /\ mixed' = IF r.touched THEN mixed \cup {row} ELSE mixed \ {row}
      /\ run' = [run EXCEPT ![a] = Idle]
      /\ UNCHANGED <<configs, olds, changes, givenKeys, givenConfigs, lost>>
  BY DEF Save, given
<1>2. /\ r.config \in Configs /\ r.key \in Keys /\ r.left \in Nat /\ r.recorded \in Nat
      /\ r.doubtful \in BOOLEAN /\ Alive(r) /\ (~r.touched => rows[row].key = r.key)
  BY <1>1, RunFields, Typed DEF Inv, RunInv, RunTyped, Knows, Refreshing
<1>3. row \in Names /\ rows[row] \in Rows
  BY <1>2, SourceTyped, Typed
<1>4. /\ new \in Rows /\ new.key = rows[row].key /\ new.token = r.key /\ Alive(new)
  BY <1>2, <1>3 DEF Rows, Minutes, Alive
<1> HIDE DEF new
<1>5. /\ rows' \in [Names -> Rows] /\ rows'[row] = new
      /\ \A x \in Names : x # row => rows'[x] = rows[x]
  BY <1>1, <1>3, <1>4, Typed
<1>6. \A x \in Names : rows'[x].key = rows[x].key
  BY <1>4, <1>5
<1>7. mixed' \subseteq Names /\ \A x \in Names : x # row /\ x \notin mixed' => x \notin mixed
  BY <1>1, <1>3, Typed
<1>8. RowInv'
  <2>1. ASSUME NEW x \in Names
        PROVE  /\ Alive(rows'[x])
               /\ x \notin mixed' /\ rows'[x].token # None => rows'[x].token = rows'[x].key
    <3>1. CASE x = row
      <4>1. Alive(rows'[x])
        BY <1>4, <1>5, <3>1
      <4>2. x \notin mixed' => rows'[x].token = rows'[x].key
        BY <1>1, <1>2, <1>4, <1>5, <3>1
      <4>3. QED
        BY <4>1, <4>2
    <3>2. CASE x # row
      BY <1>5, <1>7, <3>2 DEF Inv, RowInv
    <3>3. QED
      BY <3>1, <3>2
  <2>2. QED
    BY <2>1 DEF RowInv, Alive
<1>9. SettingsAreLastGiven' /\ MovedInv'
  BY <1>1, <1>6 DEF Inv, SettingsAreLastGiven, MovedInv, Names
<1>10. \A c \in Configs : rows'[Source(c)'].key = rows[Source(c)].key
  BY <1>1, <1>6, SourceTyped, Typed DEF Source
<1>11. Goes(a, Idle) /\ Idle \in Runs /\ Alive(Idle) /\ Idle.pc = "idle"
  BY <1>1, IdleTyped, EndGoes, Typed
<1>12. QED
  BY <1>1, <1>5, <1>7, <1>8, <1>9, <1>10, <1>11, Write, Typed DEF Refreshing, Unmerged

LEMMA MirrorStep == ASSUME Inv, NEW a \in Threads, Mirror(a) PROVE Inv'
<1> DEFINE c == run[a].config
<1>1. /\ run[a].pc = "mirror" /\ run' = [run EXCEPT ![a] = Idle]
      /\ \/ UNCHANGED olds
         \/ \E remark \in Apps : olds' = [olds EXCEPT ![c] = [run[a].values EXCEPT !.app = remark]]
      /\ UNCHANGED <<rows, configs, changes, givenKeys, givenConfigs, lost, mixed>>
  BY DEF Mirror, given
<1>2. c \in Configs /\ run[a].values \in Values /\ configs[c] # None
  BY <1>1, RunFields, Typed DEF RunTyped, Inv, RunInv, Knows
<1>3. \A remark \in Apps : [run[a].values EXCEPT !.app = remark] \in Values
  BY <1>2 DEF Values
<1>4. /\ olds' \in [Configs -> Values \cup {None}]
      /\ \A d \in Configs : d # c => olds'[d] = olds[d]
  BY <1>1, <1>2, <1>3, Typed
<1>5. RowInv' /\ SettingsAreLastGiven'
  BY <1>1 DEF Inv, SettingsAreLastGiven, RowInv
<1>6. MovedInv'
  BY <1>1, <1>2, <1>4 DEF Inv, MovedInv
<1>7. \A d \in Configs : rows'[Source(d)'].key = rows[Source(d)].key
  BY <1>1 DEF Source
<1>8. Goes(a, Idle) /\ Idle \in Runs /\ Alive(Idle) /\ Idle.pc = "idle"
  BY <1>1, IdleTyped, EndGoes, Typed
<1>9. QED
  BY <1>1, <1>4, <1>5, <1>6, <1>7, <1>8, Write, Typed DEF Refreshing, Unmerged

LEMMA WriteAppStep == ASSUME Inv, NEW a \in Threads, WriteApp(a) PROVE Inv'
<1> DEFINE r == run[a]
           x == r.values.app
           same == rows[x].key = r.key
           new == IF same THEN rows[x] ELSE [NoRow EXCEPT !.key = r.key]
           goes == [r EXCEPT !.pc = "doc"]
           cs == {c \in Configs : Source(c) = x}
<1>1. /\ r.pc = "app" /\ mixed' = IF same THEN mixed ELSE mixed \ {x}
      /\ givenKeys' = [givenKeys EXCEPT ![x] = r.key]
      /\ GoTouching(a, goes, cs, Refreshing)
      /\ UNCHANGED <<configs, olds, changes, givenConfigs, lost>>
  BY DEF WriteApp
<1>2. /\ r.key \in Keys /\ r.values \in Values /\ r.values # None /\ r.config \in Configs
      /\ r \in Runs /\ Alive(r) /\ r.named = Both
  BY <1>1, RunFields, Typed DEF Inv, RunInv, RunTyped, Knows
<1>3. x \in Apps /\ x \in Names /\ rows[x] \in Rows
  BY <1>2, Typed DEF Values, Names
<1>4. rows' = [rows EXCEPT ![x] = new]
  BY Typed, <1>3 DEF WriteApp
<1>5. /\ new \in Rows /\ new.key = r.key /\ Alive(new)
      /\ x \notin mixed' /\ new.token # None => new.token = new.key
  <2>1. CASE same
    BY <1>1, <1>3, <2>1 DEF Inv, RowInv
  <2>2. CASE ~same
    BY <1>2, <2>2, NoRowTyped
  <2>3. QED
    BY <2>1, <2>2
<1>6. /\ goes \in Runs /\ goes.pc = "doc" /\ goes.config = r.config /\ goes.key = r.key
      /\ goes.values = r.values /\ goes.named = r.named /\ Alive(goes)
  BY <1>2 DEF Runs, Pcs, Alive
<1> HIDE DEF new, goes
<1>7. /\ rows' \in [Names -> Rows] /\ rows'[x] = new
      /\ \A y \in Names : y # x => rows'[y] = rows[y]
  BY <1>3, <1>4, <1>5, Typed
<1>8. mixed' \subseteq Names /\ \A y \in Names : y # x /\ y \notin mixed' => y \notin mixed
  BY <1>1, Typed
<1>9. RowInv'
  <2>1. ASSUME NEW y \in Names
        PROVE  /\ Alive(rows'[y])
               /\ y \notin mixed' /\ rows'[y].token # None => rows'[y].token = rows'[y].key
    <3>1. CASE y = x
      BY <1>5, <1>7, <3>1
    <3>2. CASE y # x
      BY <1>7, <1>8, <3>2 DEF Inv, RowInv
    <3>3. QED
      BY <3>1, <3>2
  <2>2. QED
    BY <2>1 DEF RowInv, Alive
<1>10. SettingsAreLastGiven'
  <2>1. ASSUME NEW y \in Apps, givenKeys'[y] # None PROVE rows'[y].key = givenKeys'[y]
    <3>1. CASE y = x
      BY <1>1, <1>3, <1>5, <1>7, <3>1, Typed
    <3>2. CASE y # x
      <4>1. givenKeys'[y] = givenKeys[y] /\ y \in Names
        BY <1>1, <3>2, Typed DEF Names
      <4>2. QED
        BY <1>7, <2>1, <3>2, <4>1 DEF Inv, SettingsAreLastGiven
    <3>3. QED
      BY <3>1, <3>2
  <2>2. QED
    BY <1>1, <2>1 DEF Inv, SettingsAreLastGiven
<1>11. MovedInv' /\ givenKeys' \in [Apps -> Keys \cup {None}]
  BY <1>1, <1>2, Typed DEF Inv, MovedInv
<1>12. RunTyped(goes)
  BY <1>2, <1>6, NothingIsNone DEF RunTyped
<1>13. /\ Goes(a, goes)
       /\ \A b \in Threads \ {a} : run[b].pc \in Refreshing /\ run[b].config \in cs => run'[b].touched
  BY <1>1, <1>6, <1>12, GoTouchingTyped, Typed DEF Goes
<1>14. \A b \in Threads \ {a} : run[b].pc \in Refreshing /\ ~run'[b].touched =>
         \A c \in Configs : run[b].config = c => rows'[Source(c)'].key = rows[Source(c)].key
  <2>1. \A c \in Configs : c \notin cs => Source(c) # x /\ Source(c) \in Names /\ Source(c)' = Source(c)
    BY <1>1, SourceTyped, Typed DEF Source
  <2>2. QED
    BY <1>7, <1>13, <2>1
<1>15. QED
  BY <1>1, <1>2, <1>6, <1>7, <1>8, <1>9, <1>10, <1>11, <1>13, <1>14, Write, Typed DEF Refreshing, Unmerged

LEMMA WriteOldStep == ASSUME Inv, NEW a \in Threads, WriteOld(a) PROVE Inv'
<1> DEFINE r == run[a]
           c == r.config
           new == [NoRow EXCEPT !.key = r.key]
<1>1. /\ r.pc = "old" /\ mixed' = mixed \ {c} /\ GoTouching(a, Idle, {c}, Refreshing)
      /\ rows' = [rows EXCEPT ![c] = new] /\ olds' = [olds EXCEPT ![c] = r.values]
      /\ UNCHANGED <<configs, changes, givenKeys, givenConfigs, lost>>
  BY DEF WriteOld, given
<1>2. /\ r.key \in Keys /\ r.values \in Values /\ c \in Configs /\ configs[c] # None
  BY <1>1, RunFields, Typed DEF Inv, RunInv, RunTyped, Knows
<1>3. new \in Rows /\ new.token = None /\ Alive(new)
  BY <1>2, NoRowTyped
<1> HIDE DEF new
<1>4. c \in Names /\ c \notin Apps
  BY <1>2, NamesDiffer DEF Names
<1>5. /\ rows' \in [Names -> Rows] /\ rows'[c] = new
      /\ \A y \in Names : y # c => rows'[y] = rows[y]
  BY <1>1, <1>3, <1>4, Typed
<1>6. RowInv'
  <2>1. ASSUME NEW y \in Names
        PROVE  /\ Alive(rows'[y])
               /\ y \notin mixed' /\ rows'[y].token # None => rows'[y].token = rows'[y].key
    <3>1. CASE y = c
      BY <1>3, <1>5, <3>1
    <3>2. CASE y # c
      BY <1>1, <1>5, <3>2 DEF Inv, RowInv
    <3>3. QED
      BY <3>1, <3>2
  <2>2. QED
    BY <2>1 DEF RowInv, Alive
<1>7. SettingsAreLastGiven'
  <2>1. \A y \in Apps : rows'[y] = rows[y]
    BY <1>4, <1>5 DEF Names
  <2>2. QED
    BY <1>1, <2>1 DEF Inv, SettingsAreLastGiven
<1>8. MovedInv' /\ olds' \in [Configs -> Values \cup {None}]
  BY <1>1, <1>2, Typed DEF Inv, MovedInv
<1>9. /\ Goes(a, Idle) /\ Idle \in Runs /\ Alive(Idle) /\ Idle.pc = "idle"
      /\ \A b \in Threads \ {a} : run[b].pc \in Refreshing /\ run[b].config \in {c} => run'[b].touched
  BY <1>1, IdleTyped, GoTouchingTyped, Typed DEF Goes
<1>10. \A b \in Threads \ {a} : run[b].pc \in Refreshing /\ ~run'[b].touched =>
         \A d \in Configs : run[b].config = d => rows'[Source(d)'].key = rows[Source(d)].key
  <2>1. ASSUME NEW d \in Configs, d # c PROVE Source(d) # c /\ Source(d) \in Names /\ Source(d)' = Source(d)
    BY <1>1, <1>4, <2>1, SourceTyped, Typed DEF Source
  <2>2. QED
    BY <1>5, <1>9, <2>1
<1>11. mixed' \subseteq Names
  BY <1>1, Typed
<1>12. QED
  BY <1>1, <1>5, <1>6, <1>7, <1>8, <1>9, <1>10, <1>11, Write, Typed DEF Refreshing, Unmerged

\* What an upsert does not name has the values given last, if nobody changed them
\* since it read them; the script names everything.
LEMMA WriteConfigStep == ASSUME Inv, NEW a \in Threads, WriteConfig(a) PROVE Inv'
<1> DEFINE r == run[a]
           c == r.config
           old == givenConfigs[c]
           merged == [app |-> IF "app" \in r.named THEN r.values.app ELSE old.app,
                      op |-> IF "op" \in r.named THEN r.values.op ELSE old.op]
           goes == [r EXCEPT !.pc = IF @ = "merge" THEN "mirror" ELSE "old",
                             !.named = {}, !.touched = FALSE]
           pcs == Refreshing \cup {"merge"}
<1>1. /\ r.pc \in {"merge", "doc"} /\ configs' = [configs EXCEPT ![c] = r.values]
      /\ lost' = IF r.named = Both THEN lost \ {c}
                 ELSE IF r.touched \/ (configs[c] = None /\ olds[c] # None) THEN lost \cup {c}
                 ELSE lost
      /\ GoTouching(a, goes, {c}, pcs)
      /\ UNCHANGED <<rows, olds, changes, givenKeys, mixed>>
  BY DEF WriteConfig
<1>2. /\ r \in Runs /\ r.values \in Values /\ r.values # None /\ c \in Configs /\ Alive(r)
      /\ Knows(r) /\ (r.pc = "doc" => r.key # None /\ r.named = Both)
  BY <1>1, RunFields, Typed DEF Inv, RunInv, RunTyped, Knows
<1>3. givenConfigs' = [givenConfigs EXCEPT ![c] = IF old = None THEN r.values ELSE merged]
  BY <1>2, Typed DEF WriteConfig
<1>4. old # None => old \in Values
  BY <1>2, Typed
<1>5. old # None => merged \in Values
  BY <1>2, <1>4 DEF Values
<1>6. c \notin lost' /\ old # None => merged = r.values
  <2> SUFFICES ASSUME c \notin lost', old # None PROVE merged = r.values
    OBVIOUS
  <2>1. r.values = [app |-> r.values.app, op |-> r.values.op]
    BY <1>2 DEF Values
  <2>2. /\ "app" \notin r.named => r.values.app = old.app
        /\ "op" \notin r.named => r.values.op = old.op
    <3>1. CASE r.named = Both
      BY <3>1 DEF Both
    <3>2. CASE r.named # Both
      <4>1. c \notin lost /\ ~r.touched /\ r.pc = "merge"
        BY <1>1, <1>2, <3>2
      <4>2. configs[c] # None
        BY <1>1, <1>2, <3>2 DEF Inv, MovedInv
      <4>3. QED
        BY <1>2, <3>2, <4>1, <4>2 DEF Knows
    <3>3. QED
      BY <3>1, <3>2
  <2>3. QED
    BY <2>1, <2>2
<1> HIDE DEF merged
<1>7. /\ configs' \in [Configs -> Values \cup {None}] /\ configs'[c] = r.values
      /\ givenConfigs' \in [Configs -> Values \cup {None}]
      /\ \A d \in Configs : d # c => configs'[d] = configs[d] /\ givenConfigs'[d] = givenConfigs[d]
  BY <1>1, <1>2, <1>3, <1>5, Typed
<1>8. c \notin lost' => configs'[c] = givenConfigs'[c]
  BY <1>2, <1>3, <1>6, <1>7, Typed
<1>9. lost' \subseteq Configs /\ \A d \in Configs : d # c => (d \in lost <=> d \in lost')
  BY <1>1, <1>2, Typed
<1>10. RowInv'
  BY <1>1 DEF Inv, RowInv
<1>11. SettingsAreLastGiven'
  <2>1. \A d \in Configs \ lost' : configs'[d] # None => configs'[d] = givenConfigs'[d]
    BY <1>7, <1>8, <1>9 DEF Inv, SettingsAreLastGiven
  <2>2. QED
    BY <1>1, <2>1 DEF Inv, SettingsAreLastGiven
<1>12. MovedInv' /\ \A d \in Configs : configs[d] # None => configs'[d] # None
  BY <1>1, <1>2, <1>7 DEF Inv, MovedInv
<1>13. /\ goes \in Runs /\ goes.pc \in {"mirror", "old"} /\ goes.config = c /\ goes.values = r.values
       /\ goes.key = r.key /\ (goes.pc = "old" => r.pc = "doc") /\ Alive(goes)
  <2> DEFINE went == [r EXCEPT !.pc = IF @ = "merge" THEN "mirror" ELSE "old"]
  <2>1. /\ went \in Runs /\ went.pc = (IF r.pc = "merge" THEN "mirror" ELSE "old")
        /\ went.config = c /\ went.values = r.values /\ went.key = r.key
        /\ went.left = r.left /\ went.recorded = r.recorded /\ went.doubtful = r.doubtful
    BY <1>2 DEF Runs, Pcs
  <2>2. goes = [went EXCEPT !.named = {}, !.touched = FALSE]
    OBVIOUS
  <2> HIDE DEF went, goes
  <2>3. /\ goes \in Runs /\ goes.pc = went.pc /\ goes.config = c /\ goes.values = r.values
        /\ goes.key = r.key /\ goes.left = r.left /\ goes.recorded = r.recorded
        /\ goes.doubtful = r.doubtful
    BY <2>1, <2>2 DEF Runs
  <2>4. QED
    BY <1>1, <1>2, <2>1, <2>3 DEF Alive
<1> HIDE DEF goes
<1>14. RunTyped(goes)
  BY <1>2, <1>13 DEF RunTyped, Refreshing
<1>15. /\ Goes(a, goes)
       /\ \A b \in Threads \ {a} : run[b].pc \in pcs /\ run[b].config = c => run'[b].touched
  BY <1>1, <1>13, <1>14, GoTouchingTyped, Typed DEF Goes
<1>16. \A b \in Threads \ {a} : run[b].pc \in Refreshing /\ ~run'[b].touched =>
         \A d \in Configs : run[b].config = d => rows'[Source(d)'].key = rows[Source(d)].key
  BY <1>1, <1>7, <1>15 DEF Source
<1>17. \A b \in Threads \ {a} : Unmerged(b)
  <2>1. ASSUME NEW b \in Threads \ {a}, run[b].pc = "merge", ~run'[b].touched
        PROVE  run[b].config \in Configs /\ run[b].config # c
    BY <1>15, <2>1, RunFields, Typed DEF RunTyped
  <2>2. QED
    BY <1>7, <1>9, <2>1 DEF Unmerged
<1>18. QED
  <2>1. /\ Alive(goes) /\ goes.pc \notin Refreshing \cup {"merge"} /\ goes \in Runs
        /\ goes.pc \notin {"app", "doc"} /\ configs'[goes.config] # None
    BY <1>2, <1>7, <1>13 DEF Refreshing
  <2>2. /\ rows' \in [Names -> Rows] /\ olds' \in [Configs -> Values \cup {None}]
        /\ givenKeys' \in [Apps -> Keys \cup {None}] /\ mixed' \subseteq Names /\ UNCHANGED changes
    BY <1>1, Typed
  <2>3. QED
    BY <1>7, <1>9, <1>10, <1>11, <1>12, <1>15, <1>16, <1>17, <2>1, <2>2, Write

-----------------------------------------------------------------------------
(* Time, and the migration. *)

\* A minute takes as much off what is left as off what is recorded.
LEMMA LaterRow ==
    ASSUME NEW t \in Rows, Alive(t)
    PROVE  /\ Later(t) \in Rows /\ Alive(Later(t))
           /\ Later(t).key = t.key /\ Later(t).token = t.token
<1>1. t.left \in Nat /\ t.recorded \in Nat /\ t.doubtful \in BOOLEAN
  BY DEF Rows, Minutes
<1>2. /\ t.recorded - 1 \in Int /\ t.left - 1 \in Int
      /\ t.recorded - 1 > Margin /\ ~t.doubtful => t.left - 1 + Margin >= t.recorded - 1
  BY <1>1 DEF Alive, Margin
<1>3. QED
  BY <1>1, <1>2, TimeFits, TimedRow DEF Later

LEMMA LaterRun ==
    ASSUME NEW t \in Runs, Alive(t)
    PROVE  /\ Later(t) \in Runs /\ Alive(Later(t)) /\ Later(t).pc = t.pc
           /\ Later(t).config = t.config /\ Later(t).key = t.key /\ Later(t).values = t.values
           /\ Later(t).named = t.named /\ Later(t).touched = t.touched
<1>1. t.left \in Nat /\ t.recorded \in Nat /\ t.doubtful \in BOOLEAN
  BY DEF Runs, Minutes
<1>2. /\ t.recorded - 1 \in Int /\ t.left - 1 \in Int
      /\ t.recorded - 1 > Margin /\ ~t.doubtful => t.left - 1 + Margin >= t.recorded - 1
  BY <1>1 DEF Alive, Margin
<1>3. QED
  BY <1>1, <1>2, TimeFits, TimedRun DEF Later

LEMMA TickStep == ASSUME Inv, Tick PROVE Inv'
<1>1. /\ rows' = [r \in Names |-> Later(rows[r])]
      /\ run' = [a \in Threads |-> Later(run[a])]
      /\ UNCHANGED <<configs, olds, changes, givenKeys, givenConfigs, lost, mixed>>
  BY DEF Tick, given, Names
<1>2. ASSUME NEW x \in Names
      PROVE  /\ rows'[x] \in Rows /\ Alive(rows'[x])
             /\ rows'[x].key = rows[x].key /\ rows'[x].token = rows[x].token
  BY <1>1, LaterRow, Typed DEF Inv, RowInv
<1>3. ASSUME NEW a \in Threads PROVE run'[a] \in Runs /\ Keeps(a) /\ Alive(run'[a])
  <2>1. run[a] \in Runs /\ Alive(run[a]) /\ run'[a] = Later(run[a])
    BY <1>1, RunFields, Typed DEF Inv, RunInv, Knows
  <2>2. QED
    BY <2>1, LaterRun DEF Keeps
<1>4. RowInv'
  BY <1>1, <1>2 DEF Inv, RowInv, Alive
<1>5. SettingsAreLastGiven' /\ MovedInv'
  BY <1>1, <1>2 DEF Inv, SettingsAreLastGiven, MovedInv, Names
<1>6. ASSUME NEW b \in Threads PROVE Knows(run[b])'
  <2>1. \A c \in Configs : rows'[Source(c)'].key = rows[Source(c)].key
    BY <1>1, <1>2, SourceTyped, Typed DEF Source
  <2>2. Knows(run[b]) /\ TypeOK
    BY Typed DEF Inv, RunInv
  <2>3. QED
    BY <1>1, <1>3, <2>1, <2>2, KnowsStays DEF Unmerged
<1>7. TypeOK'
  <2>1. rows' \in [Names -> Rows] /\ run' \in [Threads -> Runs]
    BY <1>1, <1>2, <1>3
  <2>2. \A b \in Threads : RunTyped(run'[b])
    BY <1>3, RunFields, Typed DEF RunTyped, Keeps
  <2>3. QED
    BY <1>1, <2>1, <2>2, Typed DEF TypeOK, RunTyped, Names
<1>8. QED
  BY <1>4, <1>5, <1>6, <1>7 DEF Inv, RunInv

\* Rows are copied to apps that have none, so nobody is in the middle of a refresh
\* for them; a configuration that is copied is the one that was given.
LEMMA MigrateStep == ASSUME Inv, Migrate PROVE Inv'
<1> DEFINE new == {x \in Apps : Missing(x)}
<1>1. PICK from \in [Apps -> Configs] :
          /\ \A x \in new : from[x] \in InOldTable /\ olds[from[x]].app = x
          /\ rows' = [r \in Names |-> IF r \in new THEN rows[from[r]] ELSE rows[r]]
          /\ mixed' = mixed \cup {x \in new : from[x] \in mixed}
  BY DEF Migrate, Names
<1>2. PICK moved \in {{}, {c \in InOldTable : configs[c] = None}} :
          /\ configs' = [c \in Configs |-> IF c \in moved THEN olds[c] ELSE configs[c]]
          /\ run' = [a \in Threads |->
                       [run[a] EXCEPT !.touched = @ \/ (run[a].pc \in Refreshing \cup {"merge"}
                                                        /\ run[a].config \in moved)]]
  BY DEF Migrate
<1>3. UNCHANGED <<olds, changes, givenKeys, givenConfigs, lost>>
  BY DEF Migrate, given
<1>4. \A c \in moved : c \in Configs /\ olds[c] # None /\ configs[c] = None
  BY DEF InOldTable
<1>5. ASSUME NEW x \in new PROVE x \in Apps /\ rows[x].key = None /\ from[x] \in Names
  BY <1>1 DEF Missing, Names
<1> HIDE DEF new
<1>6. /\ rows' \in [Names -> Rows] /\ new \subseteq Apps
      /\ \A x \in Names : x \notin new => rows'[x] = rows[x]
      /\ \A x \in new : rows'[x] = rows[from[x]]
  <2>1. new \subseteq Apps
    BY <1>5
  <2>2. QED
    BY <1>1, <1>5, <2>1, Typed DEF Names
<1>7. RowInv'
  <2>1. ASSUME NEW x \in Names
        PROVE  /\ Alive(rows'[x])
               /\ x \notin mixed' /\ rows'[x].token # None => rows'[x].token = rows'[x].key
    <3>1. CASE x \in new
      BY <1>1, <1>5, <1>6, <3>1 DEF Inv, RowInv
    <3>2. CASE x \notin new
      BY <1>1, <1>6, <3>2 DEF Inv, RowInv
    <3>3. QED
      BY <3>1, <3>2
  <2>2. QED
    BY <2>1 DEF RowInv, Alive
<1>8. /\ configs' \in [Configs -> Values \cup {None}]
      /\ \A c \in Configs : c \notin moved => configs'[c] = configs[c]
      /\ \A c \in moved : configs'[c] = olds[c]
  BY <1>2, <1>4, Typed
<1>9. SettingsAreLastGiven'
  <2>1. ASSUME NEW x \in Apps, givenKeys[x] # None PROVE rows'[x].key = givenKeys[x]
    <3>1. rows[x].key = givenKeys[x]
      BY <2>1 DEF Inv, SettingsAreLastGiven
    <3>2. x \notin new /\ x \in Names
      BY <1>5, <2>1, <3>1 DEF Names
    <3>3. QED
      BY <1>6, <3>1, <3>2
  <2>2. ASSUME NEW c \in Configs \ lost, configs'[c] # None PROVE configs'[c] = givenConfigs[c]
    BY <1>4, <1>8, <2>2 DEF Inv, SettingsAreLastGiven, MovedInv
  <2>3. QED
    BY <1>3, <2>1, <2>2 DEF SettingsAreLastGiven
<1>10. MovedInv' /\ \A c \in Configs : configs[c] # None => configs'[c] # None
  BY <1>3, <1>4, <1>8 DEF Inv, MovedInv
<1>11. ASSUME NEW b \in Threads
       PROVE  /\ run'[b] \in Runs /\ Keeps(b) /\ Alive(run'[b])
              /\ run[b].pc \in Refreshing \cup {"merge"} /\ run[b].config \in moved =>
                    run'[b].touched
  <2> DEFINE t == run[b].touched \/ (run[b].pc \in Refreshing \cup {"merge"} /\ run[b].config \in moved)
  <2>1. run'[b] = [run[b] EXCEPT !.touched = t] /\ t \in BOOLEAN
    BY <1>2, RunFields, Typed
  <2>2. /\ run[b].touched => t
        /\ run[b].pc \in Refreshing \cup {"merge"} /\ run[b].config \in moved => t
    OBVIOUS
  <2>3. run[b] \in Runs /\ Alive(run[b])
    BY RunFields, Typed DEF Inv, RunInv, Knows
  <2> HIDE DEF t
  <2>4. /\ run'[b] \in Runs /\ run'[b].pc = run[b].pc /\ run'[b].config = run[b].config
        /\ run'[b].key = run[b].key /\ run'[b].values = run[b].values
        /\ run'[b].named = run[b].named /\ run'[b].left = run[b].left
        /\ run'[b].recorded = run[b].recorded /\ run'[b].doubtful = run[b].doubtful
        /\ run'[b].touched = t
    BY <2>1, <2>3 DEF Runs
  <2>5. QED
    BY <2>2, <2>3, <2>4 DEF Keeps, Alive
<1>12. ASSUME NEW b \in Threads PROVE Knows(run[b])'
  <2>1. Knows(run[b]) /\ TypeOK
    BY Typed DEF Inv, RunInv
  <2>2. ASSUME run[b].pc \in Refreshing, ~run'[b].touched, NEW c \in Configs, run[b].config = c
        PROVE  rows'[Source(c)'].key = rows[Source(c)].key
    <3>1. c \notin moved /\ ~run[b].touched /\ run[b].key # None
      BY <1>11, <2>1, <2>2, RunFields DEF Keeps, RunTyped
    <3>2. rows[Source(c)].key # None
      BY <2>1, <2>2, <3>1 DEF Knows
    <3>3. Source(c)' = Source(c) /\ Source(c) \in Names /\ Source(c) \notin new
      BY <1>5, <1>8, <3>1, <3>2, SourceTyped, Typed DEF Source
    <3>4. QED
      BY <1>6, <3>3
  <2>3. Unmerged(b)
    BY <1>3, <1>8, <1>11, <2>1, RunFields DEF Unmerged, RunTyped
  <2>4. QED
    BY <1>3, <1>10, <1>11, <2>1, <2>2, <2>3, KnowsStays
<1>13. TypeOK'
  <2>1. run' \in [Threads -> Runs] /\ \A b \in Threads : RunTyped(run'[b])
    BY <1>2, <1>11, RunFields, Typed DEF RunTyped, Keeps
  <2>2. mixed' \subseteq Names
    BY <1>1, <1>6, Typed DEF Names
  <2>3. QED
    BY <1>3, <1>6, <1>8, <2>1, <2>2, Typed DEF TypeOK, RunTyped, Names
<1>14. QED
  BY <1>7, <1>9, <1>10, <1>12, <1>13 DEF Inv, RunInv

-----------------------------------------------------------------------------

LEMMA InvInit == Init => Inv
<1> SUFFICES ASSUME Init PROVE Inv
  OBVIOUS
<1>1. PICK keys \in [Configs -> Keys] :
         rows = [r \in Names |-> IF r \in InOldTable THEN [NoRow EXCEPT !.key = keys[r]] ELSE NoRow]
  BY DEF Init, Names
<1>2. \A x \in Names : rows[x] \in Rows /\ Alive(rows[x]) /\ rows[x].token = None
  BY <1>1, NoRowTyped DEF InOldTable
<1>3. /\ \A a \in Threads : run[a] = Idle
      /\ \A c \in Configs : configs[c] = None /\ givenConfigs[c] = olds[c]
      /\ \A x \in Apps : givenKeys[x] = None
  BY DEF Init
<1>4. TypeOK
  <2>1. rows \in [Names -> Rows] /\ run \in [Threads -> Runs] /\ \A b \in Threads : RunTyped(run[b])
    BY <1>1, <1>2, <1>3, IdleTyped DEF Init
  <2>2. QED
    BY <2>1, ChangesAreBounded DEF Init, TypeOK, RunTyped, Names
<1>5. RowInv
  BY <1>2 DEF RowInv
<1>6. SettingsAreLastGiven /\ MovedInv
  BY <1>3 DEF SettingsAreLastGiven, MovedInv
<1>7. RunInv
  BY <1>3, IdleKnows DEF RunInv
<1>8. QED
  BY <1>4, <1>5, <1>6, <1>7 DEF Inv

LEMMA InvNext == Inv /\ [Next]_vars => Inv'
<1> SUFFICES ASSUME Inv, [Next]_vars PROVE Inv'
  OBVIOUS
<1>1. ASSUME NEW a \in Threads, Step(a) PROVE Inv'
  BY <1>1, RefreshStep, ReceiveStep, SaveStep, StopStep, BeginUpsertStep, BeginScriptStep,
     WriteAppStep, WriteConfigStep, MirrorStep, WriteOldStep DEF Step
<1>2. CASE UNCHANGED vars
  BY <1>2 DEF Inv, TypeOK, RowInv, SettingsAreLastGiven, MovedInv, RunInv, Knows, Source, Alive, vars
<1>3. QED
  BY <1>1, <1>2, TickStep, MigrateStep DEF Next

\* Rows, configurations and requests have their types, for any lifetimes and any
\* number of apps, threads and changes.
THEOREM TypeCorrect == Spec => []TypeOK
<1>1. Inv => TypeOK
  BY DEF Inv
<1>2. QED
  BY InvInit, InvNext, <1>1, PTL DEF Spec

\* A cached token that readers use is still good, for any lifetimes and any default,
\* unless its answer named none and has less, or took more than four minutes.
THEOREM TokensLive == Spec => []CachedIsAlive
<1>1. Inv => CachedIsAlive
  <2> SUFFICES ASSUME Inv, NEW r \in DOMAIN rows, Usable(rows[r]), ~rows[r].doubtful
               PROVE  rows[r].left > 0
    BY DEF CachedIsAlive
  <2>1. r \in Names /\ rows[r] \in Rows /\ Alive(rows[r])
    BY Typed DEF Inv, RowInv
  <2>2. QED
    BY <2>1 DEF Usable, Alive, Margin, Rows, Minutes
<1>2. QED
  BY InvInit, InvNext, <1>1, PTL DEF Spec

\* It is of the credentials of its row, but for rows changed during its refresh.
THEOREM TokensAreOwn == Spec => []CachedIsOwn
<1>1. Inv => CachedIsOwn
  <2>1. Inv => DOMAIN rows = Names
    BY Typed
  <2>2. QED
    BY <2>1 DEF Inv, RowInv, CachedIsOwn
<1>2. QED
  BY InvInit, InvNext, <1>1, PTL DEF Spec

\* Credentials and configurations are those given last, but for configurations some of
\* whose settings an upsert gave while another wrote them, or that the migration had
\* not copied.
THEOREM SettingsHold == Spec => []SettingsAreLastGiven
<1>1. Inv => SettingsAreLastGiven
  BY DEF Inv
<1>2. QED
  BY InvInit, InvNext, <1>1, PTL DEF Spec
=============================================================================
