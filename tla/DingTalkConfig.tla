--------------------------- MODULE DingTalkConfig ---------------------------
(* The DingTalk configurations and the access tokens cached with them:       *)
(* _get_access_token of app/dingtalk_docs.py, the rows and upserts of        *)
(* app/db.py, scripts/upsert_dingtalk_config.py and the migration of the     *)
(* table that held both before.                                              *)
(*                                                                           *)
(* A configuration names an app; the app holds the credentials and, for      *)
(* every configuration that names it, one token.  A configuration of the old *)
(* table holds all of that itself.  Readers refresh a token while operators  *)
(* change credentials and configurations; every statement is a step.  Time   *)
(* is counted in minutes, expiries by what is left of them, and no two       *)
(* answers bring the same token with an expiry in the same second.           *)
EXTENDS Integers, FiniteSets

CONSTANTS
    Apps, Configs, \* names
    DefaultApp,    \* DINGTALK_APP_NAME
    Keys,          \* credentials of apps
    Operators,     \* operatorId and the templates of a configuration
    Threads,       \* requests and scripts in progress
    Lives,         \* lifetimes DingTalk may give a token, in minutes
    Default,       \* the lifetime of a token whose answer names none (7200 seconds)
    MaxChanges,    \* bound: upserts of an operator
    None           \* NULL

ASSUME DefaultIsAnApp == DefaultApp \in Apps
ASSUME LivesAreMinutes == Lives \subseteq Nat /\ Default \in Nat
ASSUME ChangesAreBounded == MaxChanges \in Nat
ASSUME NothingIsNone == None \notin Apps \cup Configs \cup Keys \cup Operators
ASSUME NamesDiffer == Apps \cap Configs = {}

Reserve == 2 \* what is taken off a lifetime when it is recorded
Least == 1   \* but this much is recorded
Margin == 2  \* a token with no more left is not used
Late == Reserve + Margin + 1 \* answers under way for longer are not told apart

VARIABLES
    rows,    \* adapter_dingtalk_app, and by configuration adapter_dingtalk_app_config
    configs, \* adapter_dingtalk_doc_config
    olds,    \* the other columns of adapter_dingtalk_app_config
    run,     \* what each thread is doing
    changes, \* upserts so far
    \* history
    givenKeys,    \* per app: the credentials given last
    givenConfigs, \* per configuration: the values given last
    lost,         \* configurations a partial upsert may have taken settings from
    mixed         \* rows whose token was refreshed while they or their configuration changed

given == <<givenKeys, givenConfigs, lost>>
vars == <<rows, configs, olds, run, changes, givenKeys, givenConfigs, lost, mixed>>

Minutes == Nat

\* token: the credentials it was issued for; recorded: what token_expires_at says is
\* left; left: how long the token is good, as far as it is used, unless that is
\* doubtful (both history)
Rows == [key : Keys \cup {None}, token : Keys \cup {None}, recorded : Minutes,
         left : Minutes, doubtful : BOOLEAN]
NoRow == [key |-> None, token |-> None, recorded |-> 0, left |-> 0, doubtful |-> FALSE]
Values == [app : Apps, op : Operators \cup {None}]
Both == {"app", "op"}

ASSUME NoValuesAreNone == None \notin Values

Pcs == {"idle", "wait", "save", "merge", "mirror", "app", "doc", "old"}
Runs == [pc : Pcs, config : Configs \cup {None},
         key : Keys \cup {None},                    \* the credentials loaded, or given
         recorded : Minutes, left : Minutes, doubtful : BOOLEAN,
         values : Values \cup {None},               \* to be written,
         named : SUBSET Both,                       \* and which of them were asked for
         touched : BOOLEAN]                         \* history: its rows changed meanwhile

Idle == [pc |-> "idle", config |-> None, key |-> None,
         recorded |-> 0, left |-> 0, doubtful |-> FALSE, values |-> None, named |-> {},
         touched |-> FALSE]

\* The row a configuration gets its credentials and its token from.
Source(c) == IF configs[c] # None THEN configs[c].app ELSE c

Usable(row) == row.token # None /\ row.recorded > Margin

\* Thread a goes on with r; others at pcs find the rows of the configurations cs
\* changed.
GoTouching(a, r, cs, pcs) ==
    run' = [b \in Threads |->
              IF b = a THEN r
              ELSE [run[b] EXCEPT !.touched = @ \/ (run[b].pc \in pcs /\ run[b].config \in cs)]]

Refreshing == {"wait", "save"}

-----------------------------------------------------------------------------
(* Readers. *)

\* Mutation: credentials that are not there are not noticed.
RefreshIncomplete(a) ==
    /\ run[a].pc = "idle"
    /\ \E c \in Configs :
          LET row == rows[Source(c)] IN
          /\ ~Usable(row)
          /\ run' = [run EXCEPT ![a] = [Idle EXCEPT !.pc = "wait", !.config = c, !.key = row.key]]
    /\ UNCHANGED <<rows, configs, olds, changes, given, mixed>>

\* Without a usable token, one is requested for the credentials that were loaded.
Refresh(a) ==
    /\ run[a].pc = "idle"
    /\ \E c \in Configs :
          LET row == rows[Source(c)] IN
          /\ row.key # None /\ ~Usable(row)
          /\ run' = [run EXCEPT ![a] = [Idle EXCEPT !.pc = "wait", !.config = c, !.key = row.key]]
    /\ UNCHANGED <<rows, configs, olds, changes, given, mixed>>

\* What is known of a token: nothing of one that is not used again; and whether it is
\* good for as long as it is used is all that left says.
Time(recorded, left, doubtful) ==
    LET used == recorded > Margin
        good == IF left < recorded - Margin THEN left ELSE recorded - Margin
    IN  [recorded |-> IF used THEN recorded ELSE 0,
         left |-> IF used /\ ~doubtful /\ good > 0 THEN good ELSE 0,
         doubtful |-> used /\ doubtful]

Timed(t, time) ==
    [t EXCEPT !.recorded = time.recorded, !.left = time.left, !.doubtful = time.doubtful]

\* Mutation: the whole lifetime is recorded, though it began before the answer.
RecordedWhole(counted) == counted

\* What is recorded of a lifetime, from the arrival of the answer.
Recorded(counted) == IF counted >= Reserve + Least THEN counted - Reserve ELSE Least

\* DingTalk made the token ago minutes before its answer arrives, which may name the
\* lifetime; none and 0 are taken for the default.  It is not known how long the token
\* is good when the default is longer than its life, or the answer was under way for
\* too long: urllib's time-out is for each read, and bounds no answer.
Answer(life, ago, named) ==
    LET counted == IF named /\ life > 0 THEN life ELSE Default
    IN  Time(Recorded(counted), life - ago, counted > life \/ ago >= Late)

Answers == {Answer(life, ago, named) : life \in Lives, ago \in 0 .. Late, named \in BOOLEAN}

Receive(a) ==
    /\ run[a].pc = "wait"
    /\ \E time \in Answers : run' = [run EXCEPT ![a] = [Timed(@, time) EXCEPT !.pc = "save"]]
    /\ UNCHANGED <<rows, configs, olds, changes, given, mixed>>

\* update_dingtalk_token_cache: the app the configuration names by now, or its row
\* in the old table.
Save(a) ==
    LET r == run[a]
        row == Source(r.config)
    IN  /\ r.pc = "save"
        /\ rows' = [rows EXCEPT ![row] = [@ EXCEPT !.token = r.key, !.recorded = r.recorded,
                                            !.left = r.left, !.doubtful = r.doubtful]]
        /\ mixed' = IF r.touched THEN mixed \cup {row} ELSE mixed \ {row}
        /\ run' = [run EXCEPT ![a] = Idle]
        /\ UNCHANGED <<configs, olds, changes, given>>

\* An error or the end of the process; a failed update of the cache is ignored.
Stop(a) ==
    /\ run[a].pc # "idle"
    /\ run' = [run EXCEPT ![a] = Idle]
    /\ UNCHANGED <<rows, configs, olds, changes, given, mixed>>

Later(t) == Timed(t, Time(t.recorded - 1, t.left - 1, t.doubtful))

\* A minute passes.
Tick ==
    /\ rows' = [r \in Apps \cup Configs |-> Later(rows[r])]
    /\ run' = [a \in Threads |-> Later(run[a])]
    /\ UNCHANGED <<configs, olds, changes, given, mixed>>

-----------------------------------------------------------------------------
(* Operators. *)

\* What an upsert starts from: the row, or defaults, also while the configuration
\* is only in the old table.
Current(c) == IF configs[c] = None THEN [app |-> DefaultApp, op |-> None] ELSE configs[c]

\* upsert_dingtalk_doc_config: the columns that are not given keep the values that
\* are read here; the app must exist.
BeginUpsert(a) ==
    /\ run[a].pc = "idle" /\ changes < MaxChanges
    /\ \E c \in Configs, app \in Apps, op \in Operators, named \in (SUBSET Both) \ {{}} :
          LET new == [app |-> IF "app" \in named THEN app ELSE Current(c).app,
                      op |-> IF "op" \in named THEN op ELSE Current(c).op]
          IN  /\ rows[new.app].key # None
              /\ run' = [run EXCEPT ![a] = [Idle EXCEPT !.pc = "merge", !.config = c,
                                              !.values = new, !.named = named]]
    /\ changes' = changes + 1
    /\ UNCHANGED <<rows, configs, olds, given, mixed>>

\* The script writes the app, the configuration and the row of the old table.
BeginScript(a) ==
    /\ run[a].pc = "idle" /\ changes < MaxChanges
    /\ \E c \in Configs, v \in Values, k \in Keys :
          run' = [run EXCEPT ![a] = [Idle EXCEPT !.pc = "app", !.config = c, !.key = k,
                                       !.values = v, !.named = Both]]
    /\ changes' = changes + 1
    /\ UNCHANGED <<rows, configs, olds, given, mixed>>

\* Mutation: the credentials are assigned first, and then found unchanged.
WriteAppKeepingToken(a) ==
    LET r == run[a]
        x == r.values.app
    IN  /\ r.pc = "app"
        /\ rows' = [rows EXCEPT ![x].key = r.key]
        /\ UNCHANGED mixed
        /\ givenKeys' = [givenKeys EXCEPT ![x] = r.key]
        /\ GoTouching(a, [r EXCEPT !.pc = "doc"],
                      {c \in Configs : Source(c) = x}, Refreshing)
        /\ UNCHANGED <<configs, olds, changes, givenConfigs, lost>>

\* The token goes with the credentials it was issued for.
WriteApp(a) ==
    LET r == run[a]
        x == r.values.app
        same == rows[x].key = r.key
    IN  /\ r.pc = "app"
        /\ rows' = [rows EXCEPT ![x] = IF same THEN @ ELSE [NoRow EXCEPT !.key = r.key]]
        /\ mixed' = IF same THEN mixed ELSE mixed \ {x}
        /\ givenKeys' = [givenKeys EXCEPT ![x] = r.key]
        /\ GoTouching(a, [r EXCEPT !.pc = "doc"],
                      {c \in Configs : Source(c) = x}, Refreshing)
        /\ UNCHANGED <<configs, olds, changes, givenConfigs, lost>>

\* An upsert writes all columns: back what it read and another changed since, or its
\* defaults where the configuration is only in the old table.
WriteConfig(a) ==
    LET r == run[a]
        c == r.config
    IN  /\ r.pc \in {"merge", "doc"}
        /\ configs' = [configs EXCEPT ![c] = r.values]
        /\ givenConfigs' = [givenConfigs EXCEPT ![c] =
              IF @ = None THEN r.values
              ELSE [app |-> IF "app" \in r.named THEN r.values.app ELSE @.app,
                    op |-> IF "op" \in r.named THEN r.values.op ELSE @.op]]
        /\ lost' = IF r.named = Both THEN lost \ {c}
                   ELSE IF r.touched \/ (configs[c] = None /\ olds[c] # None) THEN lost \cup {c}
                   ELSE lost
        /\ GoTouching(a, [r EXCEPT !.pc = IF @ = "merge" THEN "mirror" ELSE "old",
                               !.named = {}, !.touched = FALSE],
                      {c}, Refreshing \cup {"merge"})
        /\ UNCHANGED <<rows, olds, changes, givenKeys, mixed>>

\* An upsert copies what it wrote into the old table, if that has the configuration.
\* Where the old table has its app, the remark is written: the app, or any text.
Mirror(a) ==
    LET r == run[a] IN
    /\ r.pc = "mirror"
    /\ IF olds[r.config] = None THEN UNCHANGED olds
       ELSE \E remark \in Apps :
              olds' = [olds EXCEPT ![r.config] = [r.values EXCEPT !.app = remark]]
    /\ run' = [run EXCEPT ![a] = Idle]
    /\ UNCHANGED <<rows, configs, changes, given, mixed>>

WriteOld(a) ==
    LET r == run[a]
        c == r.config
    IN  /\ r.pc = "old"
        /\ rows' = [rows EXCEPT ![c] = [NoRow EXCEPT !.key = r.key]]
        /\ olds' = [olds EXCEPT ![c] = r.values]
        /\ mixed' = mixed \ {c}
        /\ GoTouching(a, Idle, {c}, Refreshing)
        /\ UNCHANGED <<configs, changes, given>>

-----------------------------------------------------------------------------
(* The migration, on the first access of every process. *)

InOldTable == {c \in Configs : olds[c] # None}
Missing(x) == rows[x].key = None /\ \E c \in InOldTable : olds[c].app = x

\* Mutation: a row that exists takes the values of the old table.
MigrateOverwriting ==
    /\ \E from \in [Apps -> Configs] :
          LET found == {x \in Apps : \E c \in InOldTable : olds[c].app = x} IN
          /\ \A x \in found : from[x] \in InOldTable /\ olds[from[x]].app = x
          /\ rows' = [r \in Apps \cup Configs |-> IF r \in found THEN rows[from[r]] ELSE rows[r]]
          /\ mixed' = (mixed \ found) \cup {x \in found : from[x] \in mixed}
    /\ configs' = [c \in Configs |-> IF c \in InOldTable THEN olds[c] ELSE configs[c]]
    /\ run' = [a \in Threads |-> [run[a] EXCEPT !.touched = @ \/ run[a].config \in InOldTable]]
    /\ UNCHANGED <<olds, changes, given>>

\* _migrate_dingtalk_app_config: apps and configurations that are only in the old
\* table are copied, an app from one of the configurations of its name; it may fail
\* half way.
Migrate ==
    /\ \E from \in [Apps -> Configs] :
          LET new == {x \in Apps : Missing(x)} IN
          /\ \A x \in new : from[x] \in InOldTable /\ olds[from[x]].app = x
          /\ rows' = [r \in Apps \cup Configs |-> IF r \in new THEN rows[from[r]] ELSE rows[r]]
          /\ mixed' = mixed \cup {x \in new : from[x] \in mixed}
    /\ \E moved \in {{}, {c \in InOldTable : configs[c] = None}} :
          /\ configs' = [c \in Configs |-> IF c \in moved THEN olds[c] ELSE configs[c]]
          /\ run' = [a \in Threads |->
                       [run[a] EXCEPT !.touched = @ \/ (run[a].pc \in Refreshing \cup {"merge"}
                                                        /\ run[a].config \in moved)]]
    /\ UNCHANGED <<olds, changes, given>>

-----------------------------------------------------------------------------

\* An installation whose configurations are still in the old table, or a new one.
Init ==
    /\ olds \in [Configs -> Values \cup {None}]
    /\ \E keys \in [Configs -> Keys] :
          rows = [r \in Apps \cup Configs |->
                    IF r \in InOldTable THEN [NoRow EXCEPT !.key = keys[r]] ELSE NoRow]
    /\ configs = [c \in Configs |-> None]
    /\ run = [a \in Threads |-> Idle]
    /\ changes = 0
    /\ givenKeys = [x \in Apps |-> None]
    /\ givenConfigs = olds
    /\ lost = {} /\ mixed = {}

Step(a) ==
    \/ Refresh(a) \/ Receive(a) \/ Save(a) \/ Stop(a)
    \/ BeginUpsert(a) \/ BeginScript(a) \/ WriteApp(a) \/ WriteConfig(a)
    \/ Mirror(a) \/ WriteOld(a)

Next == (\E a \in Threads : Step(a)) \/ Tick \/ Migrate

Spec == Init /\ [][Next]_vars

-----------------------------------------------------------------------------
(* Properties. *)

TypeOK ==
    /\ rows \in [Apps \cup Configs -> Rows]
    /\ configs \in [Configs -> Values \cup {None}] /\ olds \in [Configs -> Values \cup {None}]
    /\ run \in [Threads -> Runs]
    /\ changes \in 0 .. MaxChanges
    /\ givenKeys \in [Apps -> Keys \cup {None}] /\ givenConfigs \in [Configs -> Values \cup {None}]
    /\ lost \subseteq Configs /\ mixed \subseteq Apps \cup Configs
    /\ \A a \in Threads :
          LET r == run[a] IN
          /\ r.pc # "idle" => r.config \in Configs
          /\ r.pc \in Refreshing \cup {"app", "doc", "old"} => r.key # None
          /\ r.pc \in {"merge", "mirror", "app", "doc", "old"} => r.values # None

\* A token that readers take from the cache is still good, however short DingTalk
\* made its life, whatever has become of its row, unless its answer was under way for
\* more than four minutes or named no lifetime and the default is longer than it had.
CachedIsAlive ==
    \A r \in DOMAIN rows : Usable(rows[r]) /\ ~rows[r].doubtful => rows[r].left > 0

\* It was issued for the credentials it is stored with, unless the app or the
\* configuration was changed, or moved out of the old table, during its refresh.
CachedIsOwn ==
    \A r \in DOMAIN rows \ mixed : rows[r].token # None => rows[r].token = rows[r].key

\* Credentials and configurations are as they were given last, whatever of the
\* script or the migration failed and however often processes start, unless an upsert
\* of some of the settings overlapped with another upsert or the migration of the
\* configuration, or found that the migration had not copied it.  Giving all the
\* settings makes up for that.
SettingsAreLastGiven ==
    /\ \A x \in Apps : givenKeys[x] # None => rows[x].key = givenKeys[x]
    /\ \A c \in Configs \ lost : configs[c] # None => configs[c] = givenConfigs[c]
=============================================================================
