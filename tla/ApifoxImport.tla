---------------------------- MODULE ApifoxImport ----------------------------
(* How a successful build of one pipeline reaches an Apifox project:         *)
(* maybe_import_from_flow_event of app/apifox.py, the discovery of           *)
(* app/yunxiao_flow.py, the tables of app/db.py they read, and the scripts   *)
(* that write these.                                                         *)
(*                                                                           *)
(* A callback looks for the project in the mapping of its pipeline, in its   *)
(* payload, in Yunxiao's description of the pipeline and in the name of its  *)
(* repository; each lookup is a connection of its own, and one that fails is *)
(* answered like one that finds nothing.  A project's row is rewritten       *)
(* whole, so that its version stands for its Apifox project, its OpenAPI     *)
(* address and its delay.  The payload is truthful, and does not give        *)
(* APIFOX_PROJECT_ID itself; APIFOX_AUTO_IMPORT and APIFOX_STRIP_PROJECT_PATH *)
(* are on.                                                                   *)
EXTENDS Naturals, FiniteSets

CONSTANTS
    Callbacks,     \* callbacks in progress
    Projects,      \* names in adapter_apifox_project_config
    Service,       \* the project the pipeline builds
    InEnvironment, \* whether APIFOX_PROJECT_<KEY>_ID is set for it
    MaxVersion,    \* bound: times the row of a project is written
    Payload,       \* the address a payload gives
    None           \* NULL

ASSUME ServiceIsAProject == Service \in Projects
ASSUME EnvironmentIsKnown == InEnvironment \in BOOLEAN
ASSUME VersionsAreCounted == MaxVersion \in Nat
ASSUME NoneIsNoProject == None \notin Projects
ASSUME PayloadIsNoVersion == Payload \notin Nat

VARIABLES
    given,  \* per project: the version of its row, 0 when there is none
    text,   \* the projects that Yunxiao's description of the pipeline mentions
    mapped, \* the row of adapter_apifox_pipeline_config
    runs,   \* what each callback is doing
    filled  \* projects whose Apifox project has been imported into

vars == <<given, text, mapped, runs, filled>>

\* An upstream address: a row's, the template's (0), or the payload's.
Sources == Nat \cup {Payload}

\* history: who wrote it, and whether the service had no row when it was discovered
Mappings == [to : Projects \cup {None}, by : {"nobody", "operator", "discovery"},
             early : BOOLEAN]

\* The version whose Apifox project is imported into, what the preflight looks at,
\* what Apifox is given, and (history) whether the row changed or was not read.
Imports == [target : Nat, checked : Sources, document : Sources, excused : BOOLEAN]

Pcs == {"idle", "mapping", "list", "ask", "upsert", "again", "byId", "byName",
        "preflight", "fetch", "answer"}

\* named, repo: whether payload and repository name the project; url: whether the
\* payload gives an address.  blind (history): its lookup of the mapping failed, or
\* the operator has written the mapping since.
Runs == [pc : Pcs, named : BOOLEAN, repo : BOOLEAN, url : BOOLEAN, blind : BOOLEAN,
         project : Projects \cup {None}, listed : SUBSET Projects, import : Imports]

Nothing == [target |-> 0, checked |-> 0, document |-> 0, excused |-> FALSE]
Idle == [pc |-> "idle", named |-> FALSE, repo |-> FALSE, url |-> FALSE, blind |-> FALSE,
         project |-> None, listed |-> {}, import |-> Nothing]

At(c, pc) == runs[c].pc = pc
End(c) == runs' = [runs EXCEPT ![c] = Idle]

Reading(run, pc, project) ==
    [pc |-> pc, named |-> run.named, repo |-> run.repo, url |-> run.url, blind |-> FALSE,
     project |-> project, listed |-> {}, import |-> Nothing]

\* Mutation: a project that nothing names is looked up all the same.
NamedAnyway(c, run) ==
    runs' = [runs EXCEPT ![c] = Reading(run, "byName", IF run.named \/ run.repo THEN Service ELSE None)]

\* Without a mapping the project is the payload's, or else the repository's.
Named(c, run) ==
    IF run.named \/ run.repo
    THEN runs' = [runs EXCEPT ![c] = Reading(run, "byName", Service)]
    ELSE End(c)

Follow(c, pc, project) == runs' = [runs EXCEPT ![c] = Reading(@, pc, project)]

-----------------------------------------------------------------------------
(* Finding the project. *)

\* A payload without a pipeline is not looked up.
Begin(c) ==
    /\ At(c, "idle")
    /\ \E named, repo, url \in BOOLEAN :
          LET run == Reading([named |-> named, repo |-> repo, url |-> url], "mapping", None) IN
          runs' = [runs EXCEPT ![c] = run] \/ Named(c, run)
    /\ UNCHANGED <<given, text, mapped, filled>>

\* Mutation: the description of the pipeline is preferred to its mapping.
ReadMappingLast(c) ==
    /\ At(c, "mapping")
    /\ IF runs[c].named THEN Named(c, runs[c]) ELSE Follow(c, "list", None)
    /\ UNCHANGED <<given, text, mapped, filled>>

\* A lookup that fails ends like one that finds no row.
ReadMapping(c) ==
    /\ At(c, "mapping")
    /\ \/ mapped.to # None /\ Follow(c, "byId", mapped.to)
       \/ \E failed \in BOOLEAN :
             /\ failed \/ mapped.to = None
             /\ IF runs[c].named THEN Named(c, runs[c])
                ELSE runs' = [runs EXCEPT ![c].pc = "list", ![c].blind = failed]
    /\ UNCHANGED <<given, text, mapped, filled>>

\* Mutation: all rows are taken for candidates, without a look at the text.
MatchesAll(listed) == listed

\* A pipeline matches when its description mentions exactly one of the projects.
Matches(listed) == listed \cap text

ListProjects(c) ==
    /\ At(c, "list")
    /\ \/ runs' = [runs EXCEPT ![c].pc = "ask", ![c].listed = {p \in Projects : given[p] > 0}]
       \/ Named(c, runs[c])
    /\ UNCHANGED <<given, text, mapped, filled>>

\* GetPipeline with the account of one Yunxiao project after the other, until one
\* is answered with a description that matches.  Left out: a read that times out, which
\* ends the callback.
AskYunxiao(c) ==
    /\ At(c, "ask")
    /\ \/ \E p \in Matches(runs[c].listed) :
             /\ Matches(runs[c].listed) = {p}
             /\ runs' = [runs EXCEPT ![c].pc = "upsert", ![c].project = p]
       \/ Named(c, runs[c])
    /\ UNCHANGED <<given, text, mapped, filled>>

\* upsert_apifox_pipeline_config writes over what is there; its failure is not
\* caught and ends the callback.
WriteMapping(c) ==
    /\ At(c, "upsert")
    /\ \/ /\ mapped' = [to |-> runs[c].project, by |-> "discovery",
                        early |-> Service \notin runs[c].listed]
          /\ Follow(c, "again", runs[c].project)
       \/ End(c) /\ UNCHANGED mapped
    /\ UNCHANGED <<given, text, filled>>

\* Read again, and taken from the discovery when that finds nothing.
ReadAgain(c) ==
    /\ At(c, "again")
    /\ \E p \in {mapped.to, runs[c].project} \ {None} : Follow(c, "byId", p)
    /\ UNCHANGED <<given, text, mapped, filled>>

-----------------------------------------------------------------------------
(* The rest of the configuration. *)

Upstream(c, version) == IF runs[c].url THEN Payload ELSE version

\* The import goes ahead when there is also an access token, of an enabled account
\* or of the environment.
Resolve(c, project, version) ==
    \/ runs' = [runs EXCEPT ![c] =
          [pc |-> "preflight", named |-> FALSE, repo |-> FALSE, url |-> runs[c].url, blind |-> FALSE,
           project |-> project, listed |-> {},
           import |-> [target |-> version, checked |-> Upstream(c, version), document |-> 0,
                       excused |-> version # given[project]]]]
    \/ End(c)

ReadProjectById(c) ==
    /\ At(c, "byId")
    /\ \/ /\ given[runs[c].project] > 0
          /\ Resolve(c, runs[c].project, given[runs[c].project])
       \/ Named(c, runs[c])
    /\ UNCHANGED <<given, text, mapped, filled>>

\* Without a row the id is the environment's and the address the template's.
ReadProjectByName(c) ==
    /\ At(c, "byName")
    /\ \/ given[Service] > 0 /\ Resolve(c, Service, given[Service])
       \/ IF InEnvironment THEN Resolve(c, Service, 0) ELSE End(c)
    /\ UNCHANGED <<given, text, mapped, filled>>

-----------------------------------------------------------------------------
(* The import. *)

\* After the delay the upstream is fetched once to see that it has an OpenAPI
\* document with paths.
Preflight(c) ==
    /\ At(c, "preflight")
    /\ \/ runs' = [runs EXCEPT ![c].pc = "fetch"]
       \/ End(c)
    /\ UNCHANGED <<given, text, mapped, filled>>

\* Mutation: the document is that of the row whatever the payload says.
ServedRow(c, read) == read

Served(c, read) == Upstream(c, read)

Fetched(c, read) ==
    LET document == Served(c, read) IN
    [runs[c].import EXCEPT !.document = document,
                           !.excused = @ \/ document # Served(c, given[runs[c].project])]

\* Apifox fetches the document from GET /adapter/openapi/{project_name}, which looks
\* the address up again, unless that is signed in the request.  When no document can
\* be served Apifox reports a failure.
Fetch(c) ==
    /\ At(c, "fetch")
    /\ \/ \E read \in {given[runs[c].project], 0} :
             runs' = [runs EXCEPT ![c].pc = "answer", ![c].import = Fetched(c, read)]
       \/ End(c)
    /\ UNCHANGED <<given, text, mapped, filled>>

\* Apifox has overwritten the endpoints, whether its answer arrives or not.
ImportOpenapi(c) ==
    /\ At(c, "answer")
    /\ filled' \in {filled, filled \cup {runs[c].project}}
    /\ End(c)
    /\ UNCHANGED <<given, text, mapped>>

-----------------------------------------------------------------------------
(* The scripts of the operator. *)

\* upsert_apifox_project_config.py
WriteProject(p) ==
    /\ given[p] < MaxVersion
    /\ given' = [given EXCEPT ![p] = @ + 1]
    /\ runs' = [c \in Callbacks |->
                  IF runs[c].project = p /\ runs[c].pc \in {"preflight", "fetch"}
                  THEN [runs[c] EXCEPT !.import.excused = TRUE] ELSE runs[c]]
    /\ UNCHANGED <<text, mapped, filled>>

\* upsert_apifox_pipeline_config.py insists on the row of the project.
MapPipeline ==
    /\ given[Service] > 0
    /\ mapped' = [to |-> Service, by |-> "operator", early |-> FALSE]
    /\ runs' = [c \in Callbacks |->
                  IF runs[c].pc \in {"list", "ask", "upsert"}
                  THEN [runs[c] EXCEPT !.blind = TRUE] ELSE runs[c]]
    /\ UNCHANGED <<given, text, filled>>

-----------------------------------------------------------------------------

Init == /\ given = [p \in Projects |-> 0]
        /\ text \in SUBSET Projects
        /\ mapped = [to |-> None, by |-> "nobody", early |-> FALSE]
        /\ runs = [c \in Callbacks |-> Idle]
        /\ filled = {}

Step(c) == \/ Begin(c)
           \/ ReadMapping(c)
           \/ ListProjects(c)
           \/ AskYunxiao(c)
           \/ WriteMapping(c)
           \/ ReadAgain(c)
           \/ ReadProjectById(c)
           \/ ReadProjectByName(c)
           \/ Preflight(c)
           \/ Fetch(c)
           \/ ImportOpenapi(c)

Next == \/ \E c \in Callbacks : Step(c)
        \/ \E p \in Projects : WriteProject(p)
        \/ MapPipeline

Spec == Init /\ [][Next]_vars

-----------------------------------------------------------------------------
(* Properties. *)

Finding == {"list", "ask", "upsert"}
Importing == {"preflight", "fetch", "answer"}

\* Rows, callbacks and Apifox projects keep their types, and every step that reads a
\* project has one.
TypeOK == /\ given \in [Projects -> Nat]
          /\ text \subseteq Projects
          /\ mapped \in Mappings
          /\ runs \in [Callbacks -> Runs]
          /\ \A c \in Callbacks : runs[c].pc \in {"upsert", "again", "byId", "byName"} \cup Importing =>
                runs[c].project # None
          /\ filled \subseteq Projects

\* The documents of the service go to its own Apifox project, whatever lookups fail
\* and whoever else writes the tables; to another's only if the description of the
\* pipeline mentions that project, and if the service's own was not mentioned or had
\* no row when the mapping was discovered.
StraysAreMentioned ==
    /\ filled \subseteq text \cup {Service}
    /\ mapped.to \notin {None, Service} =>
          mapped.to \in text /\ (Service \notin text \/ mapped.early)

\* A mapping that the operator wrote is only overwritten by a discovery that began
\* before it was written, or whose lookup failed: every discovery under way when such
\* a mapping is in place is one of these.
OnlyBlindOverrule ==
    mapped.by = "operator" =>
        \A c \in Callbacks : runs[c].pc \in Finding => runs[c].blind

\* What Apifox was given was looked at by the preflight, for the Apifox project
\* configured with it, unless the row was rewritten during the import or one of its two
\* readings failed.
CheckedIsImported ==
    \A c \in Callbacks :
        LET i == runs[c].import IN
        At(c, "answer") /\ ~i.excused => /\ i.document = i.checked
                                         /\ i.checked \in {i.target, Payload}
=============================================================================
