------------------------- MODULE ApifoxImportProofs -------------------------
(* Theorems about ApifoxImport, for any number of projects and callbacks.    *)
EXTENDS ApifoxImport, TLAPS

USE ServiceIsAProject, EnvironmentIsKnown, NoneIsNoProject, PayloadIsNoVersion

-----------------------------------------------------------------------------
(* Types. *)

LEMMA Put ==
  ASSUME runs \in [Callbacks -> Runs], NEW c \in Callbacks, NEW run \in Runs,
         runs' = [runs EXCEPT ![c] = run]
  PROVE  /\ runs' \in [Callbacks -> Runs] /\ runs'[c] = run
         /\ \A o \in Callbacks \ {c} : runs'[o] = runs[o]
  OBVIOUS

LEMMA IdleTyped == Idle \in Runs
  BY DEF Idle, Runs, Nothing, Imports, Sources, Pcs

\* A run that goes on to read a row is typed as soon as it has a project.
LEMMA ReadingTyped ==
  \A run \in Runs, pc \in Pcs, p \in Projects \cup {None} :
     /\ Reading(run, pc, p) \in Runs
     /\ Reading(run, pc, p).pc = pc
     /\ Reading(run, pc, p).project = p
  BY DEF Reading, Runs, Nothing, Imports, Sources

\* What a step of a callback can make of it: it ends, reads the row of a project, or
\* goes on with its search or its import.
LEMMA EndTyped ==
  ASSUME TypeOK, NEW c \in Callbacks, End(c)
  PROVE  /\ runs' \in [Callbacks -> Runs]
         /\ runs'[c] = Idle
         /\ \A o \in Callbacks \ {c} : runs'[o] = runs[o]
  <1>1. runs \in [Callbacks -> Runs]  BY DEF TypeOK
  <1> QED  BY <1>1, IdleTyped, Put DEF End

LEMMA FollowTyped ==
  ASSUME TypeOK, NEW c \in Callbacks, NEW pc \in Pcs, NEW p \in Projects, Follow(c, pc, p)
  PROVE  /\ runs' \in [Callbacks -> Runs]
         /\ runs'[c].pc = pc /\ runs'[c].project = p
         /\ \A o \in Callbacks \ {c} : runs'[o] = runs[o]
  <1>1. runs[c] \in Runs  BY DEF TypeOK
  <1>2. Reading(runs[c], pc, p) \in Runs /\ Reading(runs[c], pc, p).pc = pc
        /\ Reading(runs[c], pc, p).project = p
    BY <1>1, ReadingTyped
  <1>3. runs' = [runs EXCEPT ![c] = Reading(runs[c], pc, p)]  BY DEF Follow
  <1>4. runs \in [Callbacks -> Runs]  BY DEF TypeOK
  <1>5. /\ runs' \in [Callbacks -> Runs] /\ runs'[c] = Reading(runs[c], pc, p)
        /\ \A o \in Callbacks \ {c} : runs'[o] = runs[o]
    BY <1>2, <1>3, <1>4, Put
  <1> QED  BY <1>2, <1>5

LEMMA NamedTyped ==
  ASSUME TypeOK, NEW c \in Callbacks, NEW run \in Runs, Named(c, run)
  PROVE  /\ runs' \in [Callbacks -> Runs]
         /\ \/ runs'[c] = Idle
            \/ runs'[c].pc = "byName" /\ runs'[c].project = Service
         /\ \A o \in Callbacks \ {c} : runs'[o] = runs[o]
  <1>1. Reading(run, "byName", Service) \in Runs
        /\ Reading(run, "byName", Service).pc = "byName"
        /\ Reading(run, "byName", Service).project = Service
    BY ReadingTyped DEF Pcs
  <1>2. CASE End(c)  BY <1>2, EndTyped
  <1>3. CASE runs' = [runs EXCEPT ![c] = Reading(run, "byName", Service)]
    <2>1. runs \in [Callbacks -> Runs]  BY DEF TypeOK
    <2>2. /\ runs' \in [Callbacks -> Runs] /\ runs'[c] = Reading(run, "byName", Service)
          /\ \A o \in Callbacks \ {c} : runs'[o] = runs[o]
      BY <1>1, <1>3, <2>1, Put
    <2> QED  BY <1>1, <2>2
  <1> QED  BY <1>2, <1>3 DEF Named

-----------------------------------------------------------------------------
(* What the steps of a callback do to it, field by field: the invariants rest *)
(* on these facts and on nothing else of the steps.                           *)

\* The other callbacks stay as they are.
Others(c) == \A o \in Callbacks \ {c} : runs'[o] = runs[o]

Tables == <<given, text, mapped, filled>>

\* A callback that has not found its project yet.
Searching(run) == run.pc \in {"mapping", "list", "ask"}

LEMMA BeginStep ==
  ASSUME TypeOK, NEW c \in Callbacks, Begin(c)
  PROVE  /\ runs' \in [Callbacks -> Runs] /\ Others(c) /\ UNCHANGED Tables
         /\ \/ runs'[c] = Idle
            \/ runs'[c].pc = "byName" /\ runs'[c].project = Service
            \/ runs'[c].pc = "mapping" /\ runs'[c].project = None
  <1>1. PICK named, repo, url \in BOOLEAN :
           LET run == Reading([named |-> named, repo |-> repo, url |-> url], "mapping", None) IN
           runs' = [runs EXCEPT ![c] = run] \/ Named(c, run)
    BY DEF Begin
  <1> DEFINE run == Reading([named |-> named, repo |-> repo, url |-> url], "mapping", None)
  <1>2. run \in Runs /\ run.pc = "mapping" /\ run.project = None
    BY DEF Reading, Runs, Pcs, Nothing, Imports, Sources
  <1>3. UNCHANGED Tables  BY DEF Begin, Tables
  <1>4. runs \in [Callbacks -> Runs]  BY DEF TypeOK
  <1>6. runs' = [runs EXCEPT ![c] = run] \/ Named(c, run)  BY <1>1
  <1> HIDE DEF run
  <1>5. CASE runs' = [runs EXCEPT ![c] = run]
    BY <1>2, <1>3, <1>4, <1>5, Put DEF Others
  <1>7. CASE Named(c, run)
    BY <1>2, <1>3, <1>7, NamedTyped DEF Others
  <1> QED  BY <1>5, <1>6, <1>7

LEMMA ReadMappingStep ==
  ASSUME TypeOK, NEW c \in Callbacks, ReadMapping(c)
  PROVE  /\ runs' \in [Callbacks -> Runs] /\ Others(c) /\ UNCHANGED Tables
         /\ \/ runs'[c] = Idle
            \/ runs'[c].pc = "byName" /\ runs'[c].project = Service
            \/ mapped.to # None /\ runs'[c].pc = "byId" /\ runs'[c].project = mapped.to
            \/ /\ runs'[c].pc = "list" /\ runs'[c].project = runs[c].project
               /\ runs'[c].blind \/ mapped.to = None
  <1>1. UNCHANGED Tables /\ runs[c] \in Runs /\ mapped.to \in Projects \cup {None}
    BY DEF ReadMapping, Tables, TypeOK, Mappings
  <1>2. CASE mapped.to # None /\ Follow(c, "byId", mapped.to)
    BY <1>1, <1>2, FollowTyped DEF Others, Pcs
  <1>3. CASE \E failed \in BOOLEAN :
               /\ failed \/ mapped.to = None
               /\ IF runs[c].named THEN Named(c, runs[c])
                  ELSE runs' = [runs EXCEPT ![c].pc = "list", ![c].blind = failed]
    <2>1. PICK failed \in BOOLEAN :
               /\ failed \/ mapped.to = None
               /\ Named(c, runs[c]) \/ runs' = [runs EXCEPT ![c].pc = "list", ![c].blind = failed]
      BY <1>3
    <2>2. CASE Named(c, runs[c])  BY <1>1, <2>2, NamedTyped DEF Others
    <2>3. CASE runs' = [runs EXCEPT ![c].pc = "list", ![c].blind = failed]
      BY <1>1, <2>1, <2>3 DEF TypeOK, Runs, Others, Pcs
    <2> QED  BY <2>1, <2>2, <2>3
  <1> QED  BY <1>2, <1>3 DEF ReadMapping

LEMMA ListStep ==
  ASSUME TypeOK, NEW c \in Callbacks, ListProjects(c)
  PROVE  /\ runs' \in [Callbacks -> Runs] /\ Others(c) /\ UNCHANGED Tables
         /\ \/ runs'[c] = Idle
            \/ runs'[c].pc = "byName" /\ runs'[c].project = Service
            \/ /\ runs'[c].pc = "ask" /\ runs'[c].project = runs[c].project
               /\ runs'[c].blind = runs[c].blind
  <1>1. UNCHANGED Tables /\ runs[c] \in Runs  BY DEF ListProjects, Tables, TypeOK
  <1>2. CASE runs' = [runs EXCEPT ![c].pc = "ask", ![c].listed = {p \in Projects : given[p] > 0}]
    BY <1>1, <1>2 DEF TypeOK, Runs, Others, Pcs
  <1>3. CASE Named(c, runs[c])  BY <1>1, <1>3, NamedTyped DEF Others
  <1> QED  BY <1>2, <1>3 DEF ListProjects

LEMMA AskStep ==
  ASSUME TypeOK, NEW c \in Callbacks, AskYunxiao(c)
  PROVE  /\ runs' \in [Callbacks -> Runs] /\ Others(c) /\ UNCHANGED Tables
         /\ \/ runs'[c] = Idle
            \/ runs'[c].pc = "byName" /\ runs'[c].project = Service
            \/ /\ runs'[c].pc = "upsert" /\ runs'[c].blind = runs[c].blind
               /\ runs'[c].listed = runs[c].listed
               /\ runs[c].listed \cap text = {runs'[c].project}
  <1>1. UNCHANGED Tables /\ runs[c] \in Runs  BY DEF AskYunxiao, Tables, TypeOK
  <1>2. CASE \E p \in Matches(runs[c].listed) :
               /\ Matches(runs[c].listed) = {p}
               /\ runs' = [runs EXCEPT ![c].pc = "upsert", ![c].project = p]
    <2>1. PICK p \in Matches(runs[c].listed) :
               /\ Matches(runs[c].listed) = {p}
               /\ runs' = [runs EXCEPT ![c].pc = "upsert", ![c].project = p]
      BY <1>2
    <2>2. p \in Projects /\ runs[c].listed \cap text = {p}
      BY <2>1 DEF Matches, TypeOK
    <2> QED  BY <1>1, <2>1, <2>2 DEF TypeOK, Runs, Others, Pcs
  <1>3. CASE Named(c, runs[c])  BY <1>1, <1>3, NamedTyped DEF Others
  <1> QED  BY <1>2, <1>3 DEF AskYunxiao

LEMMA WriteStep ==
  ASSUME TypeOK, NEW c \in Callbacks, WriteMapping(c)
  PROVE  /\ runs' \in [Callbacks -> Runs] /\ Others(c) /\ UNCHANGED <<given, text, filled>>
         /\ runs[c].pc = "upsert" /\ runs[c] \in Runs /\ runs[c].project \in Projects
         /\ \/ runs'[c] = Idle /\ mapped' = mapped
            \/ /\ runs'[c].pc = "again" /\ runs'[c].project = runs[c].project
               /\ mapped' = [to |-> runs[c].project, by |-> "discovery",
                             early |-> Service \notin runs[c].listed]
  <1>1. UNCHANGED <<given, text, filled>> /\ runs[c].pc = "upsert"  BY DEF WriteMapping, At
  <1>2. runs[c] \in Runs /\ runs[c].project \in Projects
    BY <1>1 DEF TypeOK, Runs
  <1>4. CASE End(c) /\ UNCHANGED mapped
    BY <1>1, <1>2, <1>4, EndTyped DEF Others
  <1>5. CASE /\ mapped' = [to |-> runs[c].project, by |-> "discovery",
                            early |-> Service \notin runs[c].listed]
             /\ Follow(c, "again", runs[c].project)
    <2>1. "again" \in Pcs  BY DEF Pcs
    <2> QED  BY <1>1, <1>2, <1>5, <2>1, FollowTyped DEF Others
  <1> QED  BY <1>4, <1>5 DEF WriteMapping

LEMMA AgainStep ==
  ASSUME TypeOK, NEW c \in Callbacks, ReadAgain(c)
  PROVE  /\ runs' \in [Callbacks -> Runs] /\ Others(c) /\ UNCHANGED Tables
         /\ runs'[c].pc = "byId"
         /\ runs'[c].project \in {mapped.to, runs[c].project} \ {None}
  <1>1. PICK p \in {mapped.to, runs[c].project} \ {None} : Follow(c, "byId", p)
    BY DEF ReadAgain
  <1>2. p \in Projects  BY <1>1 DEF TypeOK, Mappings, Runs
  <1>3. "byId" \in Pcs /\ UNCHANGED Tables  BY DEF Pcs, ReadAgain, Tables
  <1> QED  BY <1>1, <1>2, <1>3, FollowTyped DEF Others

\* A callback that has its configuration: the row of its project as it was read.
Resolved(c, p, version) ==
    /\ runs'[c].pc = "preflight" /\ runs'[c].project = p /\ runs'[c].url = runs[c].url
    /\ runs'[c].import.target = version /\ runs'[c].import.checked = Upstream(c, version)
    /\ runs'[c].import.excused <=> version # given[p]

LEMMA ResolveStep ==
  ASSUME TypeOK, NEW c \in Callbacks, NEW p \in Projects, NEW version \in Nat,
         Resolve(c, p, version)
  PROVE  /\ runs' \in [Callbacks -> Runs] /\ Others(c)
         /\ runs'[c] = Idle \/ Resolved(c, p, version)
  <1> DEFINE stale == version # given[p]
             import == [target |-> version, checked |-> Upstream(c, version), document |-> 0,
                        excused |-> stale]
             new == [pc |-> "preflight", named |-> FALSE, repo |-> FALSE, url |-> runs[c].url,
                     blind |-> FALSE, project |-> p, listed |-> {}, import |-> import]
  <1>1. runs \in [Callbacks -> Runs] /\ runs[c].url \in BOOLEAN  BY DEF TypeOK, Runs
  <1>2. Upstream(c, version) \in Sources  BY DEF Upstream, Sources
  <1>3. stale \in BOOLEAN /\ (stale <=> version # given[p])  OBVIOUS
  <1>4. End(c) \/ runs' = [runs EXCEPT ![c] = new]  BY DEF Resolve
  <1> HIDE DEF stale
  <1>5. /\ import \in Imports /\ import.target = version
        /\ import.checked = Upstream(c, version) /\ import.excused = stale
    BY <1>2, <1>3 DEF Imports, Sources
  <1> HIDE DEF import
  <1>6. new \in Runs  BY <1>1, <1>5 DEF Runs, Pcs
  <1>7. CASE End(c)  BY <1>7, EndTyped DEF Others
  <1>8. CASE runs' = [runs EXCEPT ![c] = new]
    <2>1. runs' \in [Callbacks -> Runs] /\ Others(c) /\ runs'[c] = new
      BY <1>1, <1>6, <1>8, Put DEF Others
    <2>2. runs'[c].import.excused = stale  BY <1>5, <2>1
    <2>3. runs'[c].import.excused <=> version # given[p]  BY <1>3, <2>2, Zenon
    <2> QED  BY <1>5, <2>1, <2>3 DEF Resolved
  <1> QED  BY <1>4, <1>7, <1>8

LEMMA ByIdStep ==
  ASSUME TypeOK, NEW c \in Callbacks, ReadProjectById(c)
  PROVE  /\ runs' \in [Callbacks -> Runs] /\ Others(c) /\ UNCHANGED Tables
         /\ \/ runs'[c] = Idle
            \/ runs'[c].pc = "byName" /\ runs'[c].project = Service
            \/ Resolved(c, runs[c].project, given[runs[c].project])
  <1>1. UNCHANGED Tables /\ runs[c] \in Runs  BY DEF ReadProjectById, Tables, TypeOK
  <1>2. runs[c].project \in Projects /\ given[runs[c].project] \in Nat
    BY DEF ReadProjectById, At, TypeOK, Runs
  <1>3. CASE Resolve(c, runs[c].project, given[runs[c].project])
    BY <1>1, <1>2, <1>3, ResolveStep
  <1>4. CASE Named(c, runs[c])  BY <1>1, <1>4, NamedTyped DEF Others
  <1> QED  BY <1>3, <1>4 DEF ReadProjectById

LEMMA ByNameStep ==
  ASSUME TypeOK, NEW c \in Callbacks, ReadProjectByName(c)
  PROVE  /\ runs' \in [Callbacks -> Runs] /\ Others(c) /\ UNCHANGED Tables
         /\ \/ runs'[c] = Idle
            \/ \E version \in Nat : Resolved(c, Service, version)
  <1>1. UNCHANGED Tables /\ given[Service] \in Nat  BY DEF ReadProjectByName, Tables, TypeOK
  <1>2. CASE Resolve(c, Service, given[Service])
    BY <1>1, <1>2, ResolveStep
  <1>3. CASE Resolve(c, Service, 0)
    BY <1>1, <1>3, ResolveStep
  <1>4. CASE End(c)  BY <1>1, <1>4, EndTyped DEF Others
  <1> QED  BY <1>2, <1>3, <1>4 DEF ReadProjectByName

LEMMA PreflightStep ==
  ASSUME TypeOK, NEW c \in Callbacks, Preflight(c)
  PROVE  /\ runs' \in [Callbacks -> Runs] /\ Others(c) /\ UNCHANGED Tables
         /\ runs[c].pc = "preflight"
         /\ \/ runs'[c] = Idle
            \/ /\ runs'[c].pc = "fetch" /\ runs'[c].project = runs[c].project
               /\ runs'[c].url = runs[c].url /\ runs'[c].import = runs[c].import
  <1>1. UNCHANGED Tables /\ runs[c] \in Runs /\ runs[c].pc = "preflight"
    BY DEF Preflight, Tables, TypeOK, At
  <1>2. CASE runs' = [runs EXCEPT ![c].pc = "fetch"]
    BY <1>1, <1>2 DEF TypeOK, Runs, Others, Pcs
  <1>3. CASE End(c)  BY <1>1, <1>3, EndTyped DEF Others
  <1> QED  BY <1>2, <1>3 DEF Preflight

LEMMA FetchStep ==
  ASSUME TypeOK, NEW c \in Callbacks, Fetch(c)
  PROVE  /\ runs' \in [Callbacks -> Runs] /\ Others(c) /\ UNCHANGED Tables
         /\ runs[c].pc = "fetch"
         /\ \/ runs'[c] = Idle
            \/ /\ runs'[c].pc = "answer" /\ runs'[c].project = runs[c].project
               /\ runs'[c].import.target = runs[c].import.target
               /\ runs'[c].import.checked = runs[c].import.checked
               /\ ~runs'[c].import.excused =>
                     /\ ~runs[c].import.excused
                     /\ runs'[c].import.document = Upstream(c, given[runs[c].project])
  <1>1. /\ UNCHANGED Tables /\ runs[c] \in Runs /\ runs[c].pc = "fetch"
        /\ runs[c].project \in Projects
    BY DEF Fetch, Tables, TypeOK, At, Runs, Importing
  <1>2. CASE \E read \in {given[runs[c].project], 0} :
               runs' = [runs EXCEPT ![c].pc = "answer", ![c].import = Fetched(c, read)]
    <2>1. PICK read \in {given[runs[c].project], 0} :
               runs' = [runs EXCEPT ![c].pc = "answer", ![c].import = Fetched(c, read)]
      BY <1>2
    <2>2. Served(c, read) \in Sources
      BY <1>1 DEF Served, Upstream, Sources, TypeOK
    <2>3. runs[c].import \in Imports  BY <1>1 DEF Runs
    <2>4. /\ Fetched(c, read) \in Imports
          /\ Fetched(c, read).target = runs[c].import.target
          /\ Fetched(c, read).checked = runs[c].import.checked
          /\ Fetched(c, read).document = Served(c, read)
          /\ ~Fetched(c, read).excused =>
                ~runs[c].import.excused /\ Served(c, read) = Served(c, given[runs[c].project])
      BY <2>2, <2>3 DEF Fetched, Imports
    <2>5. runs \in [Callbacks -> Runs]  BY DEF TypeOK
    <2>6. /\ runs' \in [Callbacks -> Runs] /\ Others(c)
          /\ runs'[c].pc = "answer" /\ runs'[c].project = runs[c].project
          /\ runs'[c].import = Fetched(c, read)
      BY <1>1, <2>1, <2>4, <2>5 DEF Runs, Others, Pcs
    <2> QED  BY <1>1, <2>4, <2>6 DEF Served
  <1>3. CASE End(c)  BY <1>1, <1>3, EndTyped DEF Others
  <1> QED  BY <1>2, <1>3 DEF Fetch

LEMMA ImportStep ==
  ASSUME TypeOK, NEW c \in Callbacks, ImportOpenapi(c)
  PROVE  /\ runs' \in [Callbacks -> Runs] /\ Others(c) /\ UNCHANGED <<given, text, mapped>>
         /\ runs'[c] = Idle
         /\ runs[c].project \in Projects
         /\ filled' \in {filled, filled \cup {runs[c].project}}
  <1>1. runs[c].project \in Projects  BY DEF ImportOpenapi, At, TypeOK, Runs, Importing
  <1> QED  BY <1>1, EndTyped DEF ImportOpenapi, Others

LEMMA WriteProjectStep ==
  ASSUME TypeOK, NEW p \in Projects, WriteProject(p)
  PROVE  /\ runs' \in [Callbacks -> Runs] /\ UNCHANGED <<text, mapped, filled>>
         /\ given' \in [Projects -> Nat] /\ \A q \in Projects \ {p} : given'[q] = given[q]
         /\ \A c \in Callbacks :
               /\ runs'[c].pc = runs[c].pc /\ runs'[c].project = runs[c].project
               /\ runs'[c].listed = runs[c].listed /\ runs'[c].blind = runs[c].blind
               /\ runs'[c].url = runs[c].url
               /\ runs'[c].import = runs[c].import \/ runs'[c].import.excused
               /\ runs[c].pc \in {"preflight", "fetch"} /\ runs[c].project = p =>
                     runs'[c].import.excused
  <1>1. UNCHANGED <<text, mapped, filled>> /\ given' \in [Projects -> Nat]
        /\ \A q \in Projects \ {p} : given'[q] = given[q]
    BY DEF WriteProject, TypeOK
  <1> DEFINE hit(c) == runs[c].project = p /\ runs[c].pc \in {"preflight", "fetch"}
  <1>2. \A c \in Callbacks : runs'[c] =
          IF hit(c) THEN [runs[c] EXCEPT !.import.excused = TRUE] ELSE runs[c]
    BY DEF WriteProject
  <1>3. runs' = [c \in Callbacks |-> runs'[c]]  BY DEF WriteProject
  <1>4. ASSUME NEW c \in Callbacks
        PROVE  /\ runs'[c] \in Runs
               /\ runs'[c].pc = runs[c].pc /\ runs'[c].project = runs[c].project
               /\ runs'[c].listed = runs[c].listed /\ runs'[c].blind = runs[c].blind
               /\ runs'[c].url = runs[c].url
               /\ runs'[c].import = runs[c].import \/ runs'[c].import.excused
               /\ hit(c) => runs'[c].import.excused
    <2>1. runs[c] \in Runs /\ runs[c].import \in Imports  BY DEF TypeOK, Runs
    <2>2. CASE hit(c)
      <3>1. runs'[c] = [runs[c] EXCEPT !.import.excused = TRUE]  BY <1>2, <2>2
      <3> QED  BY <2>1, <3>1 DEF Runs, Imports
    <2>3. CASE ~hit(c)
      <3>1. runs'[c] = runs[c]  BY <1>2, <2>3
      <3> QED  BY <2>1, <2>3, <3>1
    <2> QED  BY <2>2, <2>3
  <1>5. runs' \in [Callbacks -> Runs]  BY <1>3, <1>4
  <1> QED  BY <1>1, <1>4, <1>5

LEMMA MapPipelineStep ==
  ASSUME TypeOK, MapPipeline
  PROVE  /\ runs' \in [Callbacks -> Runs] /\ UNCHANGED <<given, text, filled>>
         /\ mapped' = [to |-> Service, by |-> "operator", early |-> FALSE]
         /\ \A c \in Callbacks :
               /\ runs'[c].pc = runs[c].pc /\ runs'[c].project = runs[c].project
               /\ runs'[c].listed = runs[c].listed /\ runs'[c].url = runs[c].url
               /\ runs'[c].import = runs[c].import
               /\ runs[c].pc \in Finding => runs'[c].blind
  <1>1. \A c \in Callbacks : runs'[c] =
          IF runs[c].pc \in Finding THEN [runs[c] EXCEPT !.blind = TRUE] ELSE runs[c]
    BY DEF MapPipeline, Finding
  <1>2. \A c \in Callbacks : runs[c] \in Runs  BY DEF TypeOK
  <1>3. runs' = [c \in Callbacks |-> runs'[c]]  BY DEF MapPipeline
  <1>4. ASSUME NEW c \in Callbacks
        PROVE  /\ runs'[c] \in Runs
               /\ runs'[c].pc = runs[c].pc /\ runs'[c].project = runs[c].project
               /\ runs'[c].listed = runs[c].listed /\ runs'[c].url = runs[c].url
               /\ runs'[c].import = runs[c].import
               /\ runs[c].pc \in Finding => runs'[c].blind
    <2>1. CASE runs[c].pc \in Finding
      BY <1>1, <1>2, <2>1 DEF Runs
    <2>2. CASE runs[c].pc \notin Finding
      BY <1>1, <1>2, <2>2
    <2> QED  BY <2>1, <2>2
  <1> QED  BY <1>3, <1>4 DEF MapPipeline

-----------------------------------------------------------------------------
(* TypeOK. *)

HasProject(run) ==
    run.pc \in {"upsert", "again", "byId", "byName"} \cup Importing => run.project # None

LEMMA TypeStep ==
  ASSUME TypeOK, NEW c \in Callbacks, Step(c)
  PROVE  TypeOK'
  <1>1. ASSUME runs' \in [Callbacks -> Runs], Others(c), HasProject(runs'[c]), UNCHANGED Tables
        PROVE  TypeOK'
    BY <1>1 DEF TypeOK, Others, HasProject, Tables
  <1>2. HasProject(Idle)  BY DEF HasProject, Idle, Importing
  <1>3. Service # None /\ runs[c] \in Runs /\ HasProject(runs[c])
    BY DEF TypeOK, HasProject
  <1>4. CASE Begin(c)  BY <1>1, <1>2, <1>3, <1>4, BeginStep DEF HasProject, Importing
  <1>5. CASE ReadMapping(c)  BY <1>1, <1>2, <1>3, <1>5, ReadMappingStep DEF HasProject, Importing
  <1>6. CASE ListProjects(c)  BY <1>1, <1>2, <1>3, <1>6, ListStep DEF HasProject, Importing
  <1>7. CASE AskYunxiao(c)
    <2>1. text \subseteq Projects  BY DEF TypeOK
    <2> QED  BY <1>1, <1>2, <1>3, <1>7, <2>1, AskStep DEF HasProject, Importing
  <1>8. CASE WriteMapping(c)
    <2>1. runs[c].project \in Projects  BY <1>8, WriteStep
    <2>2. [to |-> runs[c].project, by |-> "discovery", early |-> Service \notin runs[c].listed]
             \in Mappings
      BY <2>1 DEF Mappings
    <2>3. mapped \in Mappings  BY DEF TypeOK
    <2>4. HasProject(runs'[c]) /\ mapped' \in Mappings
      BY <1>2, <1>8, <2>1, <2>2, <2>3, WriteStep DEF HasProject
    <2> QED  BY <1>8, <2>4, WriteStep DEF TypeOK, Others, HasProject
  <1>9. CASE ReadAgain(c)  BY <1>1, <1>2, <1>3, <1>9, AgainStep DEF HasProject, Importing
  <1>10. CASE ReadProjectById(c)
    <2>1. runs[c].project # None  BY <1>3, <1>10 DEF ReadProjectById, At, HasProject
    <2> QED  BY <1>1, <1>2, <1>3, <1>10, <2>1, ByIdStep DEF HasProject, Importing, Resolved
  <1>11. CASE ReadProjectByName(c)
    BY <1>1, <1>2, <1>3, <1>11, ByNameStep DEF HasProject, Importing, Resolved
  <1>12. CASE Preflight(c)
    BY <1>1, <1>2, <1>3, <1>12, PreflightStep DEF HasProject, Importing
  <1>13. CASE Fetch(c)
    BY <1>1, <1>2, <1>3, <1>13, FetchStep DEF HasProject, Importing
  <1>14. CASE ImportOpenapi(c)
    BY <1>2, <1>14, ImportStep DEF TypeOK, Others, HasProject
  <1> QED  BY <1>4, <1>5, <1>6, <1>7, <1>8, <1>9, <1>10, <1>11, <1>12, <1>13, <1>14 DEF Step

LEMMA TypeNext ==
  ASSUME TypeOK, [Next]_vars
  PROVE  TypeOK'
  <1>1. CASE \E c \in Callbacks : Step(c)  BY <1>1, TypeStep
  <1>2. ASSUME NEW p \in Projects, WriteProject(p) PROVE TypeOK'
    BY <1>2, WriteProjectStep DEF TypeOK
  <1>3. CASE MapPipeline
    <2>0. [to |-> Service, by |-> "operator", early |-> FALSE] \in Mappings
      BY DEF Mappings
    <2>1. mapped' \in Mappings  BY <1>3, <2>0, MapPipelineStep
    <2> QED  BY <1>3, <2>1, MapPipelineStep DEF TypeOK
  <1>4. CASE UNCHANGED vars  BY <1>4 DEF TypeOK, vars
  <1> QED  BY <1>1, <1>2, <1>3, <1>4 DEF Next

LEMMA TypeInit ==
  ASSUME Init
  PROVE  TypeOK
  BY IdleTyped DEF Init, TypeOK, Mappings, Idle, Importing

\* Rows, callbacks and Apifox projects keep their types, and no lookup of
\* _resolve_config is made without the project it is for.
THEOREM TypeCorrect == Spec => []TypeOK
  <1>1. TypeOK /\ [Next]_vars => TypeOK'  BY TypeNext
  <1>2. Init => TypeOK  BY TypeInit
  <1> QED  BY <1>1, <1>2, PTL DEF Spec

-----------------------------------------------------------------------------
(* StraysAreMentioned.  A project that is not the service's comes into a run *)
(* with a description that mentions it, and only when it is the only match.  *)

RunIsMentioned(run) ==
    /\ run.project \in text \cup {Service, None}
    /\ run.pc = "upsert" /\ run.project # Service =>
          Service \notin text \/ Service \notin run.listed

MentionInv == /\ TypeOK
              /\ StraysAreMentioned
              /\ \A c \in Callbacks : RunIsMentioned(runs[c])

\* While the tables stay as they are only the run that moves has to be looked at.
LEMMA MentionOne ==
  ASSUME MentionInv, TypeOK', NEW c \in Callbacks, Others(c),
         UNCHANGED Tables, RunIsMentioned(runs'[c])
  PROVE  MentionInv'
  BY DEF MentionInv, StraysAreMentioned, RunIsMentioned, Others, Tables

LEMMA MentionStep ==
  ASSUME MentionInv, TypeOK', NEW c \in Callbacks, Step(c)
  PROVE  MentionInv'
  <1>1. TypeOK /\ RunIsMentioned(runs[c]) /\ StraysAreMentioned  BY DEF MentionInv
  <1>2. RunIsMentioned(Idle)  BY DEF RunIsMentioned, Idle
  <1>3. mapped.to \in text \cup {Service, None}  BY <1>1 DEF StraysAreMentioned
  <1>4. CASE Begin(c)  BY <1>1, <1>2, <1>4, BeginStep, MentionOne DEF RunIsMentioned
  <1>5. CASE ReadMapping(c)
    BY <1>1, <1>2, <1>3, <1>5, ReadMappingStep, MentionOne DEF RunIsMentioned
  <1>6. CASE ListProjects(c)  BY <1>1, <1>2, <1>6, ListStep, MentionOne DEF RunIsMentioned
  <1>7. CASE AskYunxiao(c)
    <2>1. RunIsMentioned(runs'[c])  BY <1>1, <1>2, <1>7, AskStep DEF RunIsMentioned
    <2> QED  BY <1>1, <1>7, <2>1, AskStep, MentionOne
  <1>8. CASE WriteMapping(c)
    <2>1. RunIsMentioned(runs'[c])  BY <1>1, <1>2, <1>8, WriteStep DEF RunIsMentioned
    <2>2. StraysAreMentioned'
      <3>1. CASE mapped' = mapped  BY <1>1, <1>8, <3>1, WriteStep DEF StraysAreMentioned
      <3>2. CASE mapped' = [to |-> runs[c].project, by |-> "discovery",
                            early |-> Service \notin runs[c].listed]
        <4>1. /\ mapped'.to = runs[c].project
              /\ mapped'.early = (Service \notin runs[c].listed)
          BY <3>2
        <4>2. runs[c].pc = "upsert"  BY <1>1, <1>8, WriteStep
        <4>3. runs[c].project \in Projects /\ UNCHANGED <<text, filled>>
          BY <1>1, <1>8, WriteStep
        <4>4. runs[c].project # Service =>
                runs[c].project \in text /\ (Service \notin text \/ Service \notin runs[c].listed)
          BY <1>1, <4>2, <4>3 DEF RunIsMentioned
        <4> QED  BY <1>1, <4>1, <4>3, <4>4 DEF StraysAreMentioned
      <3> QED  BY <1>1, <1>8, <3>1, <3>2, WriteStep
    <2> QED  BY <1>1, <1>8, <2>1, <2>2, WriteStep DEF MentionInv, RunIsMentioned, Others
  <1>9. CASE ReadAgain(c)
    BY <1>1, <1>3, <1>9, AgainStep, MentionOne DEF RunIsMentioned
  <1>10. CASE ReadProjectById(c)
    BY <1>1, <1>2, <1>10, ByIdStep, MentionOne DEF RunIsMentioned, Resolved
  <1>11. CASE ReadProjectByName(c)
    BY <1>1, <1>2, <1>11, ByNameStep, MentionOne DEF RunIsMentioned, Resolved
  <1>12. CASE Preflight(c)
    BY <1>1, <1>2, <1>12, PreflightStep, MentionOne DEF RunIsMentioned
  <1>13. CASE Fetch(c)
    BY <1>1, <1>2, <1>13, FetchStep, MentionOne DEF RunIsMentioned
  <1>14. CASE ImportOpenapi(c)
    <2>1. filled' \subseteq text \cup {Service}
      BY <1>1, <1>14, ImportStep DEF StraysAreMentioned, RunIsMentioned
    <2>2. StraysAreMentioned'
      BY <1>1, <1>14, <2>1, ImportStep DEF StraysAreMentioned
    <2> QED  BY <1>1, <1>2, <1>14, <2>2, ImportStep DEF MentionInv, RunIsMentioned, Others
  <1> QED  BY <1>4, <1>5, <1>6, <1>7, <1>8, <1>9, <1>10, <1>11, <1>12, <1>13, <1>14 DEF Step

LEMMA MentionNext ==
  ASSUME MentionInv, [Next]_vars
  PROVE  MentionInv'
  <1>1. TypeOK'  BY TypeNext DEF MentionInv
  <1>2. CASE \E c \in Callbacks : Step(c)  BY <1>1, <1>2, MentionStep
  <1>3. ASSUME NEW p \in Projects, WriteProject(p) PROVE MentionInv'
    BY <1>1, <1>3, WriteProjectStep DEF MentionInv, StraysAreMentioned, RunIsMentioned
  <1>4. CASE MapPipeline
    <2>1. TypeOK  BY DEF MentionInv
    <2>2. mapped'.to = Service  BY <1>4, <2>1, MapPipelineStep
    <2> QED  BY <1>1, <1>4, <2>1, <2>2, MapPipelineStep DEF MentionInv, StraysAreMentioned, RunIsMentioned
  <1>5. CASE UNCHANGED vars
    BY <1>1, <1>5 DEF MentionInv, StraysAreMentioned, RunIsMentioned, vars
  <1> QED  BY <1>2, <1>3, <1>4, <1>5 DEF Next

\* maybe_import_from_flow_event: whatever lookups fail and however callbacks and
\* scripts overlap, only the service's own Apifox project is imported into, or one that
\* the description of the pipeline mentions.
THEOREM StraysHaveReason == Spec => []StraysAreMentioned
  <1>1. Init => MentionInv
    BY TypeInit DEF Init, MentionInv, StraysAreMentioned, RunIsMentioned, Idle
  <1>2. MentionInv /\ [Next]_vars => MentionInv'  BY MentionNext
  <1>3. MentionInv => StraysAreMentioned  BY DEF MentionInv
  <1> QED  BY <1>1, <1>2, <1>3, PTL DEF Spec

-----------------------------------------------------------------------------
(* OnlyBlindOverrule. *)

BlindInv == /\ TypeOK
            /\ OnlyBlindOverrule
            /\ mapped.by = "operator" => mapped.to # None

LEMMA BlindOne ==
  ASSUME BlindInv, TypeOK', NEW c \in Callbacks, Others(c), mapped' = mapped,
         mapped.by = "operator" /\ runs'[c].pc \in Finding => runs'[c].blind
  PROVE  BlindInv'
  BY DEF BlindInv, OnlyBlindOverrule, Others

LEMMA BlindStep ==
  ASSUME BlindInv, TypeOK', NEW c \in Callbacks, Step(c)
  PROVE  BlindInv'
  <1>1. TypeOK /\ OnlyBlindOverrule  BY DEF BlindInv
  <1>2. mapped.by = "operator" /\ runs[c].pc \in Finding => runs[c].blind
    BY <1>1 DEF OnlyBlindOverrule
  <1>3. Idle.pc \notin Finding  BY DEF Idle, Finding
  <1>4. CASE Begin(c)
    BY <1>1, <1>3, <1>4, BeginStep, BlindOne DEF Finding, Tables
  <1>5. CASE ReadMapping(c)
    <2>1. mapped.by = "operator" => mapped.to # None  BY DEF BlindInv
    <2> QED  BY <1>1, <1>3, <1>5, <2>1, ReadMappingStep, BlindOne DEF Finding, Tables
  <1>6. CASE ListProjects(c)
    <2>1. runs[c].pc \in Finding  BY <1>6 DEF ListProjects, At, Finding
    <2> QED  BY <1>1, <1>2, <1>3, <1>6, <2>1, ListStep, BlindOne DEF Finding, Tables
  <1>7. CASE AskYunxiao(c)
    <2>1. runs[c].pc \in Finding  BY <1>7 DEF AskYunxiao, At, Finding
    <2> QED  BY <1>1, <1>2, <1>3, <1>7, <2>1, AskStep, BlindOne DEF Finding, Tables
  <1>8. CASE WriteMapping(c)
    <2>1. runs'[c].pc \notin Finding /\ Others(c)
      BY <1>1, <1>3, <1>8, WriteStep DEF Finding
    <2>2. mapped' = mapped \/ mapped'.by = "discovery"
      BY <1>1, <1>8, WriteStep
    <2>3. CASE mapped' = mapped  BY <2>1, <2>3, BlindOne
    <2>4. CASE mapped'.by = "discovery"  BY <2>4 DEF BlindInv, OnlyBlindOverrule
    <2> QED  BY <2>2, <2>3, <2>4
  <1>9. CASE ReadAgain(c)
    BY <1>1, <1>9, AgainStep, BlindOne DEF Finding, Tables
  <1>10. CASE ReadProjectById(c)
    BY <1>1, <1>3, <1>10, ByIdStep, BlindOne DEF Finding, Tables, Resolved
  <1>11. CASE ReadProjectByName(c)
    BY <1>1, <1>3, <1>11, ByNameStep, BlindOne DEF Finding, Tables, Resolved
  <1>12. CASE Preflight(c)
    BY <1>1, <1>3, <1>12, PreflightStep, BlindOne DEF Finding, Tables
  <1>13. CASE Fetch(c)
    BY <1>1, <1>3, <1>13, FetchStep, BlindOne DEF Finding, Tables
  <1>14. CASE ImportOpenapi(c)
    BY <1>1, <1>3, <1>14, ImportStep, BlindOne DEF Finding
  <1> QED  BY <1>4, <1>5, <1>6, <1>7, <1>8, <1>9, <1>10, <1>11, <1>12, <1>13, <1>14 DEF Step

LEMMA BlindNext ==
  ASSUME BlindInv, [Next]_vars
  PROVE  BlindInv'
  <1>1. TypeOK /\ TypeOK' /\ OnlyBlindOverrule  BY TypeNext DEF BlindInv
  <1>2. CASE \E c \in Callbacks : Step(c)  BY <1>1, <1>2, BlindStep
  <1>3. ASSUME NEW p \in Projects, WriteProject(p) PROVE BlindInv'
    BY <1>1, <1>3, WriteProjectStep DEF BlindInv, OnlyBlindOverrule
  <1>4. CASE MapPipeline
    BY <1>1, <1>4, MapPipelineStep DEF BlindInv, OnlyBlindOverrule
  <1>5. CASE UNCHANGED vars
    BY <1>1, <1>5 DEF BlindInv, OnlyBlindOverrule, vars
  <1> QED  BY <1>2, <1>3, <1>4, <1>5 DEF Next

\* discover_project_from_pipeline: a mapping the operator wrote is overwritten only by a
\* discovery that did not read it.
THEOREM MappingsAreRespected == Spec => []OnlyBlindOverrule
  <1>1. Init => BlindInv
    BY TypeInit DEF Init, BlindInv, OnlyBlindOverrule
  <1>2. BlindInv /\ [Next]_vars => BlindInv'  BY BlindNext
  <1>3. BlindInv => OnlyBlindOverrule  BY DEF BlindInv
  <1> QED  BY <1>1, <1>2, <1>3, PTL DEF Spec

-----------------------------------------------------------------------------
(* CheckedIsImported.  Until Apifox fetches the document, a run that has no   *)
(* excuse carries what the row of its project holds now.                      *)

RunIsChecked(run) ==
    ~run.import.excused =>
        /\ run.pc \in {"preflight", "fetch"} =>
              /\ run.import.target = given[run.project]
              /\ run.import.checked = IF run.url THEN Payload ELSE run.import.target
        /\ run.pc = "answer" =>
              /\ run.import.document = run.import.checked
              /\ run.import.checked \in {run.import.target, Payload}

CheckInv == TypeOK /\ \A c \in Callbacks : RunIsChecked(runs[c])

LEMMA CheckOne ==
  ASSUME CheckInv, TypeOK', NEW c \in Callbacks, Others(c), given' = given,
         \/ runs'[c].pc \notin Importing
         \/ RunIsChecked(runs'[c])
  PROVE  CheckInv'
  BY DEF CheckInv, RunIsChecked, Others, Importing

LEMMA CheckStep ==
  ASSUME CheckInv, TypeOK', NEW c \in Callbacks, Step(c)
  PROVE  CheckInv'
  <1>1. TypeOK /\ RunIsChecked(runs[c])  BY DEF CheckInv
  <1>2. Idle.pc \notin Importing  BY DEF Idle, Importing
  <1>3. ASSUME NEW p \in Projects, NEW version \in Nat, Resolved(c, p, version)
        PROVE  RunIsChecked(runs'[c])
    <2>1. runs'[c].import.target = version /\ runs'[c].import.checked = Upstream(c, version)
      BY <1>3 DEF Resolved
    <2>3. runs'[c].import.excused <=> version # given[p]
      BY <1>3 DEF Resolved
    <2>2. runs'[c].pc = "preflight" /\ runs'[c].project = p /\ runs'[c].url = runs[c].url
      BY <1>3 DEF Resolved
    <2> QED  BY <2>1, <2>2, <2>3 DEF RunIsChecked, Upstream
  <1>4. CASE Begin(c)
    BY <1>1, <1>2, <1>4, BeginStep, CheckOne DEF Importing, Tables
  <1>5. CASE ReadMapping(c)
    BY <1>1, <1>2, <1>5, ReadMappingStep, CheckOne DEF Importing, Tables
  <1>6. CASE ListProjects(c)
    BY <1>1, <1>2, <1>6, ListStep, CheckOne DEF Importing, Tables
  <1>7. CASE AskYunxiao(c)
    BY <1>1, <1>2, <1>7, AskStep, CheckOne DEF Importing, Tables
  <1>8. CASE WriteMapping(c)
    BY <1>1, <1>2, <1>8, WriteStep, CheckOne DEF Importing
  <1>9. CASE ReadAgain(c)
    BY <1>1, <1>9, AgainStep, CheckOne DEF Importing, Tables
  <1>10. CASE ReadProjectById(c)
    <2>1. runs[c].project \in Projects /\ given[runs[c].project] \in Nat
      BY <1>1, <1>10 DEF ReadProjectById, At, TypeOK, Runs
    <2> QED  BY <1>1, <1>2, <1>3, <1>10, <2>1, ByIdStep, CheckOne DEF Importing, Tables
  <1>11. CASE ReadProjectByName(c)
    BY <1>1, <1>2, <1>3, <1>11, ByNameStep, CheckOne DEF Tables
  <1>12. CASE Preflight(c)
    <2>1. runs'[c].pc \notin Importing \/ RunIsChecked(runs'[c])
      BY <1>1, <1>2, <1>12, PreflightStep DEF RunIsChecked
    <2> QED  BY <1>1, <1>12, <2>1, PreflightStep, CheckOne DEF Tables
  <1>13. CASE Fetch(c)
    <2>1. runs'[c].pc \notin Importing \/ RunIsChecked(runs'[c])
      BY <1>1, <1>2, <1>13, FetchStep DEF RunIsChecked, Upstream
    <2> QED  BY <1>1, <1>13, <2>1, FetchStep, CheckOne DEF Tables
  <1>14. CASE ImportOpenapi(c)
    BY <1>1, <1>2, <1>14, ImportStep, CheckOne
  <1> QED  BY <1>4, <1>5, <1>6, <1>7, <1>8, <1>9, <1>10, <1>11, <1>12, <1>13, <1>14 DEF Step

LEMMA CheckNext ==
  ASSUME CheckInv, [Next]_vars
  PROVE  CheckInv'
  <1>1. TypeOK /\ TypeOK'  BY TypeNext DEF CheckInv
  <1>2. CASE \E c \in Callbacks : Step(c)  BY <1>1, <1>2, CheckStep
  <1>3. ASSUME NEW p \in Projects, WriteProject(p) PROVE CheckInv'
    <2>1. ASSUME NEW c \in Callbacks PROVE RunIsChecked(runs[c])'
      <3>1. runs[c] \in Runs /\ RunIsChecked(runs[c])  BY <1>1 DEF CheckInv, TypeOK
      <3>2. runs[c].pc \in Importing => runs[c].project \in Projects
        BY <1>1, <3>1 DEF TypeOK, Runs, Importing
      <3> QED  BY <1>1, <1>3, <3>1, <3>2, WriteProjectStep DEF RunIsChecked, Importing
    <2> QED  BY <1>1, <2>1 DEF CheckInv
  <1>4. CASE MapPipeline
    <2>1. given' = given /\ \A c \in Callbacks :
            /\ runs'[c].pc = runs[c].pc /\ runs'[c].project = runs[c].project
            /\ runs'[c].url = runs[c].url /\ runs'[c].import = runs[c].import
      BY <1>1, <1>4, MapPipelineStep
    <2>2. ASSUME NEW c \in Callbacks PROVE RunIsChecked(runs[c])'
      BY <2>1 DEF CheckInv, RunIsChecked
    <2> QED  BY <1>1, <2>2 DEF CheckInv
  <1>5. CASE UNCHANGED vars
    <2>1. given' = given /\ runs' = runs  BY <1>5 DEF vars
    <2> QED  BY <1>1, <2>1 DEF CheckInv, RunIsChecked
  <1> QED  BY <1>2, <1>3, <1>4, <1>5 DEF Next

\* maybe_import_from_flow_event and GET /adapter/openapi: what Apifox is given is what
\* the preflight looked at, in the Apifox project configured with it, although the row is
\* read again for Apifox; the exceptions are a rewritten row and a failed reading.
THEOREM ImportsAreChecked == Spec => []CheckedIsImported
  <1>1. Init => CheckInv
    BY TypeInit DEF Init, CheckInv, RunIsChecked, Idle
  <1>2. CheckInv /\ [Next]_vars => CheckInv'  BY CheckNext
  <1>3. CheckInv => CheckedIsImported
    BY DEF CheckInv, RunIsChecked, CheckedIsImported, At
  <1> QED  BY <1>1, <1>2, <1>3, PTL DEF Spec
=============================================================================
