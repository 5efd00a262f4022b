--------------------------- MODULE CodegraphCache ---------------------------
(* CodeGraph indexes from the pipeline that builds them to the answers the   *)
(* worker gives: scripts/codegraph_build_and_upload.sh, app/codegraph.py and *)
(* CodeGraphWorker of codegraph_worker/service.py.                           *)
(*                                                                           *)
(* One commit is built again and again, each build under a version of its    *)
(* own or, by default, that of the commit, which is version 1 here.  The     *)
(* three objects have the same keys whatever the version, so that a build    *)
(* replaces them one by one; the worker keeps a directory for each version.  *)
(* Queries run in the threads of the worker, without a lock.  Builds of one  *)
(* commit follow each other, and ossutil puts a whole object in the place of *)
(* a file.                                                                   *)
EXTENDS Naturals, FiniteSets

CONSTANTS
    Queries,  \* queries in progress
    Builds,   \* bound: builds of the commit; the n-th has version n or 1
    Members,  \* number of files in an archive; the last is codegraph-status.json
    Torn,     \* a file that is written, or was not finished
    Mixed     \* a file two builds were written to at once

ASSUME BuildsAreCounted == Builds \in Nat
ASSUME StatusIsAMember == Members \in Nat \ {0}
ASSUME BrokenIsNoBuild == Torn \notin Nat /\ Mixed \notin Nat /\ Torn # Mixed

VARIABLES
    store,      \* per object: the build it is of, 0 when there is none
    pipeline,   \* the build in progress and what is uploaded next
    registered, \* versions in adapter_codegraph_index
    dirs,       \* per version: its cache directory
    query,      \* what each query is doing
    \* history
    overlapped  \* versions whose directory two queries prepared at the same time

vars == <<store, pipeline, registered, dirs, query, overlapped>>

Versions == 1 .. Builds
Some == 0 .. Builds
Objects == {"archive", "status", "sha"}
Positions == 1 .. Members
StatusFile == Members

\* archive and sha256.txt as downloaded, the files of the index by position, .ready
Dirs == [archive : Some, sha : Some, files : [Positions -> Some \cup {Torn, Mixed}],
         ready : BOOLEAN]
EmptyDir == [archive |-> 0, sha |-> 0, files |-> [p \in Positions |-> 0], ready |-> FALSE]

Preparing == {"archive", "sha", "status", "verify", "open", "extract", "write"}
Pcs == Preparing \cup {"idle", "run", "read", "answer"}

\* opened: the archive it reads; at: the file it extracts; result, status: what its
\* answer is of
Runs == [pc : Pcs, version : Some, opened : Some, at : 1 .. Members + 1,
         result : Some \cup {Torn, Mixed}, status : Some]
At(pc, v) == [pc |-> pc, version |-> v, opened |-> 0, at |-> 1, result |-> 0, status |-> 0]
Idle == At("idle", 0)

Go(q, pc) == query' = [query EXCEPT ![q].pc = pc]

-----------------------------------------------------------------------------
(* The pipeline. *)

\* A build starts when the one before has ended; whether that failed does not matter.
Build ==
    /\ pipeline.next = "none" /\ pipeline.build < Builds
    /\ \E v \in {1, pipeline.build + 1} :
          pipeline' = [build |-> pipeline.build + 1, version |-> v, next |-> "archive"]
    /\ UNCHANGED <<store, registered, dirs, query, overlapped>>

After(o) == CASE o = "archive" -> "status" [] o = "status" -> "sha" [] o = "sha" -> "callback"

Upload ==
    /\ pipeline.next \in Objects
    /\ store' = [store EXCEPT ![pipeline.next] = pipeline.build]
    /\ pipeline' = [pipeline EXCEPT !.next = After(@)]
    /\ UNCHANGED <<registered, dirs, query, overlapped>>

\* Mutation: the version is registered before its objects are uploaded.
CallbackEarly ==
    /\ pipeline.next \in {"archive", "callback"}
    /\ registered' = registered \cup {pipeline.version}
    /\ UNCHANGED <<store, pipeline, dirs, query, overlapped>>

\* handle_index_callback records the version.
Callback ==
    /\ pipeline.next = "callback"
    /\ registered' = registered \cup {pipeline.version}
    /\ pipeline' = [pipeline EXCEPT !.next = "none"]
    /\ UNCHANGED <<store, dirs, query, overlapped>>

\* Any command fails and ends the script.
BuildFails ==
    /\ pipeline.next # "none"
    /\ pipeline' = [pipeline EXCEPT !.next = "none"]
    /\ UNCHANGED <<store, registered, dirs, query, overlapped>>

-----------------------------------------------------------------------------
(* Queries. *)

PreparesWith(q, v) == \E other \in Queries \ {q} : query[other].pc \in Preparing /\ query[other].version = v

\* A query for a version that is known, which the adapter that calls the worker sees
\* to; a directory without .ready is prepared.
Begin(q) ==
    /\ query[q].pc = "idle"
    /\ \E v \in registered :
          /\ query' = [query EXCEPT ![q] = At(IF dirs[v].ready THEN "run" ELSE "archive", v)]
          /\ overlapped' = IF ~dirs[v].ready /\ PreparesWith(q, v) THEN overlapped \cup {v}
                           ELSE overlapped
    /\ UNCHANGED <<store, pipeline, registered, dirs>>

DownloadArchive(q) ==
    LET v == query[q].version IN
    /\ query[q].pc = "archive"
    /\ dirs' = [dirs EXCEPT ![v].archive = store["archive"]]
    /\ Go(q, "sha")
    /\ UNCHANGED <<store, pipeline, registered, overlapped>>

\* The status is downloaded when the request names its object.
DownloadSha(q) ==
    LET v == query[q].version IN
    /\ query[q].pc = "sha"
    /\ dirs' = [dirs EXCEPT ![v].sha = store["sha"]]
    /\ \E pc \in {"status", "verify"} : Go(q, pc)
    /\ UNCHANGED <<store, pipeline, registered, overlapped>>

DownloadStatus(q) ==
    LET v == query[q].version IN
    /\ query[q].pc = "status"
    /\ dirs' = [dirs EXCEPT ![v].files[StatusFile] = store["status"]]
    /\ Go(q, "verify")
    /\ UNCHANGED <<store, pipeline, registered, overlapped>>

\* The digest that was downloaded is the archive's that is there now.
Verify(q) ==
    LET v == query[q].version IN
    /\ query[q].pc = "verify"
    /\ dirs[v].sha = dirs[v].archive
    /\ Go(q, "open")
    /\ UNCHANGED <<store, pipeline, registered, dirs, overlapped>>

\* The archive is opened by its name.
OpenArchive(q) ==
    LET v == query[q].version IN
    /\ query[q].pc = "open"
    /\ query' = [query EXCEPT ![q].pc = "extract", ![q].opened = dirs[v].archive]
    /\ UNCHANGED <<store, pipeline, registered, dirs, overlapped>>

Writes(other, v, p) == query[other].pc = "write" /\ query[other].version = v /\ query[other].at = p
Writers(q, v, p) == {other \in Queries \ {q} : Writes(other, v, p)}

\* Mutation: a file that is there already is kept.
ExtractMissing(q) ==
    LET r == query[q] IN
    /\ r.pc = "extract" /\ r.at <= Members
    /\ IF dirs[r.version].files[r.at] \in Versions
         THEN /\ query' = [query EXCEPT ![q].at = @ + 1]
              /\ UNCHANGED dirs
         ELSE /\ dirs' = [dirs EXCEPT ![r.version].files[r.at] = Torn]
              /\ Go(q, "write")
    /\ UNCHANGED <<store, pipeline, registered, overlapped>>

\* Mutation: one file too many is expected.
ExtractPast(q) ==
    LET r == query[q] IN
    /\ r.pc = "extract"
    /\ dirs' = [dirs EXCEPT ![r.version].files[r.at] = Torn]
    /\ Go(q, "write")
    /\ UNCHANGED <<store, pipeline, registered, overlapped>>

\* The next file is emptied ...
Extract(q) ==
    LET r == query[q] IN
    /\ r.pc = "extract" /\ r.at <= Members
    /\ dirs' = [dirs EXCEPT ![r.version].files[r.at] =
                  IF \E other \in Writers(q, r.version, r.at) : query[other].opened # r.opened
                  THEN Mixed ELSE Torn]
    /\ Go(q, "write")
    /\ UNCHANGED <<store, pipeline, registered, overlapped>>

\* ... and written; it is whole when nobody else writes it, and never was while
\* another build was written to it.
Write(q) ==
    LET r == query[q] IN
    /\ r.pc = "write"
    /\ dirs' = [dirs EXCEPT ![r.version].files[r.at] =
                  IF @ = Mixed \/ Writers(q, r.version, r.at) # {} THEN @ ELSE r.opened]
    /\ query' = [query EXCEPT ![q].pc = "extract", ![q].at = @ + 1]
    /\ UNCHANGED <<store, pipeline, registered, overlapped>>

\* Mutation: the directory is marked before the last file is extracted.
MarkEarly(q) ==
    LET r == query[q] IN
    /\ r.pc = "extract" /\ r.at >= Members
    /\ dirs' = [dirs EXCEPT ![r.version].ready = TRUE]
    /\ query' = [query EXCEPT ![q] = At("run", r.version)]
    /\ UNCHANGED <<store, pipeline, registered, overlapped>>

Mark(q) ==
    LET r == query[q] IN
    /\ r.pc = "extract" /\ r.at > Members
    /\ dirs' = [dirs EXCEPT ![r.version].ready = TRUE]
    /\ query' = [query EXCEPT ![q] = At("run", r.version)]
    /\ UNCHANGED <<store, pipeline, registered, overlapped>>

\* _run_codegraph reads the index; a torn one may fail, or not.
RunCodegraph(q) ==
    LET d == dirs[query[q].version] IN
    /\ query[q].pc = "run"
    /\ query' = [query EXCEPT ![q].pc = "read", ![q].result = d.files[1]]
    /\ UNCHANGED <<store, pipeline, registered, dirs, overlapped>>

\* _read_status: a torn status is an error, a missing one is not.
ReadStatus(q) ==
    LET d == dirs[query[q].version] IN
    /\ query[q].pc = "read" /\ d.files[StatusFile] \in Some
    /\ query' = [query EXCEPT ![q].pc = "answer", ![q].status = d.files[StatusFile]]
    /\ UNCHANGED <<store, pipeline, registered, dirs, overlapped>>

\* The answer is sent, an error raised, or the process ends.
End(q) ==
    /\ query[q].pc # "idle"
    /\ query' = [query EXCEPT ![q] = Idle]
    /\ UNCHANGED <<store, pipeline, registered, dirs, overlapped>>

-----------------------------------------------------------------------------

Init ==
    /\ store = [o \in Objects |-> 0]
    /\ pipeline = [build |-> 0, version |-> 0, next |-> "none"]
    /\ registered = {}
    /\ dirs = [v \in Versions |-> EmptyDir]
    /\ query = [q \in Queries |-> Idle]
    /\ overlapped = {}

Step(q) ==
    \/ Begin(q) \/ DownloadArchive(q) \/ DownloadSha(q) \/ DownloadStatus(q) \/ Verify(q)
    \/ OpenArchive(q) \/ Extract(q) \/ Write(q) \/ Mark(q)
    \/ RunCodegraph(q) \/ ReadStatus(q) \/ End(q)

Next == Build \/ Upload \/ Callback \/ BuildFails \/ \E q \in Queries : Step(q)

Spec == Init /\ [][Next]_vars

-----------------------------------------------------------------------------
(* Properties. *)

TypeOK ==
    /\ store \in [Objects -> Some]
    /\ pipeline \in [build : Some, version : Some, next : Objects \cup {"callback", "none"}]
    /\ pipeline.next # "none" => pipeline.version \in Versions
    /\ registered \subseteq Versions /\ overlapped \subseteq Versions
    /\ dirs \in [Versions -> Dirs]
    /\ query \in [Queries -> Runs]
    /\ \A q \in Queries :
          /\ query[q].pc # "idle" => query[q].version \in Versions
          /\ query[q].pc = "write" => query[q].at \in Positions

\* .ready stands for a whole index: that of the archive whose digest was compared,
\* whatever query or build stopped half way before and whatever a build replaced
\* between two downloads, unless two queries prepared the directory at once.
ReadyIsVerified ==
    \A v \in Versions \ overlapped : dirs[v].ready =>
        /\ dirs[v].sha = dirs[v].archive
        /\ \A p \in Positions : dirs[v].files[p] = dirs[v].archive

\* An answer puts the result and the status of one build together.
AnswerIsOfOneBuild ==
    \A q \in Queries :
        query[q].pc = "answer" /\ query[q].version \notin overlapped =>
            query[q].result = query[q].status /\ query[q].result \in Versions

\* Whatever overlaps, no file of a version is of an earlier build.
NeverOlder ==
    \A v \in Versions, p \in Positions : dirs[v].files[p] \in Versions => dirs[v].files[p] >= v

\* The README: the worker caches prepared indexes.  What is marked prepared, and no
\* query is writing, has every file whole.
MarkedIsPrepared ==
    \A v \in Versions :
        dirs[v].ready /\ (\A q \in Queries : query[q].pc \in Preparing => query[q].version # v)
            => \A p \in Positions : dirs[v].files[p] \in Versions
=============================================================================
