------------------------ MODULE CodegraphCacheProofs ------------------------
(* A directory two queries never prepared at once is marked ready with the   *)
(* verified index only, and none is filled with an earlier build, for any    *)
(* number of queries, builds and files.                                      *)
EXTENDS CodegraphCache, TLAPS

USE BuildsAreCounted, StatusIsAMember, BrokenIsNoBuild

\* What is registered is uploaded, whatever the build in progress replaced.
StoreOK ==
    /\ \A v \in registered, o \in Objects : store[o] >= v
    /\ \A o \in Objects : store[o] <= pipeline.build
    /\ pipeline.next # "none" => pipeline.version \in 1 .. pipeline.build
    /\ pipeline.next \in {"status", "sha", "callback"} => store["archive"] = pipeline.build
    /\ pipeline.next \in {"sha", "callback"} => store["status"] = pipeline.build
    /\ pipeline.next = "callback" => store["sha"] = pipeline.build

\* What a query of version v holds is no older.
FreshQuery(r, d) ==
    /\ r.pc # "idle" => r.version \in registered
    /\ r.pc \in Preparing \ {"archive"} => d.archive >= r.version
    /\ r.pc \in {"extract", "write"} => r.opened >= r.version

FreshDir(d, v) ==
    /\ d.archive # 0 => d.archive >= v
    /\ d.ready => d.archive >= v
    /\ \A p \in Positions : d.files[p] \in Versions => d.files[p] >= v

FreshInv ==
    /\ StoreOK
    /\ \A q \in Queries : FreshQuery(query[q], dirs[query[q].version])
    /\ \A v \in Versions : FreshDir(dirs[v], v)

-----------------------------------------------------------------------------
(* Types. *)

LEMMA InitType == Init => TypeOK
BY DEF Init, TypeOK, Versions, Some, Objects, Positions, Dirs, EmptyDir, Preparing, Pcs, Runs, Idle, At

\* The builds do not touch directories and queries.
LEMMA BuildType ==
    ASSUME TypeOK, Build \/ Upload \/ Callback \/ BuildFails
    PROVE  TypeOK'
<1>1. CASE Build
  BY <1>1 DEF TypeOK, Build, Versions, Some, Objects
<1>2. CASE Upload
  BY <1>2 DEF TypeOK, Upload, After, Versions, Some, Objects
<1>3. CASE Callback
  BY <1>3 DEF TypeOK, Callback, Versions, Some, Objects
<1>4. CASE BuildFails
  BY <1>4 DEF TypeOK, BuildFails, Versions, Some, Objects
<1>5. QED
  BY <1>1, <1>2, <1>3, <1>4

LEMMA AtStart ==
    ASSUME NEW pc \in Pcs, NEW v \in Versions
    PROVE  At(pc, v) \in Runs /\ At(pc, v).pc = pc /\ At(pc, v).version = v
<1>1. v \in Some /\ 0 \in Some /\ 1 \in 1 .. Members + 1
  BY DEF Some, Versions
<1>2. QED
  BY <1>1 DEF At, Runs

\* A step of q alone, to r, with the directory d.
StepTo(q, r, d) ==
    /\ query' = [query EXCEPT ![q] = r]
    /\ dirs' = [dirs EXCEPT ![query[q].version] = d]
    /\ UNCHANGED <<store, pipeline, registered>>

LEMMA StepType ==
    ASSUME TypeOK, NEW q \in Queries, NEW r \in Runs, NEW d \in Dirs, StepTo(q, r, d),
           r.pc # "idle" => r.version \in Versions,
           r.pc = "write" => r.at \in Positions,
           overlapped' \subseteq Versions
    PROVE  TypeOK'
BY DEF TypeOK, StepTo

\* The step of q that is not Begin: its version stays, or it ends.
Moves(q) == DownloadArchive(q) \/ DownloadSha(q) \/ DownloadStatus(q) \/ Verify(q)
            \/ OpenArchive(q) \/ Extract(q) \/ Write(q) \/ Mark(q) \/ RunCodegraph(q)
            \/ ReadStatus(q)

\* What such a step makes of a query s and its directory c; alone: nobody else writes
\* the file s writes.
SameFiles(c, d, p) == \A o \in Positions \ {p} : d.files[o] = c.files[o]
SameDir(c, d) == d.ready = c.ready /\ d.archive = c.archive /\ d.sha = c.sha

Made(s, c, r, d, alone) ==
    /\ s.pc = "archive" =>
          /\ r.pc = "sha" /\ r.at = s.at /\ d.ready = c.ready /\ d.files = c.files
          /\ d.archive = store["archive"]
    /\ s.pc = "sha" =>
          /\ r.pc \in {"status", "verify"} /\ r.at = s.at /\ d.ready = c.ready /\ d.files = c.files
          /\ d.archive = c.archive
    /\ s.pc = "status" =>
          /\ r.pc = "verify" /\ r.at = s.at /\ SameDir(c, d)
          /\ SameFiles(c, d, StatusFile) /\ d.files[StatusFile] = store["status"]
    /\ s.pc = "verify" => r.pc = "open" /\ r.at = s.at /\ d = c /\ c.sha = c.archive
    /\ s.pc = "open" => r.pc = "extract" /\ r.at = s.at /\ d = c /\ r.opened = c.archive
    /\ s.pc = "extract" =>
          \/ /\ r.pc = "write" /\ r.at = s.at /\ r.opened = s.opened /\ SameDir(c, d)
             /\ SameFiles(c, d, s.at) /\ d.files[s.at] \in {Torn, Mixed}
             /\ alone => d.files[s.at] = Torn
          \/ /\ s.at > Members /\ r.pc = "run" /\ d.ready
             /\ d.files = c.files /\ d.archive = c.archive /\ d.sha = c.sha
    /\ s.pc = "write" =>
          /\ r.pc = "extract" /\ r.at = s.at + 1 /\ r.opened = s.opened /\ SameDir(c, d)
          /\ SameFiles(c, d, s.at) /\ d.files[s.at] \in {c.files[s.at], s.opened}
          /\ alone /\ c.files[s.at] # Mixed => d.files[s.at] = s.opened
    /\ s.pc = "run" => r.pc = "read" /\ d = c /\ r.result = c.files[1]
    /\ s.pc = "read" =>
          r.pc = "answer" /\ d = c /\ r.result = s.result /\ r.status = c.files[StatusFile]

Alone(q) == Writers(q, query[q].version, query[q].at) = {}

LEMMA MoveSteps ==
    ASSUME TypeOK, NEW q \in Queries, Moves(q)
    PROVE  /\ query[q].pc # "idle" /\ query[q].version \in Versions
           /\ UNCHANGED overlapped
           /\ \E r \in Runs, d \in Dirs :
                 /\ StepTo(q, r, d)
                 /\ r.pc \notin {"idle", "archive"} /\ r.version = query[q].version
                 /\ r.pc = "write" => r.at \in Positions
                 /\ Made(query[q], dirs[query[q].version], r, d, Alone(q))
<1>1. query[q] \in Runs /\ query \in [Queries -> Runs] /\ dirs \in [Versions -> Dirs]
  BY DEF TypeOK
<1>2. query[q].pc # "idle" /\ UNCHANGED overlapped
  BY DEF Moves, DownloadArchive, DownloadSha, DownloadStatus, Verify, OpenArchive, Extract, Write,
         Mark, RunCodegraph, ReadStatus
<1>3. query[q].version \in Versions
  BY <1>2 DEF TypeOK
<1> DEFINE v == query[q].version
           s == query[q]
           c == dirs[v]
<1>4. c \in Dirs /\ s \in Runs
  BY <1>1, <1>3
<1>5. CASE DownloadArchive(q)
  <2>1. store["archive"] \in Some
    BY DEF TypeOK, Objects
  <2>2. [c EXCEPT !.archive = store["archive"]] \in Dirs /\ [s EXCEPT !.pc = "sha"] \in Runs
    BY <1>4, <2>1 DEF Dirs, Runs, Pcs, Preparing
  <2>3. StepTo(q, [s EXCEPT !.pc = "sha"], [c EXCEPT !.archive = store["archive"]])
    BY <1>1, <1>3, <1>5 DEF DownloadArchive, StepTo, Go
  <2>4. Made(s, c, [s EXCEPT !.pc = "sha"], [c EXCEPT !.archive = store["archive"]], Alone(q))
    BY <1>4, <1>5 DEF DownloadArchive, Made, SameFiles, SameDir, Dirs, Runs, StatusFile, Positions
  <2>5. QED
    BY <1>2, <1>3, <1>4, <2>2, <2>3, <2>4 DEF Runs
<1>6. CASE DownloadSha(q)
  <2>1. store["sha"] \in Some
    BY DEF TypeOK, Objects
  <2>2. PICK pc \in {"status", "verify"} : Go(q, pc)
    BY <1>6 DEF DownloadSha
  <2>3. [c EXCEPT !.sha = store["sha"]] \in Dirs /\ [s EXCEPT !.pc = pc] \in Runs
    BY <1>4, <2>1 DEF Dirs, Runs, Pcs, Preparing
  <2>4. StepTo(q, [s EXCEPT !.pc = pc], [c EXCEPT !.sha = store["sha"]])
    BY <1>1, <1>3, <1>6, <2>2 DEF DownloadSha, StepTo, Go
  <2>5. Made(s, c, [s EXCEPT !.pc = pc], [c EXCEPT !.sha = store["sha"]], Alone(q))
    BY <1>4, <1>6, <2>2 DEF DownloadSha, Made, SameFiles, SameDir, Dirs, Runs, StatusFile, Positions
  <2>6. QED
    BY <1>2, <1>3, <1>4, <2>3, <2>4, <2>5 DEF Runs
<1>7. CASE DownloadStatus(q)
  <2>1. store["status"] \in Some
    BY DEF TypeOK, Objects
  <2>2. [c EXCEPT !.files[StatusFile] = store["status"]] \in Dirs /\ [s EXCEPT !.pc = "verify"] \in Runs
    BY <1>4, <1>7, <2>1 DEF DownloadStatus, Dirs, Runs, Pcs, Preparing, Positions, StatusFile
  <2>3. StepTo(q, [s EXCEPT !.pc = "verify"], [c EXCEPT !.files[StatusFile] = store["status"]])
    BY <1>1, <1>3, <1>7 DEF DownloadStatus, StepTo, Go
  <2>4. Made(s, c, [s EXCEPT !.pc = "verify"], [c EXCEPT !.files[StatusFile] = store["status"]], Alone(q))
    BY <1>4, <1>7 DEF DownloadStatus, Made, SameFiles, SameDir, Dirs, Runs, StatusFile, Positions
  <2>5. QED
    BY <1>2, <1>3, <1>4, <1>7, <2>2, <2>3, <2>4 DEF DownloadStatus, Runs, Positions
<1>8. CASE Verify(q)
  <2>2. c \in Dirs /\ [s EXCEPT !.pc = "open"] \in Runs
    BY <1>4, <1>8 DEF Verify, Dirs, Runs, Pcs, Preparing
  <2>3. StepTo(q, [s EXCEPT !.pc = "open"], c)
    BY <1>1, <1>3, <1>8 DEF Verify, StepTo, Go
  <2>4. Made(s, c, [s EXCEPT !.pc = "open"], c, Alone(q))
    BY <1>4, <1>8 DEF Verify, Made, SameFiles, SameDir, Dirs, Runs, StatusFile, Positions
  <2>5. QED
    BY <1>2, <1>3, <1>4, <1>8, <2>2, <2>3, <2>4 DEF Verify, Runs, Positions
<1>9. CASE OpenArchive(q)
  <2>2. c \in Dirs /\ [s EXCEPT !.pc = "extract", !.opened = c.archive] \in Runs
    BY <1>4, <1>9 DEF OpenArchive, Dirs, Runs, Pcs, Preparing
  <2>3. StepTo(q, [s EXCEPT !.pc = "extract", !.opened = c.archive], c)
    BY <1>1, <1>3, <1>9 DEF OpenArchive, StepTo, Go
  <2>4. Made(s, c, [s EXCEPT !.pc = "extract", !.opened = c.archive], c, Alone(q))
    BY <1>4, <1>9 DEF OpenArchive, Made, SameFiles, SameDir, Dirs, Runs, StatusFile, Positions
  <2>5. QED
    BY <1>2, <1>3, <1>4, <1>9, <2>2, <2>3, <2>4 DEF OpenArchive, Runs, Positions
<1>10. CASE Extract(q)
  <2> DEFINE x == IF \E other \in Writers(q, s.version, s.at) : query[other].opened # s.opened
                  THEN Mixed ELSE Torn
  <2>1. x \in {Mixed, Torn} /\ (Alone(q) => x = Torn)
    BY DEF Alone
  <2> HIDE DEF x
  <2>2. [c EXCEPT !.files[s.at] = x] \in Dirs /\ [s EXCEPT !.pc = "write"] \in Runs
    BY <1>4, <2>1 DEF Dirs, Runs, Pcs, Preparing
  <2>3. dirs' = [dirs EXCEPT ![v] = [c EXCEPT !.files[s.at] = x]]
    BY <1>1, <1>3, <1>10 DEF Extract, x
  <2>4. StepTo(q, [s EXCEPT !.pc = "write"], [c EXCEPT !.files[s.at] = x])
    BY <1>1, <1>10, <2>3 DEF Extract, StepTo, Go
  <2>5. s.at \in Positions
    BY <1>4, <1>10 DEF Extract, Runs, Positions
  <2>6. Made(s, c, [s EXCEPT !.pc = "write"], [c EXCEPT !.files[s.at] = x], Alone(q))
    BY <1>4, <1>10, <2>1, <2>5 DEF Extract, Made, SameFiles, SameDir, Dirs, Runs, StatusFile, Positions
  <2>7. QED
    BY <1>2, <1>3, <1>4, <2>2, <2>4, <2>5, <2>6 DEF Runs
<1>11. CASE Write(q)
  <2> DEFINE x == IF c.files[s.at] = Mixed \/ Writers(q, s.version, s.at) # {}
                  THEN c.files[s.at] ELSE s.opened
  <2>1. s.at \in Positions
    BY <1>11 DEF TypeOK, Write
  <2>2. x \in Some \cup {Torn, Mixed}
    BY <1>4, <2>1 DEF Dirs, Runs
  <2>3. x \in {c.files[s.at], s.opened} /\ (Alone(q) /\ c.files[s.at] # Mixed => x = s.opened)
    BY DEF Alone
  <2>4. dirs' = [dirs EXCEPT ![v] = [c EXCEPT !.files[s.at] = x]]
    BY <1>1, <1>3, <1>11 DEF Write
  <2> HIDE DEF x
  <2>5. [c EXCEPT !.files[s.at] = x] \in Dirs
    BY <1>4, <2>2 DEF Dirs
  <2>6. [s EXCEPT !.pc = "extract", !.at = @ + 1] \in Runs
    <3>1. s.at + 1 \in 1 .. Members + 1 /\ "extract" \in Pcs
      BY <2>1 DEF Positions, Pcs, Preparing
    <3>2. QED
      BY <1>4, <3>1 DEF Runs
  <2>7. StepTo(q, [s EXCEPT !.pc = "extract", !.at = @ + 1], [c EXCEPT !.files[s.at] = x])
    BY <1>1, <1>11, <2>4 DEF Write, StepTo
  <2>8. Made(s, c, [s EXCEPT !.pc = "extract", !.at = @ + 1], [c EXCEPT !.files[s.at] = x], Alone(q))
    BY <1>4, <1>11, <2>1, <2>2, <2>3 DEF Write, Made, SameFiles, SameDir, Dirs, Runs, StatusFile, Positions
  <2>9. QED
    BY <1>2, <1>3, <1>4, <2>5, <2>6, <2>7, <2>8 DEF Runs
<1>12. CASE Mark(q)
  <2>1. [c EXCEPT !.ready = TRUE] \in Dirs
    BY <1>4 DEF Dirs
  <2>2. At("run", v) \in Runs
    BY <1>3, AtStart DEF Pcs
  <2>3. StepTo(q, At("run", v), [c EXCEPT !.ready = TRUE])
    BY <1>1, <1>3, <1>12 DEF Mark, StepTo
  <2>4. Made(s, c, At("run", v), [c EXCEPT !.ready = TRUE], Alone(q))
    BY <1>4, <1>12 DEF Mark, At, Made, SameFiles, SameDir, Dirs, Runs, StatusFile, Positions
  <2>5. QED
    BY <1>2, <1>3, <2>1, <2>2, <2>3, <2>4 DEF At
<1>13. CASE RunCodegraph(q)
  <2>1. c.files[1] \in Some \cup {Torn, Mixed}
    BY <1>4 DEF Dirs, Positions
  <2>2. [s EXCEPT !.pc = "read", !.result = c.files[1]] \in Runs
    BY <1>4, <2>1 DEF Runs, Pcs
  <2>3. StepTo(q, [s EXCEPT !.pc = "read", !.result = c.files[1]], c)
    BY <1>1, <1>3, <1>13 DEF RunCodegraph, StepTo
  <2>4. Made(s, c, [s EXCEPT !.pc = "read", !.result = c.files[1]], c, Alone(q))
    BY <1>4, <1>13 DEF RunCodegraph, Made, SameFiles, SameDir, Dirs, Runs, StatusFile, Positions
  <2>5. QED
    BY <1>2, <1>3, <1>4, <2>2, <2>3, <2>4 DEF Runs
<1>14. CASE ReadStatus(q)
  <2>1. [s EXCEPT !.pc = "answer", !.status = c.files[StatusFile]] \in Runs
    BY <1>4, <1>14 DEF ReadStatus, Runs, Pcs
  <2>2. StepTo(q, [s EXCEPT !.pc = "answer", !.status = c.files[StatusFile]], c)
    BY <1>1, <1>3, <1>14 DEF ReadStatus, StepTo
  <2>3. Made(s, c, [s EXCEPT !.pc = "answer", !.status = c.files[StatusFile]], c, Alone(q))
    BY <1>4, <1>14 DEF ReadStatus, Made, SameFiles, SameDir, Dirs, Runs, StatusFile, Positions
  <2>4. QED
    BY <1>2, <1>3, <1>4, <2>1, <2>2, <2>3 DEF Runs
<1>20. QED
  BY <1>5, <1>6, <1>7, <1>8, <1>9, <1>10, <1>11, <1>12, <1>13, <1>14 DEF Moves

LEMMA BeginSteps ==
    ASSUME TypeOK, NEW q \in Queries, Begin(q)
    PROVE  \E v \in registered :
              /\ query[q].pc = "idle" /\ v \in Versions
              /\ query' = [query EXCEPT ![q] = At(IF dirs[v].ready THEN "run" ELSE "archive", v)]
              /\ query'[q] \in Runs
              /\ UNCHANGED <<store, pipeline, registered, dirs>>
              /\ overlapped' \in {overlapped, overlapped \cup {v}}
              /\ ~dirs[v].ready /\ PreparesWith(q, v) => v \in overlapped'
<1>1. PICK v \in registered :
          /\ query' = [query EXCEPT ![q] = At(IF dirs[v].ready THEN "run" ELSE "archive", v)]
          /\ overlapped' = IF ~dirs[v].ready /\ PreparesWith(q, v) THEN overlapped \cup {v}
                           ELSE overlapped
  BY DEF Begin
<1>2. v \in Versions
  BY DEF TypeOK
<1>3. query'[q] \in Runs
  BY <1>1, <1>2, AtStart DEF TypeOK, Pcs, Preparing
<1>4. QED
  BY <1>1, <1>2, <1>3 DEF Begin

LEMMA NextType == TypeOK /\ [Next]_vars => TypeOK'
<1> SUFFICES ASSUME TypeOK, [Next]_vars PROVE TypeOK'
  OBVIOUS
<1>1. CASE Build \/ Upload \/ Callback \/ BuildFails
  BY <1>1, BuildType
<1>2. ASSUME NEW q \in Queries, Begin(q) PROVE TypeOK'
  <2>1. PICK v \in registered :
            /\ v \in Versions
            /\ query' = [query EXCEPT ![q] = At(IF dirs[v].ready THEN "run" ELSE "archive", v)]
            /\ query'[q] \in Runs
            /\ UNCHANGED <<store, pipeline, registered, dirs>>
            /\ overlapped' \in {overlapped, overlapped \cup {v}}
    BY <1>2, BeginSteps
  <2>2. query' \in [Queries -> Runs]
    BY <2>1 DEF TypeOK
  <2>3. query'[q].version = v /\ query'[q].pc # "write"
    <3> DEFINE pc == IF dirs[v].ready THEN "run" ELSE "archive"
    <3>1. pc \in Pcs /\ pc # "write"
      BY DEF Pcs, Preparing
    <3>2. query'[q] = At(pc, v)
      BY <2>1 DEF TypeOK
    <3> HIDE DEF pc
    <3>3. QED
      BY <2>1, <3>1, <3>2, AtStart
  <2>4. QED
    BY <2>1, <2>2, <2>3 DEF TypeOK
<1>3. ASSUME NEW q \in Queries, Moves(q) PROVE TypeOK'
  <2>1. PICK r \in Runs, d \in Dirs :
            /\ StepTo(q, r, d)
            /\ r.pc \notin {"idle", "archive"} /\ r.version = query[q].version
            /\ r.pc = "write" => r.at \in Positions
    BY <1>3, MoveSteps
  <2>2. r.version \in Versions /\ overlapped' \subseteq Versions
    BY <1>3, <2>1, MoveSteps DEF TypeOK
  <2>3. QED
    BY <2>1, <2>2, StepType
<1>4. ASSUME NEW q \in Queries, End(q) PROVE TypeOK'
  <2>1. Idle \in Runs
    BY DEF Idle, At, Runs, Pcs, Some
  <2>2. QED
    BY <1>4, <2>1 DEF End, TypeOK, Idle, At
<1>5. CASE UNCHANGED vars
  BY <1>5 DEF vars, TypeOK
<1>6. QED
  BY <1>1, <1>2, <1>3, <1>4, <1>5 DEF Next, Step, Moves

\* Objects, directories and queries have their types, and no query writes a file
\* its archive does not have.
THEOREM TypeCorrect == Spec => []TypeOK
<1>1. Init => TypeOK
  BY InitType
<1>2. TypeOK /\ [Next]_vars => TypeOK'
  BY NextType
<1>3. QED
  BY <1>1, <1>2, PTL DEF Spec

-----------------------------------------------------------------------------
(* Nothing is older than its version. *)

LEMMA InitFresh == Init => FreshInv
BY DEF Init, FreshInv, StoreOK, FreshQuery, FreshDir, Idle, At, EmptyDir, Preparing, Objects, Versions

\* A build only raises what is stored.
LEMMA StoreRises ==
    ASSUME TypeOK, StoreOK, Build \/ Upload \/ Callback \/ BuildFails
    PROVE  StoreOK' /\ registered \subseteq registered' /\ UNCHANGED <<dirs, query, overlapped>>
<1> USE DEF StoreOK, TypeOK
<1>1. CASE Build
  BY <1>1 DEF Build, Some
<1>2. CASE Upload
  BY <1>2 DEF Upload, After, Objects, Some, Versions
<1>3. CASE Callback
  BY <1>3 DEF Callback, Objects, Some, Versions
<1>4. CASE BuildFails
  BY <1>4 DEF BuildFails
<1>5. QED
  BY <1>1, <1>2, <1>3, <1>4

LEMMA MadeFresh ==
    ASSUME TypeOK, StoreOK, NEW s \in Runs, NEW c \in Dirs, NEW r \in Runs, NEW d \in Dirs,
           NEW alone \in BOOLEAN, Made(s, c, r, d, alone), s.pc # "idle", s.pc # "answer",
           r.version = s.version, s.version \in Versions, r.pc # "archive",
           FreshQuery(s, c), FreshDir(c, s.version)
    PROVE  /\ FreshQuery(r, d) /\ FreshDir(d, s.version)
           /\ c.archive >= s.version => d.archive >= s.version
<1>1. s.version \in registered /\ \A o \in Objects : store[o] >= s.version
  BY DEF FreshQuery, StoreOK
<1>2. /\ store["archive"] >= s.version /\ store["status"] >= s.version
      /\ s.version \in Nat /\ c.archive \in Nat
      /\ \A p \in Positions : c.files[p] \in Versions => c.files[p] >= s.version
  BY <1>1 DEF Objects, Versions, Dirs, Some, FreshDir
<1>3. CASE s.pc \in {"archive", "sha"}
  BY <1>1, <1>2, <1>3 DEF Made, FreshQuery, FreshDir, Preparing
<1>4. CASE s.pc = "status"
  <2>1. FreshQuery(r, d)
    BY <1>1, <1>2, <1>4 DEF Made, SameDir, FreshQuery, Preparing
  <2>2. \A p \in Positions : d.files[p] \in Versions => d.files[p] >= s.version
    BY <1>2, <1>4 DEF Made, SameFiles
  <2>3. QED
    BY <1>4, <2>1, <2>2 DEF Made, SameDir, FreshDir
<1>5. CASE s.pc \in {"verify", "open", "run", "read"}
  BY <1>1, <1>2, <1>5 DEF Made, FreshQuery, FreshDir, Preparing
<1>6. CASE s.pc = "extract"
  <2>1. FreshQuery(r, d)
    BY <1>1, <1>2, <1>6 DEF Made, SameDir, FreshQuery, Preparing
  <2>2. \A p \in Positions : d.files[p] \in Versions => d.files[p] >= s.version
    BY <1>2, <1>6 DEF Made, SameFiles, Versions
  <2>3. QED
    BY <1>2, <1>6, <2>2 DEF Made, SameDir, FreshDir, FreshQuery, Preparing
<1>7. CASE s.pc = "write"
  <2>1. FreshQuery(r, d)
    BY <1>1, <1>2, <1>7 DEF Made, SameDir, FreshQuery, Preparing
  <2>2. s.opened >= s.version
    BY <1>7 DEF FreshQuery
  <2>3. \A p \in Positions : d.files[p] \in Versions => d.files[p] >= s.version
    BY <1>2, <1>7, <2>2 DEF Made, SameFiles
  <2>4. QED
    BY <1>7, <2>1, <2>3 DEF Made, SameDir, FreshDir
<1>8. s.pc \in Pcs
  BY DEF Runs
<1>9. c.archive >= s.version => d.archive >= s.version
  BY <1>2, <1>8 DEF Made, SameDir, Pcs, Preparing
<1>10. QED
  BY <1>3, <1>4, <1>5, <1>6, <1>7, <1>8, <1>9 DEF Pcs, Preparing

\* Directories and queries once q has made its step.
LEMMA OthersAfter ==
    ASSUME TypeOK, NEW q \in Queries, NEW r \in Runs, NEW d \in Dirs, StepTo(q, r, d),
           query[q].version \in Versions
    PROVE  /\ query'[q] = r /\ dirs'[query[q].version] = d
           /\ \A o \in Queries \ {q} : query'[o] = query[o]
           /\ \A v \in Versions \ {query[q].version} : dirs'[v] = dirs[v]
           /\ registered' = registered
BY DEF TypeOK, StepTo

LEMMA NextFresh == TypeOK /\ FreshInv /\ [Next]_vars => FreshInv'
<1> SUFFICES ASSUME TypeOK, FreshInv, [Next]_vars PROVE FreshInv'
  OBVIOUS
<1>1. CASE Build \/ Upload \/ Callback \/ BuildFails
  <2>1. StoreOK
    BY DEF FreshInv
  <2>2. StoreOK' /\ registered \subseteq registered' /\ UNCHANGED <<dirs, query>>
    BY <1>1, <2>1, StoreRises
  <2>3. \A q \in Queries : FreshQuery(query[q], dirs[query[q].version])'
    BY <2>2 DEF FreshInv, FreshQuery
  <2>4. QED
    BY <2>2, <2>3 DEF FreshInv, FreshDir
<1>2. ASSUME NEW q \in Queries, Begin(q) PROVE FreshInv'
  <2>1. PICK v \in registered :
            /\ v \in Versions
            /\ query' = [query EXCEPT ![q] = At(IF dirs[v].ready THEN "run" ELSE "archive", v)]
            /\ UNCHANGED <<store, pipeline, registered, dirs>>
    BY <1>2, BeginSteps
  <2>2. FreshQuery(query[q], dirs[query[q].version])'
    BY <2>1 DEF TypeOK, FreshQuery, At, Preparing
  <2>3. \A o \in Queries \ {q} : query'[o] = query[o]
    BY <2>1 DEF TypeOK
  <2>4. \A o \in Queries : FreshQuery(query[o], dirs[query[o].version])'
    BY <2>1, <2>2, <2>3 DEF FreshInv, FreshQuery
  <2>5. QED
    BY <2>1, <2>4 DEF FreshInv, StoreOK, FreshDir
<1>3. ASSUME NEW q \in Queries, Moves(q) PROVE FreshInv'
  <2> DEFINE s == query[q]
             c == dirs[s.version]
  <2>1. PICK r \in Runs, d \in Dirs :
            /\ StepTo(q, r, d)
            /\ r.pc \notin {"idle", "archive"} /\ r.version = query[q].version
            /\ Made(query[q], dirs[query[q].version], r, d, Alone(q))
    BY <1>3, MoveSteps
  <2>2. s.pc # "idle" /\ s.version \in Versions /\ s \in Runs /\ c \in Dirs
    BY <1>3, MoveSteps DEF TypeOK
  <2>3. s.pc # "answer"
    BY <1>3 DEF Moves, DownloadArchive, DownloadSha, DownloadStatus, Verify, OpenArchive, Extract,
                Write, Mark, RunCodegraph, ReadStatus
  <2>4. StoreOK /\ FreshQuery(s, c) /\ FreshDir(c, s.version)
    BY <2>2 DEF FreshInv
  <2>5. Alone(q) \in BOOLEAN
    BY DEF Alone
  <2>6. /\ FreshQuery(r, d) /\ FreshDir(d, s.version)
        /\ c.archive >= s.version => d.archive >= s.version
    BY <2>1, <2>2, <2>3, <2>4, <2>5, MadeFresh
  <2>7. /\ query'[q] = r /\ dirs'[s.version] = d
        /\ \A o \in Queries \ {q} : query'[o] = query[o]
        /\ \A v \in Versions \ {s.version} : dirs'[v] = dirs[v]
        /\ registered' = registered
    BY <2>1, <2>2, OthersAfter
  <2>8. ASSUME NEW o \in Queries PROVE FreshQuery(query[o], dirs[query[o].version])'
    <3>1. CASE o = q
      BY <2>1, <2>6, <2>7, <3>1 DEF FreshQuery
    <3>2. CASE o # q /\ query[o].version # s.version
      <4>1. FreshQuery(query[o], dirs[query[o].version])
        BY DEF FreshInv
      <4>2. query[o].pc # "idle" => query[o].version \in Versions
        BY DEF TypeOK
      <4>3. QED
        BY <2>7, <3>2, <4>1, <4>2 DEF FreshQuery, Preparing
    <3>3. CASE o # q /\ query[o].version = s.version
      <4>1. FreshQuery(query[o], dirs[query[o].version])
        BY DEF FreshInv
      <4>2. QED
        BY <2>6, <2>7, <3>3, <4>1 DEF FreshQuery
    <3>4. QED
      BY <3>1, <3>2, <3>3
  <2>9. \A v \in Versions : FreshDir(dirs[v], v)'
    BY <2>6, <2>7 DEF FreshInv, FreshDir
  <2>10. StoreOK'
    BY <2>1, <2>4 DEF StepTo, StoreOK
  <2>11. QED
    BY <2>8, <2>9, <2>10 DEF FreshInv
<1>4. ASSUME NEW q \in Queries, End(q) PROVE FreshInv'
  <2>1. \A o \in Queries : query'[o] = query[o] \/ query'[o] = Idle
    BY <1>4 DEF End, TypeOK
  <2>2. UNCHANGED <<store, pipeline, registered, dirs>>
    BY <1>4 DEF End
  <2>3. \A o \in Queries : FreshQuery(query[o], dirs[query[o].version])'
    BY <2>1, <2>2 DEF FreshInv, FreshQuery, Idle, At, Preparing
  <2>4. QED
    BY <2>2, <2>3 DEF FreshInv, StoreOK, FreshDir
<1>5. CASE UNCHANGED vars
  BY <1>5 DEF vars, FreshInv, StoreOK, FreshQuery, FreshDir
<1>6. QED
  BY <1>1, <1>2, <1>3, <1>4, <1>5 DEF Next, Step, Moves

\* No file of a version is of a build that came before the version did.
THEOREM VersionsAreFresh == Spec => []NeverOlder
<1>1. Init => TypeOK /\ FreshInv
  BY InitType, InitFresh
<1>2. TypeOK /\ FreshInv /\ [Next]_vars => TypeOK' /\ FreshInv'
  BY NextType, NextFresh
<1>3. FreshInv => NeverOlder
  BY DEF FreshInv, FreshDir, NeverOlder
<1>4. QED
  BY <1>1, <1>2, <1>3, PTL DEF Spec

-----------------------------------------------------------------------------
(* A directory that is prepared by one query at a time. *)

\* What the only query r that prepares the directory d has done so far.
SoleOK(r, d) ==
    /\ ~d.ready
    /\ r.pc \notin {"extract", "write"} => r.at = 1
    /\ r.pc \in {"open", "extract", "write"} => d.sha = d.archive
    /\ r.pc \in {"extract", "write"} =>
          r.opened = d.archive /\ \A p \in Positions : p < r.at => d.files[p] = d.archive
    /\ r.pc = "write" => d.files[r.at] = Torn

VerifiedDir(d) ==
    d.ready => d.sha = d.archive /\ \A p \in Positions : d.files[p] = d.archive

ServedOK(r, d) ==
    /\ r.pc \in {"read", "answer"} => r.result = d.archive
    /\ r.pc = "answer" => r.status = d.archive

Serving == {"run", "read", "answer"}

OneAtATime ==
    \A q, o \in Queries :
        q # o /\ query[q].pc \in Preparing /\ query[o].pc \in Preparing
              /\ query[q].version = query[o].version => query[q].version \in overlapped

QueryOK(r, d) ==
    /\ r.pc \in Serving => d.ready
    /\ r.pc \in Preparing /\ r.version \notin overlapped => SoleOK(r, d)
    /\ r.pc \in Serving /\ r.version \notin overlapped => ServedOK(r, d)

CleanInv ==
    /\ OneAtATime
    /\ \A q \in Queries : QueryOK(query[q], dirs[query[q].version])
    /\ \A v \in Versions \ overlapped : VerifiedDir(dirs[v])

LEMMA InitClean == Init => CleanInv
BY DEF Init, CleanInv, OneAtATime, QueryOK, VerifiedDir, Idle, At, EmptyDir, Preparing, Serving

\* The only query of a directory keeps it clean.
LEMMA MadeClean ==
    ASSUME NEW s \in Runs, NEW c \in Dirs, NEW r \in Runs, NEW d \in Dirs,
           Made(s, c, r, d, TRUE), s.pc \in Preparing, r.pc # "idle", SoleOK(s, c)
    PROVE  /\ r.pc \in Preparing => SoleOK(r, d)
           /\ r.pc \in Serving => r.pc = "run" /\ d.ready
           /\ VerifiedDir(d)
<1>1. CASE s.pc \in {"archive", "sha", "verify", "open"}
  BY <1>1 DEF Made, SoleOK, VerifiedDir, Preparing, Serving, Positions
<1>2. CASE s.pc = "status"
  BY <1>2 DEF Made, SameDir, SoleOK, VerifiedDir, Preparing, Serving
<1>3. CASE s.pc = "extract" /\ r.pc = "write"
  <2>1. /\ r.at = s.at /\ r.opened = s.opened /\ SameDir(c, d) /\ SameFiles(c, d, s.at)
        /\ d.files[s.at] = Torn
    BY <1>3 DEF Made
  <2>2. \A p \in Positions : p < s.at => d.files[p] = d.archive
    BY <1>3, <2>1 DEF SoleOK, SameDir, SameFiles, Runs, Positions
  <2>3. QED
    BY <1>3, <2>1, <2>2 DEF SoleOK, SameDir, VerifiedDir, Serving
<1>4. CASE s.pc = "extract" /\ r.pc # "write"
  <2>1. /\ s.at > Members /\ r.pc = "run" /\ d.ready
        /\ d.files = c.files /\ d.archive = c.archive /\ d.sha = c.sha
    BY <1>4 DEF Made
  <2>2. \A p \in Positions : p < s.at
    BY <2>1 DEF Positions, Runs
  <2>3. QED
    BY <1>4, <2>1, <2>2 DEF SoleOK, VerifiedDir, Preparing
<1>5. CASE s.pc = "write"
  <2>1. /\ r.pc = "extract" /\ r.at = s.at + 1 /\ r.opened = s.opened /\ SameDir(c, d)
        /\ SameFiles(c, d, s.at)
        /\ c.files[s.at] # Mixed => d.files[s.at] = s.opened
    BY <1>5 DEF Made
  <2>2. d.files[s.at] = d.archive
    BY <1>5, <2>1 DEF SoleOK, SameDir, Made
  <2>3. \A p \in Positions : p < s.at + 1 => d.files[p] = d.archive
    BY <1>5, <2>1, <2>2 DEF SoleOK, SameDir, SameFiles, Positions, Runs
  <2>4. QED
    BY <1>5, <2>1, <2>3 DEF SoleOK, SameDir, VerifiedDir, Preparing, Serving
<1>6. QED
  BY <1>1, <1>2, <1>3, <1>4, <1>5 DEF Preparing

LEMMA NextClean == TypeOK /\ FreshInv /\ CleanInv /\ [Next]_vars => CleanInv'
<1> SUFFICES ASSUME TypeOK, CleanInv, [Next]_vars PROVE CleanInv'
  OBVIOUS
<1>0. OneAtATime /\ (\A v \in Versions \ overlapped : VerifiedDir(dirs[v]))
      /\ \A q \in Queries : QueryOK(query[q], dirs[query[q].version])
  BY DEF CleanInv
<1>1. CASE Build \/ Upload \/ Callback \/ BuildFails
  <2>1. UNCHANGED <<dirs, query, overlapped>>
    BY <1>1 DEF Build, Upload, Callback, BuildFails
  <2>2. QED
    BY <2>1 DEF CleanInv, OneAtATime, QueryOK
<1>2. ASSUME NEW q \in Queries, Begin(q) PROVE CleanInv'
  <2>1. PICK v \in registered :
            /\ v \in Versions
            /\ query' = [query EXCEPT ![q] = At(IF dirs[v].ready THEN "run" ELSE "archive", v)]
            /\ UNCHANGED <<store, pipeline, registered, dirs>>
            /\ overlapped' \in {overlapped, overlapped \cup {v}}
            /\ ~dirs[v].ready /\ PreparesWith(q, v) => v \in overlapped'
    BY <1>2, BeginSteps
  <2>2. \A o \in Queries \ {q} : query'[o] = query[o]
    BY <2>1 DEF TypeOK
  <2>3. /\ query'[q].pc = (IF dirs[v].ready THEN "run" ELSE "archive")
        /\ query'[q].version = v /\ query'[q].at = 1
    BY <2>1 DEF TypeOK, At
  <2>4. overlapped \subseteq overlapped' /\ dirs' = dirs
    BY <2>1
  <2>5. ASSUME NEW o \in Queries \ {q}, query[o].pc \in Preparing, query[o].version = v,
               ~dirs[v].ready
        PROVE  v \in overlapped'
    BY <2>1, <2>5 DEF PreparesWith
  <2>6. OneAtATime'
    BY <1>0, <2>2, <2>3, <2>4, <2>5 DEF OneAtATime, Preparing
  <2>7. ASSUME NEW o \in Queries \ {q} PROVE QueryOK(query[o], dirs[query[o].version])'
    <3>1. QueryOK(query[o], dirs[query[o].version])
      BY <1>0
    <3>2. query'[o] = query[o]
      BY <2>2
    <3>3. QED
      BY <2>4, <3>1, <3>2 DEF QueryOK
  <2>8. QueryOK(query[q], dirs[query[q].version])'
    BY <2>3, <2>4 DEF QueryOK, SoleOK, ServedOK, Serving, Preparing
  <2>9. \A w \in Versions \ overlapped' : VerifiedDir(dirs'[w])
    BY <1>0, <2>4
  <2>10. QED
    BY <2>6, <2>7, <2>8, <2>9 DEF CleanInv
<1>3. ASSUME NEW q \in Queries, Moves(q) PROVE CleanInv'
  <2> DEFINE s == query[q]
             c == dirs[s.version]
  <2>1. PICK r \in Runs, d \in Dirs :
            /\ StepTo(q, r, d)
            /\ r.pc \notin {"idle", "archive"} /\ r.version = query[q].version
            /\ Made(query[q], dirs[query[q].version], r, d, Alone(q))
    BY <1>3, MoveSteps
  <2>2. s.pc # "idle" /\ s.version \in Versions /\ s \in Runs /\ c \in Dirs
        /\ overlapped' = overlapped
    BY <1>3, MoveSteps DEF TypeOK
  <2>3. s.pc # "answer"
    BY <1>3 DEF Moves, DownloadArchive, DownloadSha, DownloadStatus, Verify, OpenArchive, Extract,
                Write, Mark, RunCodegraph, ReadStatus
  <2>4. /\ query'[q] = r /\ dirs'[s.version] = d
        /\ \A o \in Queries \ {q} : query'[o] = query[o]
        /\ \A v \in Versions \ {s.version} : dirs'[v] = dirs[v]
    BY <2>1, <2>2, OthersAfter
  <2>5. s.pc \in Preparing \cup {"run", "read"}
    BY <2>2, <2>3 DEF Runs, Pcs
  <2>6. /\ c.ready => d.ready
        /\ r.pc \in Preparing => s.pc \in Preparing
        /\ s.pc \in {"run", "read"} => d = c /\ r.pc \in {"read", "answer"}
    BY <2>1, <2>5 DEF Made, SameDir, Preparing
  <2>7. ASSUME s.pc \in Preparing, s.version \notin overlapped
        PROVE  /\ r.pc \in Preparing => SoleOK(r, d)
               /\ r.pc \in Serving => r.pc = "run" /\ d.ready
               /\ VerifiedDir(d)
               /\ \A o \in Queries \ {q} : query[o].version = s.version =>
                     query[o].pc \notin Preparing \cup Serving
    <3>1. SoleOK(s, c)
      BY <1>0, <2>7 DEF QueryOK
    <3>2. \A o \in Queries \ {q} : query[o].version = s.version => query[o].pc \notin Preparing
      BY <1>0, <2>7 DEF OneAtATime
    <3>3. Alone(q) = TRUE
      BY <3>2 DEF Alone, Writers, Writes, Preparing
    <3>4. Made(s, c, r, d, TRUE)
      BY <2>1, <3>3
    <3>5. /\ r.pc \in Preparing => SoleOK(r, d)
          /\ r.pc \in Serving => r.pc = "run" /\ d.ready
          /\ VerifiedDir(d)
      BY <2>1, <2>2, <2>7, <3>1, <3>4, MadeClean
    <3>6. \A o \in Queries \ {q} : query[o].version = s.version => query[o].pc \notin Serving
      BY <1>0, <3>1 DEF QueryOK, SoleOK
    <3>7. QED
      BY <3>2, <3>5, <3>6
  <2>8. OneAtATime'
    BY <1>0, <2>1, <2>2, <2>4, <2>6 DEF OneAtATime
  <2>9. ASSUME NEW o \in Queries \ {q} PROVE QueryOK(query[o], dirs[query[o].version])'
    <3>1. QueryOK(query[o], dirs[query[o].version])
      BY <1>0
    <3>2. query'[o] = query[o]
      BY <2>4
    <3>3. query[o].pc \in Preparing \cup Serving => query[o].version \in Versions
      BY DEF TypeOK, Preparing, Serving
    <3>4. CASE query[o].version # s.version
      BY <2>2, <2>4, <3>1, <3>2, <3>3, <3>4 DEF QueryOK
    <3>5. CASE query[o].version = s.version
      BY <2>2, <2>4, <2>5, <2>6, <2>7, <3>1, <3>2, <3>5 DEF QueryOK
    <3>6. QED
      BY <3>4, <3>5
  <2>10. QueryOK(query[q], dirs[query[q].version])'
    <3>1. CASE s.pc \in Preparing
      <4>1. r.pc \in Serving => d.ready
        BY <2>1, <3>1 DEF Made, Preparing, Serving
      <4>2. QED
        BY <2>1, <2>2, <2>4, <2>7, <3>1, <4>1 DEF QueryOK, ServedOK
    <3>2. CASE s.pc \in {"run", "read"}
      <4>1. QueryOK(s, c) /\ s.pc \in Serving
        BY <1>0, <3>2 DEF Serving
      <4>2. c.ready
        BY <4>1 DEF QueryOK
      <4>3. s.version \notin overlapped =>
                VerifiedDir(c) /\ ServedOK(s, c)
        BY <1>0, <2>2, <4>1 DEF QueryOK
      <4>4. s.version \notin overlapped => ServedOK(r, d)
        BY <2>1, <3>2, <4>2, <4>3 DEF VerifiedDir, ServedOK, Made, Positions, StatusFile
      <4>5. d.ready /\ r.pc \notin Preparing
        BY <2>6, <3>2, <4>2 DEF Preparing
      <4>6. QED
        BY <2>1, <2>2, <2>4, <4>4, <4>5 DEF QueryOK
    <3>3. QED
      BY <2>5, <3>1, <3>2
  <2>11. \A v \in Versions \ overlapped' : VerifiedDir(dirs'[v])
    <3>1. s.version \notin overlapped => VerifiedDir(d)
      BY <1>0, <2>2, <2>5, <2>6, <2>7
    <3>2. QED
      BY <1>0, <2>2, <2>4, <3>1
  <2>12. QED
    BY <2>8, <2>9, <2>10, <2>11 DEF CleanInv
<1>4. ASSUME NEW q \in Queries, End(q) PROVE CleanInv'
  <2>1. \A o \in Queries : query'[o] = query[o] \/ query'[o].pc = "idle"
    BY <1>4 DEF End, TypeOK, Idle, At
  <2>2. UNCHANGED <<dirs, overlapped>>
    BY <1>4 DEF End
  <2>3. OneAtATime'
    BY <1>0, <2>1, <2>2 DEF OneAtATime, Preparing
  <2>4. \A o \in Queries : QueryOK(query[o], dirs[query[o].version])'
    BY <1>0, <2>1, <2>2 DEF QueryOK, Preparing, Serving
  <2>5. QED
    BY <1>0, <2>2, <2>3, <2>4 DEF CleanInv
<1>5. CASE UNCHANGED vars
  BY <1>5 DEF vars, CleanInv, OneAtATime, QueryOK
<1>6. QED
  BY <1>1, <1>2, <1>3, <1>4, <1>5 DEF Next, Step, Moves

LEMMA CleanAlways == Spec => [](TypeOK /\ FreshInv /\ CleanInv)
<1>1. Init => TypeOK /\ FreshInv /\ CleanInv
  BY InitType, InitFresh, InitClean
<1>2. TypeOK /\ FreshInv /\ CleanInv /\ [Next]_vars => TypeOK' /\ FreshInv' /\ CleanInv'
  BY NextType, NextFresh, NextClean
<1>3. QED
  BY <1>1, <1>2, PTL DEF Spec

\* .ready stands for the whole index whose digest was compared, unless two queries
\* prepared the directory at once.
THEOREM ReadyMeansVerified == Spec => []ReadyIsVerified
<1>1. CleanInv => ReadyIsVerified
  BY DEF CleanInv, VerifiedDir, ReadyIsVerified
<1>2. QED
  BY <1>1, CleanAlways, PTL

\* The result and the status of an answer are of one build.
THEOREM AnswersAreOfOneBuild == Spec => []AnswerIsOfOneBuild
<1>1. ASSUME TypeOK, FreshInv, CleanInv PROVE AnswerIsOfOneBuild
  <2>1. SUFFICES ASSUME NEW q \in Queries, query[q].pc = "answer",
                        query[q].version \notin overlapped
                 PROVE  query[q].result = query[q].status /\ query[q].result \in Versions
    BY DEF AnswerIsOfOneBuild
  <2> DEFINE d == dirs[query[q].version]
  <2>2. QueryOK(query[q], d)
    BY <1>1 DEF CleanInv
  <2>3. d.ready /\ query[q].result = d.archive /\ query[q].status = d.archive
    BY <2>1, <2>2 DEF QueryOK, ServedOK, Serving
  <2>4. query[q].version \in Versions
    BY <1>1, <2>1 DEF TypeOK
  <2>5. FreshDir(d, query[q].version) /\ d \in Dirs
    BY <1>1, <2>4 DEF FreshInv, TypeOK
  <2>6. d.archive \in Versions
    BY <2>3, <2>4, <2>5 DEF FreshDir, Dirs, Some, Versions
  <2>7. QED
    BY <2>3, <2>6
<1>2. QED
  BY <1>1, CleanAlways, PTL
=============================================================================
