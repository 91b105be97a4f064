-------------------------- MODULE StatsRowsProofs --------------------------
(***************************************************************************)
(* Proofs about the rows and the answers of StatsService: what the pool's  *)
(* connection, the origin and the order in which results leave the registry*)
(* have to do with what a client reads.                                    *)
(***************************************************************************)
EXTENDS StatsServiceProofs

(* The steps that change what jobs, listings or rows are; in every other   *)
(* one a handler only moves on, or answers.                                *)
LEMMA Steps ==
  ASSUME [Next]_vars
  PROVE  \/ UNCHANGED <<head, query, files, registry, job, entries>>
         \/ \E r \in Requests : ListFiles(r) \/ LockRegistry(r) \/ BuildTasks(r)
         \/ \E r \in Requests, f \in Files : Fetch(r, f) \/ Poll(r, f)
         \/ \E r \in Requests :
              \/ RecordCompletion(r) \/ Stamp(r) \/ Persist(r) \/ PersistTimeout(r)
              \/ Failure(r)
         \/ \E p \in Packages, S \in SUBSET Files, n \in 1..MaxRevision : Commit(p, S, n)
         \/ Crash
<1> USE DEF handler
<1>1. ASSUME NEW r \in Requests,
             Arrive(r) \/ TakeConn(r) \/ ConnTimeout(r) \/ QueryEntries(r)
               \/ CheckInProgress(r) \/ ReadInProgress(r) \/ FinishSync(r)
      PROVE  UNCHANGED <<head, query, files, registry, job, entries>>
  BY <1>1 DEF Arrive, TakeConn, ConnTimeout, QueryEntries, CheckInProgress, ReadInProgress,
     FinishSync
<1>2. CASE UNCHANGED vars
  BY <1>2 DEF vars
<1> QED
  BY <1>1, <1>2 DEF Next, Handler, Job, Environment, Finished

-----------------------------------------------------------------------------
(* What each step does, place by place *)

LEMMA BuildTasksFacts ==
  ASSUME IInv, NEW r \in Requests, BuildTasks(r)
  PROVE  /\ pc[r] = "shas" /\ lock = r
         /\ pc'[r] \in {"running", "replied"}
         /\ \A q \in Requests : q # r => pc'[q] = pc[q] /\ pc[q] # "shas"
         /\ \A q \in Requests : q # r => stage'[q] = stage[q] /\ revision'[q] = revision[q]
         /\ \A q \in Requests : q # r => files'[q] = files[q]
         /\ files'[r] = {}
         /\ \A f \in Files :
              /\ stage[r][f] = "none"
              /\ stage'[r][f] \in {"none", "fetching"}
              /\ \/ revision'[r][f] = 1
                 \/ \E x \in files[r] : x.file = f /\ revision'[r][f] = x.revision
         /\ UNCHANGED <<head, query, conn, content, created, active, entries>>
<1>1. PICK new \in WithSha(r) : RecordNewTasks(r, new)
  BY DEF BuildTasks
<1>2. TypeOK /\ pc[r] = "shas" /\ lock = r
  BY DEF IInv, BuildTasks, LockHeld
<1>3. new \subseteq files[r]
  BY <1>1 DEF WithSha
<1> DEFINE names == {x.file : x \in new}
           rev(f) == (CHOOSE x \in new : x.file = f).revision
<1>4. /\ stage' = [stage EXCEPT ![r] =
                     [f \in Files |-> IF f \in names THEN "fetching" ELSE "none"]]
      /\ revision' = [revision EXCEPT ![r] = [f \in Files |-> IF f \in names THEN rev(f) ELSE 1]]
  BY <1>1 DEF RecordNewTasks
<1>5. pc' = [pc EXCEPT ![r] = "replied"] \/ pc' = [pc EXCEPT ![r] = "running"]
  BY <1>1 DEF RecordNewTasks, Respond
<1>6. \A f \in names : \E x \in files[r] : x.file = f /\ rev(f) = x.revision
  BY <1>3
<1> HIDE DEF names, rev
<1>7. \A f \in Files :
        /\ stage'[r][f] \in {"none", "fetching"}
        /\ \/ revision'[r][f] = 1
           \/ \E x \in files[r] : x.file = f /\ revision'[r][f] = x.revision
  BY <1>2, <1>4, <1>6 DEF TypeOK
<1>8. \A q \in Requests : q # r => stage'[q] = stage[q] /\ revision'[q] = revision[q]
  BY <1>2, <1>4 DEF TypeOK
<1>9. \A q \in Requests : q # r => pc'[q] = pc[q] /\ pc[q] # "shas"
  BY <1>2, <1>5 DEF TypeOK, IInv, LockHeld
<1>10. pc'[r] \in {"running", "replied"}
  BY <1>2, <1>5 DEF TypeOK
<1>11. \A f \in Files : stage[r][f] = "none"
  BY <1>2 DEF IInv, FilterStillValid
<1>12. /\ files'[r] = {}
       /\ \A q \in Requests : q # r => files'[q] = files[q]
       /\ UNCHANGED <<head, query, conn, content, created, active, entries>>
  BY <1>2 DEF BuildTasks, TypeOK
<1> QED
  BY <1>2, <1>7, <1>8, <1>9, <1>10, <1>11, <1>12

LEMMA FetchFacts ==
  ASSUME IInv, NEW r \in Requests, NEW f \in Files, Fetch(r, f)
  PROVE  /\ stage[r][f] = "fetching"
         /\ \/ stage'[r][f] = "fetched" /\ content'[r][f] = head[PackageOf(r)][f]
            \/ stage'[r][f] = "failed" /\ content'[r][f] = content[r][f]
         /\ \A q \in Requests, g \in Files : q # r \/ g # f =>
              stage'[q][g] = stage[q][g] /\ content'[q][g] = content[q][g]
         /\ UNCHANGED <<head, handler, lock, conn, registry, revision, created, active, entries>>
  BY DEF IInv, TypeOK, Fetch, SetStage

LEMMA CompletionFacts ==
  ASSUME IInv, NEW r \in Requests, RecordCompletion(r)
  PROVE  LET f == active[r] IN
         /\ f \in Files
         /\ \/ /\ stage[r][f] = "fetched" /\ stage'[r][f] = "unstamped"
               /\ UNCHANGED active
            \/ /\ stage[r][f] = "failed" /\ stage'[r][f] = "error"
               /\ active' = [active EXCEPT ![r] = None]
         /\ \A q \in Requests, g \in Files : q # r \/ g # f => stage'[q][g] = stage[q][g]
         /\ lock = None
         /\ UNCHANGED <<head, handler, lock, conn, revision, content, created, entries>>
  BY DEF IInv, TypeOK, RecordCompletion, SetStage

LEMMA StampFacts ==
  ASSUME IInv, NEW r \in Requests, Stamp(r)
  PROVE  LET f == active[r] IN
         /\ f \in Files
         /\ stage[r][f] = "unstamped" /\ stage'[r][f] = "unsaved"
         /\ created'[r][f] # 0
         /\ \A q \in Requests, g \in Files : q # r \/ g # f =>
              stage'[q][g] = stage[q][g] /\ created'[q][g] = created[q][g]
         /\ UNCHANGED <<head, handler, lock, conn, registry, revision, content, active, entries>>
<1>1. PICK f : f = active[r]
  OBVIOUS
<1>2. f \in Files /\ TypeOK
  BY <1>1 DEF IInv, TypeOK, Stamp
<1>3. /\ created' = [created EXCEPT ![r][f] = NextCreated(PackageOf(r), f)]
      /\ stage' = [stage EXCEPT ![r][f] = "unsaved"]
      /\ stage[r][f] = "unstamped"
      /\ UNCHANGED <<head, handler, lock, conn, registry, revision, content, active, entries>>
  BY <1>1 DEF Stamp, SetStage
<1>4. NextCreated(PackageOf(r), f) # 0
  <2> DEFINE done == {q \in Requests : PackageOf(q) = PackageOf(r) /\ created[q][f] # 0}
  <2>1. Cardinality(done) \in Nat
    BY ServiceAssumption, FS_Subset, FS_CardinalityType
  <2>2. NextCreated(PackageOf(r), f) = 1 + Cardinality(done)
    BY DEF NextCreated
  <2> HIDE DEF done
  <2> QED
    BY <2>1, <2>2
<1>5. /\ stage'[r][f] = "unsaved" /\ created'[r][f] # 0
      /\ \A q \in Requests, g \in Files : q # r \/ g # f =>
           stage'[q][g] = stage[q][g] /\ created'[q][g] = created[q][g]
  BY <1>2, <1>3, <1>4 DEF TypeOK
<1> QED
  BY <1>1, <1>2, <1>3, <1>5

(* A result that leaves its completion: stored in Persist, not stored in   *)
(* PersistTimeout.                                                         *)
LEMMA PersistFacts ==
  ASSUME IInv, NEW r \in Requests, Persist(r) \/ PersistTimeout(r)
  PROVE  LET f == active[r] IN
         /\ f \in Files
         /\ stage[r][f] = "unsaved"
         /\ \/ /\ stage'[r][f] = "saved" /\ conn = None
               /\ entries' = [entries EXCEPT ![PackageOf(r)] = @ \cup {RowOf(r, f)}]
            \/ stage'[r][f] = "lost" /\ UNCHANGED entries
         /\ \A q \in Requests, g \in Files : q # r \/ g # f => stage'[q][g] = stage[q][g]
         /\ active' = [active EXCEPT ![r] = None]
         /\ UNCHANGED <<head, handler, lock, conn, registry, revision, content, created>>
<1>1. CASE Persist(r)
  BY <1>1 DEF IInv, TypeOK, Persist, SetStage
<1>2. CASE PersistTimeout(r)
  BY <1>2 DEF IInv, TypeOK, PersistTimeout, SetStage
<1> QED
  BY <1>1, <1>2

LEMMA FailureFacts ==
  ASSUME IInv, NEW r \in Requests, Failure(r)
  PROVE  /\ pc[r] \in {"running", "replied"}
         /\ \A q \in Requests : q # r => pc'[q] = pc[q] /\ reply'[q] = reply[q]
         /\ \/ UNCHANGED <<pc, reply>>
            \/ pc'[r] = "replied" /\ reply'[r].status = 1 /\ reply'[r].in_progress = {}
         /\ \A q \in Requests : q # r => stage'[q] = stage[q]
         /\ \A f \in Files :
              stage'[r][f] = IF stage[r][f] \in Waiting THEN "leaked"
                             ELSE IF stage[r][f] \in Unstored THEN "dropped" ELSE stage[r][f]
         /\ active' = [active EXCEPT ![r] = None]
         /\ UNCHANGED <<query, files, head, lock, conn, registry, revision, content, created,
                        entries>>
<1>1. TypeOK
  BY DEF IInv
<1>2. /\ Die(r)
      /\ UNCHANGED <<head, lock, conn, registry, revision, content, created, entries>>
      /\ \E f \in Files : stage[r][f] # "none"
  BY <1>1 DEF Failure, PersistPanic, StatsPanic, TypeOK
<1>3. pc[r] \in {"running", "replied"}
  BY <1>2 DEF IInv, FilterStillValid
<1>4. /\ \A q \in Requests : q # r => pc'[q] = pc[q] /\ reply'[q] = reply[q]
      /\ \/ UNCHANGED <<pc, reply>>
         \/ pc'[r] = "replied" /\ reply'[r].status = 1 /\ reply'[r].in_progress = {}
      /\ UNCHANGED <<query, files>>
  BY <1>1, <1>2 DEF Die, Respond, TypeOK, handler
<1>5. /\ \A q \in Requests : q # r => stage'[q] = stage[q]
      /\ \A f \in Files :
           stage'[r][f] = IF stage[r][f] \in Waiting THEN "leaked"
                          ELSE IF stage[r][f] \in Unstored THEN "dropped" ELSE stage[r][f]
      /\ active' = [active EXCEPT ![r] = None]
  BY <1>1, <1>2 DEF Die, TypeOK
<1> QED
  BY <1>2, <1>3, <1>4, <1>5
LEMMA CrashFacts ==
  ASSUME TypeOK, Crash
  PROVE  /\ \A r \in Requests :
              /\ pc'[r] = IF pc[r] = "idle" THEN "idle" ELSE "replied"
              /\ \/ pc[r] \in {"idle", "replied"} /\ reply'[r] = reply[r]
                 \/ reply'[r] = [status |-> 1, stats |-> {}, in_progress |-> {}]
              /\ files'[r] = {} /\ active'[r] = None
              /\ \A f \in Files :
                   stage'[r][f] = IF stage[r][f] \in Pending \cup {"leaked"} THEN "dropped"
                                  ELSE stage[r][f]
         /\ lock' = None /\ conn' = None
         /\ UNCHANGED <<head, query, revision, content, created, entries>>
  BY DEF Crash, TypeOK

-----------------------------------------------------------------------------
(* The connection                                                          *)

LEMMA ConnHeldStep ==
  ASSUME IInv, ConnHeld, [Next]_vars
  PROVE  ConnHeld'
<1>1. TypeOK
  BY DEF IInv
<1> USE DEF handler, registry, job
<1>2. CASE UNCHANGED <<pc, conn>>
  BY <1>2 DEF ConnHeld
<1> DEFINE held == {"query", "check", "progress"}
<1>3. ASSUME NEW r \in Requests, NEW y, pc' = [pc EXCEPT ![r] = y],
             \/ (pc[r] \in held <=> y \in held) /\ UNCHANGED conn
             \/ pc[r] \in held /\ y \notin held /\ conn' = None
             \/ conn = None /\ y \in held /\ conn' = r
      PROVE  ConnHeld'
  <2>1. pc'[r] = y /\ \A q \in Requests : q # r => pc'[q] = pc[q]
    BY <1>1, <1>3 DEF TypeOK
  <2>2. \A q \in Requests : pc[q] \in held <=> conn = q
    BY DEF ConnHeld
  <2> HIDE DEF held
  <2>3. \A q \in Requests : pc'[q] \in held <=> conn' = q
    BY <1>3, <2>1, <2>2, ServiceAssumption
  <2> QED
    BY <2>3 DEF ConnHeld, held
<1>4. ASSUME NEW r \in Requests, Arrive(r) \/ TakeConn(r) \/ ConnTimeout(r)
      PROVE  ConnHeld'
  BY <1>3, <1>4 DEF Arrive, TakeConn, ConnTimeout, Respond
<1>5. ASSUME NEW r \in Requests, QueryEntries(r)
      PROVE  ConnHeld'
  BY <1>3, <1>5 DEF QueryEntries, HoldConn
<1>6. ASSUME NEW r \in Requests, CheckInProgress(r) \/ ReadInProgress(r)
      PROVE  ConnHeld'
  BY <1>3, <1>6 DEF CheckInProgress, ReadInProgress, Respond, DropConn
<1>7. ASSUME NEW r \in Requests, ListFiles(r) \/ LockRegistry(r) \/ FinishSync(r)
      PROVE  ConnHeld'
  BY <1>3, <1>7 DEF ListFiles, LockRegistry, FinishSync, Respond
<1>8. ASSUME NEW r \in Requests, BuildTasks(r)
      PROVE  ConnHeld'
  <2>1. /\ pc[r] = "shas" /\ pc'[r] \in {"running", "replied"} /\ UNCHANGED conn
        /\ \A q \in Requests : q # r => pc'[q] = pc[q]
    BY <1>8, BuildTasksFacts
  <2> QED
    BY <2>1 DEF ConnHeld
<1>9. ASSUME NEW r \in Requests, Failure(r)
      PROVE  ConnHeld'
  BY <1>1, <1>9, FailureFacts DEF ConnHeld, TypeOK
<1>10. CASE Crash
  BY <1>1, <1>10, CrashFacts, ServiceAssumption DEF ConnHeld
<1>11. ASSUME NEW r \in Requests,
              RecordCompletion(r) \/ Stamp(r) \/ Persist(r) \/ PersistTimeout(r)
       PROVE  ConnHeld'
  BY <1>2, <1>11 DEF RecordCompletion, Stamp, Persist, PersistTimeout
<1>12. ASSUME NEW r \in Requests, NEW f \in Files, Fetch(r, f) \/ Poll(r, f)
       PROVE  ConnHeld'
  BY <1>2, <1>12 DEF Fetch, Poll
<1>13. ASSUME NEW p \in Packages, NEW S \in SUBSET Files, NEW n \in 1..MaxRevision,
              Commit(p, S, n)
       PROVE  ConnHeld'
  BY <1>2, <1>13 DEF Commit
<1>14. CASE UNCHANGED vars
  BY <1>2, <1>14 DEF vars
<1> QED
  BY <1>4, <1>5, <1>6, <1>7, <1>8, <1>9, <1>10, <1>11, <1>12, <1>13, <1>14
     DEF Next, Handler, Job, Environment, Finished

(* A step that adds no row and takes nobody to "progress".                 *)
LEMMA RowsReadFrame ==
  ASSUME IInv, RowsReadAreCurrent, UNCHANGED <<query, entries>>,
         \A r \in Requests : pc'[r] = "progress" => pc[r] = "progress" /\ reply'[r] = reply[r]
  PROVE  RowsReadAreCurrent'
  BY DEF RowsReadAreCurrent, Stored, Matches, PackageOf

LEMMA RowsReadStep ==
  ASSUME IInv, ConnHeld, RowsReadAreCurrent, [Next]_vars
  PROVE  RowsReadAreCurrent'
<1>1. TypeOK
  BY DEF IInv
<1> USE DEF handler, registry, job
<1>2. ASSUME NEW r \in Requests, NEW y, y # "progress", pc' = [pc EXCEPT ![r] = y],
             UNCHANGED reply \/ \E x : reply' = [reply EXCEPT ![r] = x],
             UNCHANGED <<query, entries>>
      PROVE  RowsReadAreCurrent'
  BY <1>1, <1>2, RowsReadFrame DEF TypeOK
<1>3. ASSUME NEW r \in Requests, QueryEntries(r)
      PROVE  RowsReadAreCurrent'
  <2> DEFINE rows == {f \in Stored(PackageOf(r)) : Matches(r, f)}
  <2>1. /\ \/ pc' = [pc EXCEPT ![r] = "check"]
           \/ pc' = [pc EXCEPT ![r] = "progress"]
        /\ reply' = [reply EXCEPT ![r] = [status |-> 0, stats |-> rows, in_progress |-> {}]]
        /\ UNCHANGED <<query, entries>>
    BY <1>3 DEF QueryEntries
  <2>2. rows' = rows
    BY <2>1 DEF Stored, Matches, PackageOf
  <2>3. reply'[r].stats = rows /\ \A q \in Requests : q # r => reply'[q] = reply[q]
    BY <1>1, <2>1 DEF TypeOK
  <2>4. \A q \in Requests : q # r => pc'[q] = pc[q]
    BY <1>1, <2>1 DEF TypeOK
  <2>5. ASSUME NEW q \in Requests, pc'[q] = "progress"
        PROVE  reply'[q].stats = {f \in Stored(PackageOf(q))' : Matches(q, f)'}
    <3>1. CASE q = r
      BY <2>2, <2>3, <3>1
    <3>2. CASE q # r
      BY <2>1, <2>3, <2>4, <2>5, <3>2 DEF RowsReadAreCurrent, Stored, Matches, PackageOf
    <3> QED
      BY <3>1, <3>2
  <2> QED
    BY <2>5 DEF RowsReadAreCurrent
<1>4. ASSUME NEW r \in Requests,
             Arrive(r) \/ TakeConn(r) \/ ConnTimeout(r) \/ CheckInProgress(r) \/ ReadInProgress(r)
      PROVE  RowsReadAreCurrent'
  BY <1>2, <1>4 DEF Arrive, TakeConn, ConnTimeout, CheckInProgress, ReadInProgress, Respond
<1>5. ASSUME NEW r \in Requests, ListFiles(r) \/ LockRegistry(r) \/ FinishSync(r)
      PROVE  RowsReadAreCurrent'
  BY <1>2, <1>5 DEF ListFiles, LockRegistry, FinishSync, Respond
<1>6. ASSUME NEW r \in Requests, BuildTasks(r)
      PROVE  RowsReadAreCurrent'
  <2>1. PICK new \in WithSha(r) : RecordNewTasks(r, new)
    BY <1>6 DEF BuildTasks
  <2> QED
    BY <1>2, <1>6, <2>1 DEF BuildTasks, RecordNewTasks, Respond
<1>7. ASSUME NEW r \in Requests, Failure(r)
      PROVE  RowsReadAreCurrent'
  BY <1>7, FailureFacts, RowsReadFrame
<1>8. CASE Crash
  BY <1>1, <1>8, CrashFacts, RowsReadFrame
<1>9. CASE UNCHANGED <<query, pc, reply, entries>>
  BY <1>9, RowsReadFrame
<1>10. ASSUME NEW r \in Requests, RecordCompletion(r) \/ Stamp(r)
       PROVE  RowsReadAreCurrent'
  BY <1>9, <1>10 DEF RecordCompletion, Stamp
<1>11. ASSUME NEW r \in Requests, Persist(r) \/ PersistTimeout(r)
       PROVE  RowsReadAreCurrent'
  <2>1. CASE conn = None
    BY <1>11, <2>1, PersistFacts, ServiceAssumption DEF ConnHeld, RowsReadAreCurrent
  <2>2. CASE UNCHANGED entries
    BY <1>9, <1>11, <2>2, PersistFacts
  <2> QED
    BY <1>11, <2>1, <2>2, PersistFacts
<1>12. ASSUME NEW r \in Requests, NEW f \in Files, Fetch(r, f) \/ Poll(r, f)
       PROVE  RowsReadAreCurrent'
  BY <1>9, <1>12 DEF Fetch, Poll
<1>13. ASSUME NEW p \in Packages, NEW S \in SUBSET Files, NEW n \in 1..MaxRevision,
              Commit(p, S, n)
       PROVE  RowsReadAreCurrent'
  BY <1>9, <1>13 DEF Commit
<1>14. CASE UNCHANGED vars
  BY <1>9, <1>14 DEF vars
<1> QED
  BY <1>3, <1>4, <1>5, <1>6, <1>7, <1>8, <1>10, <1>11, <1>12, <1>13, <1>14
     DEF Next, Handler, Job, Environment, Finished

(* A step after which nobody is in "lock" or "shas" who was not before,    *)
(* with the files and the registry of those who stay as they were.         *)
LEMMA OverlookedFrame ==
  ASSUME NothingOverlooked, UNCHANGED query,
         \A r \in Requests :
           \/ pc'[r] \notin {"lock", "shas"}
           \/ /\ pc'[r] = pc[r] /\ files'[r] = files[r]
              /\ pc[r] = "shas" => UNCHANGED current_tasks
  PROVE  NothingOverlooked'
  BY DEF NothingOverlooked, Listed, PackageOf, Matches, InProgress

LEMMA NothingOverlookedStep ==
  ASSUME IInv, NothingOverlooked, [Next]_vars
  PROVE  NothingOverlooked'
<1>1. TypeOK
  BY DEF IInv
<1> USE DEF handler, registry, job
<1>2. ASSUME NEW r \in Requests, NEW y, y \notin {"lock", "shas"}, pc' = [pc EXCEPT ![r] = y],
             UNCHANGED <<query, files, current_tasks>>
      PROVE  NothingOverlooked'
  BY <1>1, <1>2, OverlookedFrame DEF TypeOK
<1>3. ASSUME NEW r \in Requests, ListFiles(r)
      PROVE  NothingOverlooked'
  <2>1. CASE pc' = [pc EXCEPT ![r] = "replied"] /\ UNCHANGED files
    BY <1>2, <1>3, <2>1 DEF ListFiles
  <2>2. CASE /\ files' = [files EXCEPT ![r] =
                  {[file |-> f, revision |-> head[PackageOf(r)][f]] : f \in Listed(r)}]
             /\ pc' = [pc EXCEPT ![r] = "lock"]
    <3>1. \A f \in Listed(r) : \E x \in files'[r] : x.file = f
      <4> DEFINE entry(f) == [file |-> f, revision |-> head[PackageOf(r)][f]]
      <4>1. files'[r] = {entry(f) : f \in Listed(r)}
        BY <1>1, <2>2 DEF TypeOK
      <4>2. \A f : entry(f).file = f
        OBVIOUS
      <4> HIDE DEF entry
      <4> QED
        BY <4>1, <4>2
    <3>2. /\ UNCHANGED <<query, current_tasks>>
          /\ \A q \in Requests : q # r => pc'[q] = pc[q] /\ files'[q] = files[q]
      BY <1>1, <1>3, <2>2 DEF ListFiles, TypeOK
    <3> QED
      BY <3>1, <3>2 DEF NothingOverlooked, Listed, PackageOf, Matches, InProgress
  <2> QED
    BY <1>3, <2>1, <2>2 DEF ListFiles, Respond
<1>4. ASSUME NEW r \in Requests, LockRegistry(r)
      PROVE  NothingOverlooked'
  <2>1. /\ pc[r] = "lock" /\ pc'[r] = "shas"
        /\ files'[r] = RequestedFiles(r)
        /\ UNCHANGED <<query, current_tasks>>
        /\ \A q \in Requests : q # r => pc'[q] = pc[q] /\ files'[q] = files[q]
    BY <1>1, <1>4 DEF LockRegistry, TypeOK
  <2>2. ASSUME NEW f \in Listed(r)
        PROVE  \/ \E x \in files'[r] : x.file = f
               \/ KindOf[f] = Unrecognized \/ ~Matches(r, f) \/ f \in InProgress(PackageOf(r))
    <3>1. PICK x \in files[r] : x.file = f
      BY <2>1 DEF NothingOverlooked
    <3> QED
      BY <2>1, <3>1 DEF RequestedFiles
  <2> QED
    BY <2>1, <2>2 DEF NothingOverlooked, Listed, PackageOf, Matches, InProgress
<1>5. ASSUME NEW r \in Requests, BuildTasks(r)
      PROVE  NothingOverlooked'
  <2>1. /\ pc'[r] \in {"running", "replied"} /\ UNCHANGED query
        /\ \A q \in Requests : q # r => pc'[q] = pc[q] /\ pc[q] # "shas" /\ files'[q] = files[q]
    BY <1>5, BuildTasksFacts
  <2> QED
    BY <2>1, OverlookedFrame
<1>6. ASSUME NEW r \in Requests, RecordCompletion(r)
      PROVE  NothingOverlooked'
  <2>1. lock = None /\ UNCHANGED <<query, pc, files>>
    BY <1>6 DEF RecordCompletion
  <2>2. \A q \in Requests : pc[q] # "shas"
    BY <2>1, ServiceAssumption DEF IInv, LockHeld
  <2> QED
    BY <2>1, <2>2, OverlookedFrame
<1>7. ASSUME NEW r \in Requests, Failure(r)
      PROVE  NothingOverlooked'
  <2>1. /\ UNCHANGED <<query, files, current_tasks>>
        /\ \A q \in Requests : pc'[q] = pc[q] \/ pc'[q] = "replied"
    BY <1>7, FailureFacts
  <2> QED
    BY <2>1, OverlookedFrame
<1>8. CASE Crash
  BY <1>1, <1>8, CrashFacts, OverlookedFrame
<1>9. CASE UNCHANGED <<query, pc, files, current_tasks>>
  BY <1>9, OverlookedFrame
<1>10. ASSUME NEW r \in Requests,
              Arrive(r) \/ TakeConn(r) \/ ConnTimeout(r) \/ ReadInProgress(r) \/ FinishSync(r)
       PROVE  NothingOverlooked'
  BY <1>2, <1>10 DEF Arrive, TakeConn, ConnTimeout, ReadInProgress, FinishSync, Respond
<1>11. ASSUME NEW r \in Requests, QueryEntries(r) \/ CheckInProgress(r)
       PROVE  NothingOverlooked'
  BY <1>2, <1>11 DEF QueryEntries, CheckInProgress, Respond
<1>12. ASSUME NEW r \in Requests, Stamp(r) \/ Persist(r) \/ PersistTimeout(r)
       PROVE  NothingOverlooked'
  BY <1>9, <1>12 DEF Stamp, Persist, PersistTimeout
<1>13. ASSUME NEW r \in Requests, NEW f \in Files, Fetch(r, f) \/ Poll(r, f)
       PROVE  NothingOverlooked'
  BY <1>9, <1>13 DEF Fetch, Poll
<1>14. ASSUME NEW p \in Packages, NEW S \in SUBSET Files, NEW n \in 1..MaxRevision,
              Commit(p, S, n)
       PROVE  NothingOverlooked'
  BY <1>9, <1>14 DEF Commit
<1>15. CASE UNCHANGED vars
  BY <1>9, <1>15 DEF vars
<1> QED
  BY <1>3, <1>4, <1>5, <1>6, <1>7, <1>8, <1>10, <1>11, <1>12, <1>13, <1>14, <1>15
     DEF Next, Handler, Job, Environment, Finished

-----------------------------------------------------------------------------
(* Results and rows                                                        *)

LEMMA OneUnsavedResultStep ==
  ASSUME IInv, OneUnsavedResult, [Next]_vars
  PROVE  OneUnsavedResult'
<1>1. TypeOK
  BY DEF IInv
<1> USE DEF handler, registry, job
<1>2. ASSUME UNCHANGED <<query, entries>>,
             \A r \in Requests, f \in Files :
               /\ stage'[r][f] \in Unstored => active'[r] = f
               /\ stage'[r][f] = "saved" => stage[r][f] = "saved"
      PROVE  OneUnsavedResult'
  BY <1>2 DEF OneUnsavedResult, Stored, PackageOf
<1>3. CASE UNCHANGED <<head, query, files, registry, job, entries>>
  BY <1>2, <1>3 DEF OneUnsavedResult
<1>4. ASSUME NEW r \in Requests, ListFiles(r) \/ LockRegistry(r)
      PROVE  OneUnsavedResult'
  BY <1>2, <1>4 DEF ListFiles, LockRegistry, OneUnsavedResult
<1>5. ASSUME NEW r \in Requests, BuildTasks(r)
      PROVE  OneUnsavedResult'
  <2>1. /\ \A f \in Files : stage'[r][f] \in {"none", "fetching"}
        /\ \A q \in Requests : q # r => stage'[q] = stage[q]
        /\ UNCHANGED <<query, active, entries>>
    BY <1>5, BuildTasksFacts
  <2> QED
    BY <1>2, <2>1 DEF OneUnsavedResult, Unstored
<1>6. ASSUME NEW r \in Requests, NEW f \in Files, Fetch(r, f)
      PROVE  OneUnsavedResult'
  BY <1>2, <1>6, FetchFacts DEF OneUnsavedResult, Unstored
<1>7. ASSUME NEW r \in Requests, NEW f \in Files, Poll(r, f)
      PROVE  OneUnsavedResult'
  <2>1. /\ active[r] = None /\ active' = [active EXCEPT ![r] = f]
        /\ UNCHANGED <<query, stage, entries>>
    BY <1>7 DEF Poll
  <2> QED
    BY <1>1, <1>2, <2>1, ServiceAssumption DEF OneUnsavedResult, TypeOK
<1>13. ASSUME NEW r \in Requests, Stamp(r)
       PROVE  OneUnsavedResult'
  <2>1. PICK f : f = active[r]
    OBVIOUS
  <2>2. /\ stage[r][f] = "unstamped" /\ stage'[r][f] = "unsaved"
        /\ \A q \in Requests, g \in Files : q # r \/ g # f => stage'[q][g] = stage[q][g]
        /\ UNCHANGED <<query, active, entries>>
    BY <1>13, <2>1, StampFacts
  <2> QED
    BY <1>2, <2>1, <2>2 DEF OneUnsavedResult
<1>8. ASSUME NEW r \in Requests, RecordCompletion(r)
      PROVE  OneUnsavedResult'
  <2> DEFINE f == active[r]
  <2>1. f \in Files /\ UNCHANGED <<query, entries>>
    BY <1>8, CompletionFacts
  <2>2. \/ stage'[r][f] = "unstamped" /\ UNCHANGED active
        \/ stage'[r][f] = "error" /\ active' = [active EXCEPT ![r] = None] /\ stage[r][f] = "failed"
    BY <1>8, CompletionFacts
  <2>3. \A q \in Requests, g \in Files : q # r \/ g # f => stage'[q][g] = stage[q][g]
    BY <1>8, CompletionFacts
  <2>4. f = active[r]
    OBVIOUS
  <2> HIDE DEF f
  <2>5. \A q \in Requests : q # r => active'[q] = active[q]
    BY <1>1, <2>2 DEF TypeOK
  <2>6. \A g \in Files : g # f => stage[r][g] \notin Unstored
    BY <2>4 DEF OneUnsavedResult
  <2> QED
    BY <1>2, <2>1, <2>2, <2>3, <2>4, <2>5, <2>6 DEF OneUnsavedResult, Unstored
<1>9. ASSUME NEW r \in Requests, Persist(r) \/ PersistTimeout(r)
      PROVE  OneUnsavedResult'
  <2> DEFINE f == active[r]
  <2>1. /\ f \in Files /\ PackageOf(r) \in Packages
        /\ \/ stage'[r][f] = "saved" /\ f \in Stored(PackageOf(r))'
           \/ stage'[r][f] = "lost"
        /\ \A p \in Packages : Stored(p) \subseteq Stored(p)'
    <3>1. f \in Files /\ PackageOf(r) \in Packages
      BY <1>1, <1>9, PersistFacts, QueryFacts
    <3>2. CASE stage'[r][f] = "lost" /\ UNCHANGED entries
      BY <3>1, <3>2 DEF Stored
    <3>3. CASE /\ stage'[r][f] = "saved"
               /\ entries' = [entries EXCEPT ![PackageOf(r)] = @ \cup {RowOf(r, f)}]
      <4>1. RowOf(r, f).file = f
        BY DEF RowOf
      <4>2. /\ RowOf(r, f) \in entries'[PackageOf(r)]
            /\ \A p \in Packages : entries[p] \subseteq entries'[p]
        BY <1>1, <3>1, <3>3 DEF TypeOK
      <4>3. PackageOf(r)' = PackageOf(r)
        BY <1>9, PersistFacts DEF PackageOf
      <4> QED
        BY <3>1, <3>3, <4>1, <4>2, <4>3 DEF Stored
    <3> QED
      BY <1>9, <3>1, <3>2, <3>3, PersistFacts
  <2>2. \A q \in Requests, g \in Files : q # r \/ g # f => stage'[q][g] = stage[q][g]
    BY <1>9, PersistFacts
  <2>3. UNCHANGED query /\ \A q \in Requests : q # r => active'[q] = active[q]
    BY <1>1, <1>9, PersistFacts DEF TypeOK
  <2>4. \A q \in Requests : PackageOf(q) \in Packages /\ PackageOf(q)' = PackageOf(q)
    BY <1>1, <2>3, QueryFacts DEF PackageOf
  <2>5. f = active[r]
    OBVIOUS
  <2> HIDE DEF f
  <2> QED
    BY <2>1, <2>2, <2>3, <2>4, <2>5 DEF OneUnsavedResult, Unstored
<1>10. ASSUME NEW r \in Requests, Failure(r)
       PROVE  OneUnsavedResult'
  <2>1. /\ \A f \in Files : stage'[r][f] \notin Unstored
        /\ \A f \in Files : stage'[r][f] = "saved" => stage[r][f] = "saved"
        /\ \A q \in Requests : q # r => stage'[q] = stage[q] /\ active'[q] = active[q]
        /\ UNCHANGED <<query, entries>>
    <3>1. \A f \in Files :
            stage'[r][f] = IF stage[r][f] \in Waiting THEN "leaked"
                           ELSE IF stage[r][f] \in Unstored THEN "dropped" ELSE stage[r][f]
      BY <1>10, FailureFacts
    <3>2. /\ \A q \in Requests : q # r => stage'[q] = stage[q]
          /\ active' = [active EXCEPT ![r] = None]
          /\ UNCHANGED <<query, entries>>
      BY <1>10, FailureFacts
    <3>3. \A q \in Requests : q # r => active'[q] = active[q]
      BY <1>1, <3>2 DEF TypeOK
    <3> QED
      BY <3>1, <3>2, <3>3 DEF Waiting, Unstored
  <2> QED
    BY <1>2, <2>1 DEF OneUnsavedResult
<1>11. CASE Crash
  <2>1. /\ \A r \in Requests, f \in Files :
              stage'[r][f] \notin Unstored /\ (stage'[r][f] = "saved" => stage[r][f] = "saved")
        /\ UNCHANGED <<query, entries>>
    BY <1>1, <1>11, CrashFacts DEF Pending, Unstored
  <2> QED
    BY <1>2, <2>1
<1>12. ASSUME NEW p \in Packages, NEW S \in SUBSET Files, NEW n \in 1..MaxRevision,
              Commit(p, S, n)
       PROVE  OneUnsavedResult'
  BY <1>2, <1>12 DEF Commit, OneUnsavedResult
<1> QED
  BY <1>3, <1>4, <1>5, <1>6, <1>7, <1>8, <1>9, <1>10, <1>11, <1>12, <1>13, Steps

-----------------------------------------------------------------------------
(* The origin and the order in which results leave the registry            *)

LEMMA HeadGrows ==
  ASSUME TypeOK, NEW p \in Packages, NEW S \in SUBSET Files, NEW n \in 1..MaxRevision,
         Commit(p, S, n)
  PROVE  \A q \in Packages, f \in Files : head[q][f] <= head'[q][f]
<1>1. head' = [head EXCEPT ![p] = [f \in Files |-> IF f \in S THEN n ELSE head[p][f]]]
  BY DEF Commit, TypeOK
<1>2. \A f \in Files : head[p][f] < n
  BY DEF Commit
<1>3. ASSUME NEW q \in Packages, NEW f \in Files
      PROVE  head'[q][f] = head[q][f] \/ (q = p /\ head'[q][f] = n)
  <2>1. head'[p] = [g \in Files |-> IF g \in S THEN n ELSE head[p][g]]
    BY <1>1 DEF TypeOK
  <2>2. CASE q = p
    BY <2>1, <2>2
  <2>3. CASE q # p
    BY <1>1, <2>3 DEF TypeOK
  <2> QED
    BY <2>2, <2>3
<1>4. \A q \in Packages, f \in Files : head[q][f] \in Nat /\ n \in Nat
  BY DEF TypeOK
<1> QED
  BY <1>2, <1>3, <1>4

LEMMA NotAheadStep ==
  ASSUME IInv, StampedAfterRemoval, NotAheadOfOrigin, [Next]_vars
  PROVE  NotAheadOfOrigin'
<1>1. TypeOK
  BY DEF IInv
<1> USE DEF handler, registry, job
<1>2. \A r \in Requests, f \in Files :
        /\ PackageOf(r) \in Packages
        /\ head[PackageOf(r)][f] \in Nat /\ 1 <= head[PackageOf(r)][f]
        /\ revision[r][f] \in Nat /\ content[r][f] \in Nat
  BY <1>1, QueryFacts DEF TypeOK
<1>3. CASE UNCHANGED <<head, query, files, stage, revision, content, created>>
  BY <1>3 DEF NotAheadOfOrigin, PackageOf
<1>4. ASSUME NEW r \in Requests, ListFiles(r)
      PROVE  NotAheadOfOrigin'
  <2>1. CASE UNCHANGED files
    BY <1>3, <1>4, <2>1 DEF ListFiles
  <2>2. CASE files' = [files EXCEPT ![r] =
                {[file |-> f, revision |-> head[PackageOf(r)][f]] : f \in Listed(r)}]
    <3> DEFINE entry(f) == [file |-> f, revision |-> head[PackageOf(r)][f]]
    <3>1. files'[r] = {entry(f) : f \in Listed(r)}
      BY <1>1, <2>2 DEF TypeOK
    <3>2. \A f : entry(f).file = f /\ entry(f).revision = head[PackageOf(r)][f]
      OBVIOUS
    <3>3. Listed(r) \subseteq Files
      BY <1>1, QueryFacts
    <3> HIDE DEF entry
    <3>4. \A x \in files'[r] : x.revision <= head[PackageOf(r)][x.file]
      BY <1>2, <3>1, <3>2, <3>3
    <3>5. \A q \in Requests : q # r => files'[q] = files[q]
      BY <1>1, <2>2 DEF TypeOK
    <3>6. UNCHANGED <<head, query, stage, revision, content, created>>
      BY <1>4 DEF ListFiles
    <3> QED
      BY <3>4, <3>5, <3>6 DEF NotAheadOfOrigin, PackageOf
  <2> QED
    BY <1>4, <2>1, <2>2 DEF ListFiles
<1>5. ASSUME NEW r \in Requests, LockRegistry(r)
      PROVE  NotAheadOfOrigin'
  <2>1. \A q \in Requests : files'[q] \subseteq files[q]
    BY <1>1, <1>5 DEF LockRegistry, RequestedFiles, TypeOK
  <2>2. UNCHANGED <<head, query, stage, revision, content, created>>
    BY <1>5 DEF LockRegistry
  <2> QED
    BY <2>1, <2>2 DEF NotAheadOfOrigin, PackageOf
<1>6. ASSUME NEW r \in Requests, BuildTasks(r)
      PROVE  NotAheadOfOrigin'
  <2>1. /\ \A q \in Requests : q # r =>
             stage'[q] = stage[q] /\ revision'[q] = revision[q] /\ files'[q] = files[q]
        /\ files'[r] = {}
        /\ UNCHANGED <<head, query, content, created>>
    BY <1>6, BuildTasksFacts
  <2>2. \A f \in Files :
          /\ stage[r][f] = "none" /\ stage'[r][f] \in {"none", "fetching"}
          /\ \/ revision'[r][f] = 1
             \/ \E x \in files[r] : x.file = f /\ revision'[r][f] = x.revision
    BY <1>6, BuildTasksFacts
  <2>3. \A f \in Files :
          /\ revision'[r][f] <= head[PackageOf(r)][f]
          /\ created[r][f] = 0 /\ stage'[r][f] \notin {"fetched", "unstamped"}
    BY <1>2, <2>2 DEF NotAheadOfOrigin, StampedAfterRemoval
  <2> QED
    BY <2>1, <2>3 DEF NotAheadOfOrigin, PackageOf
<1>7. ASSUME NEW r \in Requests, NEW f \in Files, Fetch(r, f)
      PROVE  NotAheadOfOrigin'
  <2>1. /\ stage[r][f] = "fetching"
        /\ \/ stage'[r][f] = "fetched" /\ content'[r][f] = head[PackageOf(r)][f]
           \/ stage'[r][f] = "failed" /\ content'[r][f] = content[r][f]
        /\ \A q \in Requests, g \in Files : q # r \/ g # f =>
             stage'[q][g] = stage[q][g] /\ content'[q][g] = content[q][g]
        /\ UNCHANGED <<head, query, files, revision, created>>
    BY <1>7, FetchFacts
  <2>2. created[r][f] = 0
    BY <2>1 DEF StampedAfterRemoval, Waiting
  <2> QED
    BY <1>2, <2>1, <2>2 DEF NotAheadOfOrigin, PackageOf
<1>8. ASSUME NEW r \in Requests, RecordCompletion(r)
      PROVE  NotAheadOfOrigin'
  <2>1. PICK f : f = active[r]
    OBVIOUS
  <2>2. /\ \/ stage[r][f] = "fetched" /\ stage'[r][f] = "unstamped"
           \/ stage'[r][f] = "error"
        /\ \A q \in Requests, g \in Files : q # r \/ g # f => stage'[q][g] = stage[q][g]
        /\ UNCHANGED <<head, query, files, revision, content, created>>
    BY <1>8, <2>1, CompletionFacts
  <2> QED
    BY <2>2 DEF NotAheadOfOrigin, PackageOf
<1>15. ASSUME NEW r \in Requests, Stamp(r)
       PROVE  NotAheadOfOrigin'
  <2>1. PICK f : f = active[r]
    OBVIOUS
  <2>2. /\ stage[r][f] = "unstamped" /\ stage'[r][f] = "unsaved"
        /\ \A q \in Requests, g \in Files : q # r \/ g # f =>
             stage'[q][g] = stage[q][g] /\ created'[q][g] = created[q][g]
        /\ UNCHANGED <<head, query, files, revision, content>>
    BY <1>15, <2>1, StampFacts
  <2> QED
    BY <2>2 DEF NotAheadOfOrigin, PackageOf
<1>9. ASSUME UNCHANGED <<head, query, revision, content, created>>,
             \A q \in Requests : files'[q] \subseteq files[q],
             \A q \in Requests, g \in Files :
               stage'[q][g] \in {"fetched", "unstamped"} => stage'[q][g] = stage[q][g]
      PROVE  NotAheadOfOrigin'
  BY <1>9 DEF NotAheadOfOrigin, PackageOf
<1>10. ASSUME NEW r \in Requests, Persist(r) \/ PersistTimeout(r)
       PROVE  NotAheadOfOrigin'
  <2>1. PICK f : f = active[r]
    OBVIOUS
  <2>2. /\ \A q \in Requests, g \in Files : q # r \/ g # f => stage'[q][g] = stage[q][g]
        /\ stage'[r][f] \in {"saved", "lost"}
        /\ UNCHANGED <<head, query, files, revision, content, created>>
    BY <1>10, <2>1, PersistFacts
  <2> QED
    BY <1>9, <2>2
<1>11. ASSUME NEW r \in Requests, Failure(r)
       PROVE  NotAheadOfOrigin'
  <2>1. /\ \A q \in Requests : q # r => stage'[q] = stage[q]
        /\ UNCHANGED <<head, query, files, revision, content, created>>
    BY <1>11, FailureFacts
  <2>2. \A f \in Files :
          stage'[r][f] = IF stage[r][f] \in Waiting THEN "leaked"
                         ELSE IF stage[r][f] \in Unstored THEN "dropped" ELSE stage[r][f]
    BY <1>11, FailureFacts
  <2>3. \A f \in Files :
          stage'[r][f] \in {"fetched", "unstamped"} => stage'[r][f] = stage[r][f]
    BY <2>2
  <2> QED
    BY <1>9, <2>1, <2>3
<1>12. CASE Crash
  <2>1. /\ \A r \in Requests : files'[r] = {}
        /\ UNCHANGED <<head, query, revision, content, created>>
    BY <1>1, <1>12, CrashFacts
  <2>2. \A r \in Requests, f \in Files : stage'[r][f] \in {"dropped", stage[r][f]}
    BY <1>1, <1>12, CrashFacts
  <2> QED
    BY <1>9, <2>1, <2>2
<1>13. ASSUME NEW p \in Packages, NEW S \in SUBSET Files, NEW n \in 1..MaxRevision,
              Commit(p, S, n)
       PROVE  NotAheadOfOrigin'
  <2>1. \A q \in Packages, f \in Files : head[q][f] <= head'[q][f]
    BY <1>1, <1>13, HeadGrows
  <2>2. \A q \in Packages, f \in Files : head'[q][f] \in Nat
    <3>1. TypeOK'
      BY <1>1, TypeStep
    <3> QED
      BY <3>1 DEF TypeOK
  <2>3. UNCHANGED <<query, files, stage, revision, content, created>>
    BY <1>13 DEF Commit
  <2>4. \A r \in Requests : PackageOf(r)' = PackageOf(r)
    BY <2>3 DEF PackageOf
  <2>5. ASSUME NEW r \in Requests, NEW f \in Files, NEW m \in Nat, m <= head[PackageOf(r)][f]
        PROVE  m <= head'[PackageOf(r)][f]
    BY <1>2, <2>1, <2>2, <2>5
  <2>6. \A r \in Requests, f \in Files :
          /\ revision[r][f] <= head'[PackageOf(r)][f]
          /\ content[r][f] <= head'[PackageOf(r)][f]
    BY <1>2, <2>5 DEF NotAheadOfOrigin
  <2>7. \A r \in Requests : \A x \in files[r] : x.revision <= head'[PackageOf(r)][x.file]
    <3>1. \A r \in Requests : \A x \in files[r] : x.file \in Files /\ x.revision \in Nat
      BY <1>1 DEF TypeOK, File
    <3> QED
      BY <2>5, <3>1 DEF NotAheadOfOrigin
  <2> QED
    BY <2>3, <2>4, <2>6, <2>7 DEF NotAheadOfOrigin
<1>14. ASSUME NEW r \in Requests, NEW f \in Files, Poll(r, f)
       PROVE  NotAheadOfOrigin'
  BY <1>3, <1>14 DEF Poll
<1> QED
  BY <1>3, <1>4, <1>5, <1>6, <1>7, <1>8, <1>10, <1>11, <1>12, <1>13, <1>14, <1>15, Steps

LEMMA StampedStep ==
  ASSUME IInv, StampedAfterRemoval, [Next]_vars
  PROVE  StampedAfterRemoval'
<1>1. TypeOK
  BY DEF IInv
<1> USE DEF handler, registry, job
<1> DEFINE unmarked == {"none", "unstamped"} \cup Waiting
<1>2. ASSUME UNCHANGED created,
             \A q \in Requests, f \in Files :
               /\ stage'[q][f] \in unmarked => stage[q][f] \in unmarked
               /\ stage'[q][f] = "unsaved" => stage[q][f] = "unsaved"
      PROVE  StampedAfterRemoval'
  BY <1>2 DEF StampedAfterRemoval
<1>3. CASE UNCHANGED <<query, stage, created>>
  BY <1>2, <1>3
<1>4. ASSUME NEW r \in Requests, ListFiles(r) \/ LockRegistry(r)
      PROVE  StampedAfterRemoval'
  BY <1>3, <1>4 DEF ListFiles, LockRegistry
<1>5. ASSUME NEW r \in Requests, BuildTasks(r)
      PROVE  StampedAfterRemoval'
  <2>1. /\ \A q \in Requests : q # r => stage'[q] = stage[q]
        /\ \A f \in Files : stage[r][f] = "none" /\ stage'[r][f] \in {"none", "fetching"}
        /\ UNCHANGED <<query, created>>
    BY <1>5, BuildTasksFacts
  <2> QED
    BY <1>2, <2>1
<1>6. ASSUME NEW r \in Requests, NEW f \in Files, Fetch(r, f)
      PROVE  StampedAfterRemoval'
  <2>1. /\ stage[r][f] = "fetching" /\ stage'[r][f] \in {"fetched", "failed"}
        /\ \A q \in Requests, g \in Files : q # r \/ g # f => stage'[q][g] = stage[q][g]
        /\ UNCHANGED <<query, created>>
    BY <1>6, FetchFacts
  <2> QED
    BY <1>2, <2>1 DEF Waiting
<1>7. ASSUME NEW r \in Requests, RecordCompletion(r)
      PROVE  StampedAfterRemoval'
  <2>1. PICK f : f = active[r]
    OBVIOUS
  <2>2. /\ stage[r][f] \in {"fetched", "failed"} /\ stage'[r][f] \in {"unstamped", "error"}
        /\ \A q \in Requests, g \in Files : q # r \/ g # f => stage'[q][g] = stage[q][g]
        /\ UNCHANGED created
    BY <1>7, <2>1, CompletionFacts
  <2> QED
    BY <1>2, <2>2 DEF Waiting
<1>13. ASSUME NEW r \in Requests, Stamp(r)
       PROVE  StampedAfterRemoval'
  <2>1. PICK f : f = active[r]
    OBVIOUS
  <2>2. /\ stage'[r][f] = "unsaved" /\ created'[r][f] # 0
        /\ \A q \in Requests, g \in Files : q # r \/ g # f =>
             stage'[q][g] = stage[q][g] /\ created'[q][g] = created[q][g]
    BY <1>13, <2>1, StampFacts
  <2> QED
    BY <2>2 DEF StampedAfterRemoval, Waiting
<1>8. ASSUME NEW r \in Requests, Persist(r) \/ PersistTimeout(r)
      PROVE  StampedAfterRemoval'
  <2>1. PICK f : f = active[r]
    OBVIOUS
  <2>2. /\ \A q \in Requests, g \in Files : q # r \/ g # f => stage'[q][g] = stage[q][g]
        /\ stage'[r][f] \in {"saved", "lost"}
        /\ UNCHANGED <<query, created>>
    BY <1>8, <2>1, PersistFacts
  <2> QED
    BY <1>2, <2>2 DEF Waiting
<1>9. ASSUME NEW r \in Requests, Failure(r)
      PROVE  StampedAfterRemoval'
  <2>1. /\ \A q \in Requests : q # r => stage'[q] = stage[q]
        /\ UNCHANGED <<query, created>>
    BY <1>9, FailureFacts
  <2>2. \A f \in Files :
          stage'[r][f] = IF stage[r][f] \in Waiting THEN "leaked"
                         ELSE IF stage[r][f] \in Unstored THEN "dropped" ELSE stage[r][f]
    BY <1>9, FailureFacts
  <2> QED
    BY <1>2, <2>1, <2>2 DEF Waiting
<1>10. CASE Crash
  <2>1. /\ \A r \in Requests, f \in Files : stage'[r][f] \in {"dropped", stage[r][f]}
        /\ UNCHANGED <<query, created>>
    BY <1>1, <1>10, CrashFacts
  <2> QED
    BY <1>2, <2>1 DEF Waiting
<1>11. ASSUME NEW r \in Requests, NEW f \in Files, Poll(r, f)
       PROVE  StampedAfterRemoval'
  BY <1>3, <1>11 DEF Poll
<1>12. ASSUME NEW p \in Packages, NEW S \in SUBSET Files, NEW n \in 1..MaxRevision,
              Commit(p, S, n)
       PROVE  StampedAfterRemoval'
  BY <1>3, <1>12 DEF Commit
<1> QED
  BY <1>3, <1>4, <1>5, <1>6, <1>7, <1>8, <1>9, <1>10, <1>11, <1>12, <1>13, Steps

(* No step touches what a row was made from.                               *)
LEMMA ResultsStay ==
  ASSUME IInv, StampedAfterRemoval, [Next]_vars,
         NEW q \in Requests, NEW f \in Files, created[q][f] # 0
  PROVE  /\ query' = query
         /\ created'[q][f] = created[q][f]
         /\ revision'[q][f] = revision[q][f]
         /\ content'[q][f] = content[q][f]
<1>1. TypeOK
  BY DEF IInv
<1> USE DEF handler, registry, job
<1>2. CASE UNCHANGED <<query, revision, content, created>>
  BY <1>2
<1>3. stage[q][f] \notin {"none", "unstamped"} \cup Waiting
  BY DEF StampedAfterRemoval
<1>4. ASSUME NEW r \in Requests, BuildTasks(r)
      PROVE  UNCHANGED <<query, content, created>> /\ revision'[q] = revision[q]
  BY <1>3, <1>4, BuildTasksFacts
<1>5. ASSUME NEW r \in Requests, NEW g \in Files, Fetch(r, g)
      PROVE  UNCHANGED <<query, revision, created>> /\ content'[q][f] = content[q][f]
  BY <1>3, <1>5, FetchFacts DEF Waiting
<1>6. ASSUME NEW r \in Requests, Stamp(r)
      PROVE  UNCHANGED <<query, revision, content>> /\ created'[q][f] = created[q][f]
  <2>1. PICK g : g = active[r]
    OBVIOUS
  <2>2. stage[r][g] = "unstamped" /\ UNCHANGED <<query, revision, content>>
    BY <1>6, <2>1, StampFacts
  <2>3. q # r \/ f # g
    BY <1>3, <2>2
  <2>4. created'[q][f] = created[q][f]
    BY <1>6, <2>1, <2>3, StampFacts
  <2> QED
    BY <2>2, <2>4
<1>7. ASSUME NEW r \in Requests,
             ListFiles(r) \/ LockRegistry(r) \/ RecordCompletion(r) \/ Persist(r)
               \/ PersistTimeout(r)
      PROVE  UNCHANGED <<query, revision, content, created>>
  BY <1>7 DEF ListFiles, LockRegistry, RecordCompletion, Persist, PersistTimeout
<1>8. ASSUME NEW r \in Requests, Failure(r)
      PROVE  UNCHANGED <<query, revision, content, created>>
  BY <1>8, FailureFacts
<1>9. ASSUME NEW r \in Requests, NEW g \in Files, Poll(r, g)
      PROVE  UNCHANGED <<query, revision, content, created>>
  BY <1>9 DEF Poll
<1>10. ASSUME NEW p \in Packages, NEW S \in SUBSET Files, NEW n \in 1..MaxRevision,
              Commit(p, S, n)
       PROVE  UNCHANGED <<query, revision, content, created>>
  BY <1>10 DEF Commit
<1>11. CASE Crash
  BY <1>1, <1>2, <1>11, CrashFacts
<1> QED
  BY <1>2, <1>4, <1>5, <1>6, <1>7, <1>8, <1>9, <1>10, <1>11, Steps

(* The rows a step adds: none, or that of the file a job is completing.    *)
LEMMA NewRows ==
  ASSUME IInv, [Next]_vars
  PROVE  \/ UNCHANGED entries
         \/ \E r \in Requests :
              /\ Persist(r)
              /\ active[r] \in Files
              /\ stage[r][active[r]] = "unsaved"
              /\ entries' = [entries EXCEPT ![PackageOf(r)] = @ \cup {RowOf(r, active[r])}]
<1>1. TypeOK
  BY DEF IInv
<1>2. ASSUME NEW r \in Requests, Persist(r)
      PROVE  /\ active[r] \in Files /\ stage[r][active[r]] = "unsaved"
             /\ entries' = [entries EXCEPT ![PackageOf(r)] = @ \cup {RowOf(r, active[r])}]
  BY <1>1, <1>2 DEF Persist, TypeOK
<1>3. ASSUME NEW r \in Requests,
             ListFiles(r) \/ LockRegistry(r) \/ BuildTasks(r) \/ RecordCompletion(r) \/ Stamp(r)
               \/ PersistTimeout(r) \/ Failure(r)
      PROVE  UNCHANGED entries
  BY <1>3 DEF ListFiles, LockRegistry, BuildTasks, RecordCompletion, Stamp, PersistTimeout,
     Failure, PersistPanic, StatsPanic
<1>4. ASSUME NEW r \in Requests, NEW f \in Files, Fetch(r, f) \/ Poll(r, f)
      PROVE  UNCHANGED entries
  BY <1>4 DEF Fetch, Poll
<1>5. ASSUME NEW p \in Packages, NEW S \in SUBSET Files, NEW n \in 1..MaxRevision,
             Commit(p, S, n)
      PROVE  UNCHANGED entries
  BY <1>5 DEF Commit
<1>6. CASE Crash
  BY <1>6 DEF Crash
<1> QED
  BY <1>2, <1>3, <1>4, <1>5, <1>6, Steps

LEMMA RowsAreResultsStep ==
  ASSUME IInv, StampedAfterRemoval, RowsAreResults, [Next]_vars
  PROVE  RowsAreResults'
<1>1. TypeOK
  BY DEF IInv
<1>2. ASSUME NEW p \in Packages, NEW q \in Requests, NEW e, e.file \in Files,
             PackageOf(q) = p, created[q][e.file] # 0, e = RowOf(q, e.file)
      PROVE  \E r \in Requests :
               PackageOf(r)' = p /\ created'[r][e.file] # 0 /\ e = RowOf(r, e.file)'
  <2>1. /\ query' = query
        /\ created'[q][e.file] = created[q][e.file]
        /\ revision'[q][e.file] = revision[q][e.file]
        /\ content'[q][e.file] = content[q][e.file]
    BY <1>2, ResultsStay
  <2>2. PackageOf(q)' = p /\ RowOf(q, e.file)' = RowOf(q, e.file)
    BY <1>2, <2>1 DEF PackageOf, RowOf
  <2> QED
    BY <1>2, <2>1, <2>2
<1>3. ASSUME NEW p \in Packages, NEW e \in entries[p]
      PROVE  \E r \in Requests :
               PackageOf(r)' = p /\ created'[r][e.file] # 0 /\ e = RowOf(r, e.file)'
  <2>1. e.file \in Files
    BY <1>1 DEF TypeOK, Row
  <2>2. PICK q \in Requests :
          PackageOf(q) = p /\ created[q][e.file] # 0 /\ e = RowOf(q, e.file)
    BY DEF RowsAreResults
  <2> QED
    BY <1>2, <2>1, <2>2
<1>4. CASE UNCHANGED entries
  BY <1>3, <1>4 DEF RowsAreResults
<1>5. ASSUME NEW r \in Requests, active[r] \in Files, stage[r][active[r]] = "unsaved",
             entries' = [entries EXCEPT ![PackageOf(r)] = @ \cup {RowOf(r, active[r])}]
      PROVE  RowsAreResults'
  <2>1. created[r][active[r]] # 0
    BY <1>5 DEF StampedAfterRemoval
  <2>2. PICK new : new = RowOf(r, active[r])
    OBVIOUS
  <2>3. new.file = active[r] /\ new = RowOf(r, new.file)
    BY <2>2 DEF RowOf
  <2>4. PackageOf(r) \in Packages
    BY <1>1, QueryFacts
  <2>5. \A p \in Packages : \A e \in entries'[p] :
          e \in entries[p] \/ (p = PackageOf(r) /\ e = new)
    BY <1>1, <1>5, <2>2, <2>4 DEF TypeOK
  <2>6. \E q \in Requests :
          PackageOf(q)' = PackageOf(r) /\ created'[q][new.file] # 0 /\ new = RowOf(q, new.file)'
    BY <1>2, <1>5, <2>1, <2>4, <2>3
  <2> QED
    BY <1>3, <2>5, <2>6 DEF RowsAreResults
<1> QED
  BY <1>4, <1>5, NewRows

(* The files of the jobs whose tasks the registry has are in progress.     *)
JobsInProgress ==
  \A r \in Requests, f \in Files :
    stage[r][f] \in InRegistry => f \in InProgress(PackageOf(r))

LEMMA JobsAreInProgress == RegistryMatchesJobs => JobsInProgress
<1> SUFFICES ASSUME RegistryMatchesJobs, NEW r \in Requests, NEW f \in Files,
                    stage[r][f] \in InRegistry
             PROVE  f \in InProgress(PackageOf(r))
  BY DEF JobsInProgress
<1>1. [file |-> f, by |-> r] \in current_tasks[PackageOf(r)]
  BY DEF RegistryMatchesJobs
<1>2. [file |-> f, by |-> r].file = f
  OBVIOUS
<1> QED
  BY <1>1, <1>2 DEF InProgress

(* Two futures for one file of a package are never both ready.             *)
LEMMA OneWaiting ==
  ASSUME IInv, NEW q \in Requests, NEW r \in Requests, NEW f \in Files,
         PackageOf(q) = PackageOf(r), stage[q][f] \in InRegistry, stage[r][f] \in InRegistry
  PROVE  q = r
<1>1. /\ [file |-> f, by |-> q] \in current_tasks[PackageOf(r)]
      /\ SameTask([file |-> f, by |-> q], f)
  BY DEF IInv, RegistryMatchesJobs, SameTask
<1>2. [file |-> f, by |-> q] = [file |-> f, by |-> r]
  BY <1>1, OwnTask
<1> QED
  BY <1>2

LEMMA TextsLeaveInOrderStep ==
  ASSUME IInv, StampedAfterRemoval, NotAheadOfOrigin, TextsLeaveInOrder, [Next]_vars
  PROVE  TextsLeaveInOrder'
<1>1. TypeOK
  BY DEF IInv
<1> USE DEF handler, registry, job
<1>2. ASSUME UNCHANGED <<query, content, created>>,
             \A q \in Requests, f \in Files :
               stage'[q][f] \in {"fetched", "unstamped"} => stage'[q][f] = stage[q][f]
      PROVE  TextsLeaveInOrder'
  BY <1>2 DEF TextsLeaveInOrder, PackageOf
<1>3. CASE UNCHANGED <<query, stage, content, created>>
  BY <1>2, <1>3
<1>4. ASSUME NEW r \in Requests, BuildTasks(r)
      PROVE  TextsLeaveInOrder'
  <2>1. /\ \A q \in Requests : q # r => stage'[q] = stage[q]
        /\ \A f \in Files : stage'[r][f] \in {"none", "fetching"}
        /\ UNCHANGED <<query, content, created>>
    BY <1>4, BuildTasksFacts
  <2> QED
    BY <1>2, <2>1
<1>5. ASSUME NEW r \in Requests, NEW f \in Files, Fetch(r, f)
      PROVE  TextsLeaveInOrder'
  <2>1. /\ stage[r][f] = "fetching"
        /\ \/ stage'[r][f] = "fetched" /\ content'[r][f] = head[PackageOf(r)][f]
           \/ stage'[r][f] = "failed" /\ content'[r][f] = content[r][f]
        /\ \A q \in Requests, g \in Files : q # r \/ g # f =>
             stage'[q][g] = stage[q][g] /\ content'[q][g] = content[q][g]
        /\ UNCHANGED <<query, created>>
    BY <1>5, FetchFacts
  <2>2. created[r][f] = 0
    BY <2>1 DEF StampedAfterRemoval, Waiting
  <2>3. ASSUME NEW q \in Requests, NEW s \in Requests, NEW g \in Files,
               PackageOf(q) = PackageOf(s), stage'[s][g] = "fetched",
               stage'[q][g] = "unstamped" \/ created[q][g] # 0
        PROVE  content'[q][g] <= content'[s][g]
    <3>1. q # r \/ g # f
      BY <2>1, <2>2, <2>3
    <3>2. /\ content'[q][g] = content[q][g]
          /\ stage[q][g] = "unstamped" \/ created[q][g] # 0
      BY <2>1, <2>3, <3>1
    <3>3. CASE s = r /\ g = f
      <4>1. content'[s][g] = head[PackageOf(q)][g]
        BY <2>1, <2>3, <3>3
      <4> QED
        BY <3>2, <4>1 DEF NotAheadOfOrigin
    <3>4. CASE s # r \/ g # f
      <4>1. stage[s][g] = "fetched" /\ content'[s][g] = content[s][g]
        BY <2>1, <2>3, <3>4
      <4> QED
        BY <2>3, <3>2, <4>1 DEF TextsLeaveInOrder
    <3> QED
      BY <3>3, <3>4
  <2> QED
    BY <2>1, <2>3 DEF TextsLeaveInOrder, PackageOf
<1>6. ASSUME NEW r \in Requests, RecordCompletion(r)
      PROVE  TextsLeaveInOrder'
  <2>1. PICK f : f = active[r]
    OBVIOUS
  <2>2. /\ f \in Files
        /\ \/ stage[r][f] = "fetched" /\ stage'[r][f] = "unstamped"
           \/ stage'[r][f] = "error"
        /\ \A q \in Requests, g \in Files : q # r \/ g # f => stage'[q][g] = stage[q][g]
        /\ UNCHANGED <<query, content, created>>
    BY <1>6, <2>1, CompletionFacts
  <2>3. CASE stage'[r][f] = "error"
    BY <1>2, <2>2, <2>3
  <2>4. CASE stage[r][f] = "fetched" /\ stage'[r][f] = "unstamped"
    <3>1. \A s \in Requests : PackageOf(r) = PackageOf(s) => stage'[s][f] # "fetched"
      BY <2>2, <2>4, OneWaiting DEF InRegistry, Waiting
    <3> SUFFICES ASSUME NEW q \in Requests, NEW s \in Requests, NEW g \in Files,
                        PackageOf(q) = PackageOf(s), stage'[s][g] = "fetched",
                        stage'[q][g] = "unstamped" \/ created[q][g] # 0
                 PROVE  content[q][g] <= content[s][g]
      BY <2>2 DEF TextsLeaveInOrder, PackageOf
    <3>2. stage[s][g] = "fetched"
      BY <2>2, <2>4
    <3>3. stage[q][g] = "unstamped" \/ created[q][g] # 0
      BY <2>2, <3>1
    <3> QED
      BY <3>2, <3>3 DEF TextsLeaveInOrder
  <2> QED
    BY <2>2, <2>3, <2>4
<1>13. ASSUME NEW r \in Requests, Stamp(r)
       PROVE  TextsLeaveInOrder'
  <2>1. PICK f : f = active[r]
    OBVIOUS
  <2>2. /\ stage[r][f] = "unstamped" /\ stage'[r][f] = "unsaved"
        /\ \A q \in Requests, g \in Files : q # r \/ g # f =>
             stage'[q][g] = stage[q][g] /\ created'[q][g] = created[q][g]
        /\ UNCHANGED <<query, content>>
    BY <1>13, <2>1, StampFacts
  <2> QED
    BY <2>2 DEF TextsLeaveInOrder, PackageOf
<1>7. ASSUME NEW r \in Requests, ListFiles(r) \/ LockRegistry(r)
      PROVE  TextsLeaveInOrder'
  BY <1>3, <1>7 DEF ListFiles, LockRegistry
<1>8. ASSUME NEW r \in Requests, Persist(r) \/ PersistTimeout(r)
      PROVE  TextsLeaveInOrder'
  <2>1. PICK f : f = active[r]
    OBVIOUS
  <2>2. /\ \A q \in Requests, g \in Files : q # r \/ g # f => stage'[q][g] = stage[q][g]
        /\ stage'[r][f] \in {"saved", "lost"}
        /\ UNCHANGED <<query, content, created>>
    BY <1>8, <2>1, PersistFacts
  <2> QED
    BY <1>2, <2>2
<1>9. ASSUME NEW r \in Requests, Failure(r)
      PROVE  TextsLeaveInOrder'
  <2>1. /\ \A q \in Requests : q # r => stage'[q] = stage[q]
        /\ UNCHANGED <<query, content, created>>
    BY <1>9, FailureFacts
  <2>2. \A f \in Files :
          stage'[r][f] = IF stage[r][f] \in Waiting THEN "leaked"
                         ELSE IF stage[r][f] \in Unstored THEN "dropped" ELSE stage[r][f]
    BY <1>9, FailureFacts
  <2> QED
    BY <1>2, <2>1, <2>2
<1>10. CASE Crash
  <2>1. /\ \A r \in Requests, f \in Files : stage'[r][f] \in {"dropped", stage[r][f]}
        /\ UNCHANGED <<query, content, created>>
    BY <1>1, <1>10, CrashFacts
  <2> QED
    BY <1>2, <2>1
<1>11. ASSUME NEW r \in Requests, NEW f \in Files, Poll(r, f)
       PROVE  TextsLeaveInOrder'
  BY <1>3, <1>11 DEF Poll
<1>12. ASSUME NEW p \in Packages, NEW S \in SUBSET Files, NEW n \in 1..MaxRevision,
              Commit(p, S, n)
       PROVE  TextsLeaveInOrder'
  BY <1>3, <1>12 DEF Commit
<1> QED
  BY <1>3, <1>4, <1>5, <1>6, <1>7, <1>8, <1>9, <1>10, <1>11, <1>12, <1>13, Steps

-----------------------------------------------------------------------------
(* The invariant of rows and replies                                       *)

LEMMA RowInvInit == Init => RowInv
<1> SUFFICES ASSUME Init PROVE RowInv
  OBVIOUS
<1>1. TypeOK
  BY TypeInit
<1>2. ConnHeld /\ RowsReadAreCurrent /\ NothingOverlooked /\ OneUnsavedResult
  BY ServiceAssumption DEF Init, ConnHeld, RowsReadAreCurrent, NothingOverlooked,
     OneUnsavedResult, Unstored
<1>3. RowsAreResults /\ TextsLeaveInOrder
  BY DEF Init, RowsAreResults, TextsLeaveInOrder
<1>4. NotAheadOfOrigin
  <2>1. \A r \in Requests, f \in Files :
          head[PackageOf(r)][f] = 1 /\ revision[r][f] = 1 /\ content[r][f] = 1
    BY <1>1, QueryFacts DEF Init
  <2>2. \A r \in Requests : files[r] = {}
    BY DEF Init
  <2> QED
    BY <2>1, <2>2 DEF NotAheadOfOrigin
<1>5. StampedAfterRemoval
  BY DEF Init, StampedAfterRemoval
<1> QED
  BY <1>2, <1>3, <1>4, <1>5 DEF RowInv

LEMMA RowInvStep == IInv /\ RowInv /\ [Next]_vars => RowInv'
<1> SUFFICES ASSUME IInv, RowInv, [Next]_vars
             PROVE  RowInv'
  OBVIOUS
<1>1. ConnHeld' /\ RowsReadAreCurrent' /\ NothingOverlooked' /\ OneUnsavedResult'
  BY ConnHeldStep, RowsReadStep, NothingOverlookedStep, OneUnsavedResultStep DEF RowInv
<1>2. NotAheadOfOrigin' /\ StampedAfterRemoval' /\ RowsAreResults' /\ TextsLeaveInOrder'
  BY NotAheadStep, StampedStep, RowsAreResultsStep, TextsLeaveInOrderStep DEF RowInv
<1> QED
  BY <1>1, <1>2 DEF RowInv

(* Rows and replies depend on the connection, the origin and the order in  *)
(* which results leave the registry as RowInv says, in every reachable     *)
(* state, and whatever the order in which they are stamped and stored.     *)
THEOREM RowInvariant == Spec => []RowInv
  BY RowInvInit, RowInvStep, Invariant, PTL DEF Spec

(* No row's statistics are of a text older than the revision it names,     *)
(* whatever is committed between the listing and the download.             *)
THEOREM RowsNotOlder == Spec => []ContentNotOlder
<1>1. IInv /\ RowInv => ContentNotOlder
  <2> SUFFICES ASSUME IInv, RowInv, NEW p \in Packages, NEW e \in entries[p]
               PROVE  e.content >= e.revision
    BY DEF ContentNotOlder
  <2>1. PICK r \in Requests : created[r][e.file] # 0 /\ e = RowOf(r, e.file)
    BY DEF RowInv, RowsAreResults
  <2>2. e.file \in Files /\ e.content \in Nat /\ e.revision \in Nat
    BY DEF IInv, TypeOK, Row
  <2>3. e.revision = revision[r][e.file] /\ e.content = content[r][e.file]
    BY <2>1 DEF RowOf
  <2>4. revision[r][e.file] <= content[r][e.file]
    BY <2>1, <2>2 DEF RowInv, NotAheadOfOrigin
  <2> QED
    BY <2>2, <2>3, <2>4
<1> QED
  BY <1>1, Invariant, RowInvariant, PTL

(* A job whose task is in the registry is never about to store a text      *)
(* older than the table has: while the task is there, no other request can *)
(* fetch a newer text of its file and have its row stored first.           *)
THEOREM NothingOlderIsPending == Spec => []RegistryIsFreshest
<1>1. IInv /\ RowInv => RegistryIsFreshest
  <2> SUFFICES ASSUME IInv, RowInv, NEW r \in Requests, NEW f \in Files,
                      stage[r][f] = "fetched",
                      NEW e \in entries[PackageOf(r)], e.file = f
               PROVE  e.content <= content[r][f]
    BY DEF RegistryIsFreshest
  <2>1. PackageOf(r) \in Packages
    BY QueryFacts DEF IInv
  <2>2. PICK q \in Requests :
          PackageOf(q) = PackageOf(r) /\ created[q][e.file] # 0 /\ e = RowOf(q, e.file)
    BY <2>1 DEF RowInv, RowsAreResults
  <2>3. e.content = content[q][f]
    BY <2>2 DEF RowOf
  <2> QED
    BY <2>2, <2>3 DEF RowInv, TextsLeaveInOrder
<1> QED
  BY <1>1, Invariant, RowInvariant, PTL
=============================================================================
