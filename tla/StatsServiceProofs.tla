------------------------- MODULE StatsServiceProofs -------------------------
(***************************************************************************)
(* Proofs about StatsService, for any number of requests, packages, files  *)
(* and runtime threads and any choice of faults.                           *)
(***************************************************************************)
EXTENDS StatsService, FiniteSetTheorems, TLAPS

(* Names a request's own package and options as members of their sets, and *)
(* what it can list as files.                                              *)
LEMMA QueryFacts ==
  ASSUME TypeOK, NEW r \in Requests
  PROVE  /\ PackageOf(r) \in Packages
         /\ query[r].async \in BOOLEAN
         /\ Listed(r) \subseteq Files
  BY ServiceAssumption DEF TypeOK, Query, PackageOf, Listed

(* The number of completions of a file is a number.                        *)
LEMMA CreatedIsNat ==
  ASSUME NEW p, NEW f
  PROVE  NextCreated(p, f) \in Nat
<1> DEFINE S == {q \in Requests : PackageOf(q) = p /\ created[q][f] # 0}
<1>1. IsFiniteSet(S)
  BY ServiceAssumption, FS_Subset
<1>2. Cardinality(S) \in Nat
  BY <1>1, FS_CardinalityType
<1> QED
  BY <1>2 DEF NextCreated

(* What Respond leaves in pc and reply.                                    *)
LEMMA RespondType ==
  ASSUME TypeOK, NEW r \in Requests, NEW status \in Status,
         NEW S \in SUBSET Files, NEW T \in SUBSET Files, Respond(r, status, S, T)
  PROVE  /\ pc' \in [Requests -> HandlerPC]
         /\ reply' \in [Requests -> Reply]
  BY DEF TypeOK, Respond, HandlerPC, Reply

(* Assigning to one place of a two-place function, and adding to one value *)
(* of a set-valued one, keep its type.                                     *)
LEMMA AssignType ==
  ASSUME NEW A, NEW B, NEW C, NEW g \in [A -> [B -> C]], NEW a \in A, NEW b \in B, NEW c \in C
  PROVE  [g EXCEPT ![a][b] = c] \in [A -> [B -> C]]
  OBVIOUS

LEMMA AddType ==
  ASSUME NEW A, NEW B, NEW g \in [A -> SUBSET B], NEW a \in A, NEW b \in B
  PROVE  [g EXCEPT ![a] = @ \cup {b}] \in [A -> SUBSET B]
  OBVIOUS

LEMMA SetStageType ==
  ASSUME TypeOK, NEW r \in Requests, NEW f \in Files, NEW s \in Stage, SetStage(r, f, s)
  PROVE  stage' \in [Requests -> [Files -> Stage]]
  BY DEF TypeOK, SetStage

LEMMA InProgressType ==
  ASSUME TypeOK, NEW p \in Packages
  PROVE  InProgress(p) \in SUBSET Files
  BY DEF TypeOK, InProgress, Task

(* What record_new_tasks leaves: its result for a list of new files that   *)
(* is part of the files the handler asked for.                             *)
LEMMA BuildTasksType ==
  ASSUME TypeOK, NEW r \in Requests, BuildTasks(r)
  PROVE  /\ current_tasks' \in [Packages -> SUBSET Task]
         /\ occupied' \subseteq Packages
         /\ stage' \in [Requests -> [Files -> Stage]]
         /\ revision' \in [Requests -> [Files -> 1..MaxRevision]]
         /\ pc' \in [Requests -> HandlerPC]
         /\ reply' \in [Requests -> Reply]
         /\ files' \in [Requests -> SUBSET File]
         /\ lock' = None
         /\ UNCHANGED <<head, query, conn, content, created, active, entries>>
<1>1. PICK new \in WithSha(r) : RecordNewTasks(r, new)
  BY DEF BuildTasks
<1>2. new \subseteq files[r]
  BY <1>1 DEF WithSha
<1>3. new \subseteq File /\ PackageOf(r) \in Packages
  BY <1>2, QueryFacts DEF TypeOK
<1> DEFINE names == {x.file : x \in new}
           tasks == {[file |-> f, by |-> r] : f \in names}
           rev(f) == (CHOOSE x \in new : x.file = f).revision
<1>4. names \subseteq Files /\ tasks \in SUBSET Task
  BY <1>3 DEF File, Task
<1>5. \A f \in names : rev(f) \in 1..MaxRevision
  BY <1>3 DEF File
<1>6. 1 \in 1..MaxRevision
  BY ServiceAssumption
<1>7. current_tasks' = [current_tasks EXCEPT ![PackageOf(r)] = @ \cup tasks]
  BY <1>1 DEF RecordNewTasks
<1>8. /\ stage' = [stage EXCEPT ![r] =
                     [f \in Files |-> IF f \in names THEN "fetching" ELSE "none"]]
      /\ occupied' \in {occupied, occupied \cup {PackageOf(r)}}
  BY <1>1 DEF RecordNewTasks
<1>9. revision' = [revision EXCEPT ![r] = [f \in Files |-> IF f \in names THEN rev(f) ELSE 1]]
  BY <1>1 DEF RecordNewTasks
<1>10. pc' \in [Requests -> HandlerPC] /\ reply' \in [Requests -> Reply]
  <2>1. 404 \in Status /\ 202 \in Status
    BY DEF Status
  <2>2. Reported(r, new) \in SUBSET Files
    BY <1>3, <1>4, InProgressType DEF Reported
  <2>3. CASE Respond(r, 404, {}, {}) \/ Respond(r, 202, {}, Reported(r, new))
    BY <2>1, <2>2, <2>3, RespondType
  <2>4. CASE pc' = [pc EXCEPT ![r] = "running"] /\ UNCHANGED reply
    BY <2>4 DEF TypeOK, HandlerPC
  <2> QED
    BY <1>1, <2>3, <2>4 DEF RecordNewTasks
<1> HIDE DEF names, tasks, rev
<1>11. current_tasks' \in [Packages -> SUBSET Task] /\ occupied' \subseteq Packages
  BY <1>3, <1>4, <1>7, <1>8 DEF TypeOK
<1>12. stage' \in [Requests -> [Files -> Stage]]
  BY <1>8 DEF TypeOK, Stage, Pending, Waiting, Unstored
<1>13. revision' \in [Requests -> [Files -> 1..MaxRevision]]
  BY <1>5, <1>6, <1>9 DEF TypeOK
<1> QED
  BY <1>10, <1>11, <1>12, <1>13 DEF BuildTasks, TypeOK

(* Type correctness, the first conjunct of the inductive invariant.        *)
LEMMA TypeInit == Init => TypeOK
  BY ServiceAssumption DEF Init, TypeOK, HandlerPC, Stage, Pending, Waiting, Unstored, Ended,
     Reply, NoReply, Status

LEMMA TypeStep == TypeOK /\ [Next]_vars => TypeOK'
<1> SUFFICES ASSUME TypeOK, [Next]_vars
             PROVE  TypeOK'
  OBVIOUS
<1> USE DEF handler, registry, job
<1>1. ASSUME NEW r \in Requests, Arrive(r) \/ TakeConn(r)
      PROVE  TypeOK'
  BY <1>1 DEF Arrive, TakeConn, TypeOK, HandlerPC
<1>2. ASSUME NEW r \in Requests, ConnTimeout(r)
      PROVE  TypeOK'
  <2>1. 503 \in Status /\ Respond(r, 503, {}, {})
    BY <1>2 DEF Status, ConnTimeout
  <2>2. pc' \in [Requests -> HandlerPC] /\ reply' \in [Requests -> Reply]
    BY <2>1, RespondType
  <2> QED
    BY <1>2, <2>2 DEF ConnTimeout, TypeOK
<1>3. ASSUME NEW r \in Requests, QueryEntries(r)
      PROVE  TypeOK'
  <2> DEFINE rows == {f \in Stored(PackageOf(r)) : Matches(r, f)}
  <2>1. rows \in SUBSET Files
    BY QueryFacts DEF TypeOK, Stored, Row
  <2>2. [status |-> 0, stats |-> rows, in_progress |-> {}] \in Reply
    BY <2>1 DEF Reply, Status
  <2> HIDE DEF rows
  <2>3. /\ reply' = [reply EXCEPT ![r] = [status |-> 0, stats |-> rows, in_progress |-> {}]]
        /\ pc' = [pc EXCEPT ![r] = IF rows = {} THEN "check" ELSE "progress"]
        /\ UNCHANGED <<head, query, lock, conn, files, registry, job, entries>>
    BY <1>3 DEF QueryEntries, HoldConn, rows
  <2> QED
    BY <2>2, <2>3 DEF TypeOK, HandlerPC
<1>4. ASSUME NEW r \in Requests, CheckInProgress(r) \/ ReadInProgress(r)
      PROVE  TypeOK'
  <2>1. InProgress(PackageOf(r)) \in SUBSET Files
    BY QueryFacts, InProgressType
  <2>2. reply[r].stats \in SUBSET Files
    BY DEF TypeOK, Reply
  <2>3. 429 \in Status /\ 200 \in Status
    BY DEF Status
  <2>4. ASSUME Respond(r, 429, {}, InProgress(PackageOf(r)))
        PROVE  pc' \in [Requests -> HandlerPC] /\ reply' \in [Requests -> Reply]
    BY <2>1, <2>3, <2>4, RespondType
  <2>5. ASSUME Respond(r, 200, reply[r].stats, InProgress(PackageOf(r)))
        PROVE  pc' \in [Requests -> HandlerPC] /\ reply' \in [Requests -> Reply]
    BY <2>1, <2>2, <2>3, <2>5, RespondType
  <2>6. CASE CheckInProgress(r)
    BY <2>4, <2>6 DEF CheckInProgress, DropConn, TypeOK, HandlerPC
  <2>7. CASE ReadInProgress(r)
    BY <2>5, <2>7 DEF ReadInProgress, TypeOK
  <2> QED
    BY <1>4, <2>6, <2>7
<1>5. ASSUME NEW r \in Requests, ListFiles(r)
      PROVE  TypeOK'
  <2> DEFINE listed == {[file |-> f, revision |-> head[PackageOf(r)][f]] : f \in Listed(r)}
  <2>1. listed \in SUBSET File
    BY QueryFacts DEF TypeOK, File
  <2>2. 400 \in Status /\ 1 \in Status
    BY DEF Status
  <2>3. ASSUME Respond(r, 400, {}, {}) \/ Respond(r, 1, {}, {})
        PROVE  pc' \in [Requests -> HandlerPC] /\ reply' \in [Requests -> Reply]
    BY <2>2, <2>3, RespondType
  <2> HIDE DEF listed
  <2>4. /\ \/ /\ files' = [files EXCEPT ![r] = listed]
              /\ pc' = [pc EXCEPT ![r] = "lock"]
              /\ UNCHANGED reply
           \/ Respond(r, 400, {}, {}) /\ UNCHANGED files
           \/ Respond(r, 1, {}, {}) /\ UNCHANGED files
        /\ UNCHANGED <<head, query, lock, conn, registry, job, entries>>
    BY <1>5 DEF ListFiles, listed
  <2> QED
    BY <2>1, <2>3, <2>4 DEF TypeOK, HandlerPC
<1>6. ASSUME NEW r \in Requests, LockRegistry(r)
      PROVE  TypeOK'
  <2>1. RequestedFiles(r) \in SUBSET File
    BY DEF RequestedFiles, TypeOK
  <2> QED
    BY <1>6, <2>1 DEF LockRegistry, TypeOK, HandlerPC
<1>7. ASSUME NEW r \in Requests, BuildTasks(r)
      PROVE  TypeOK'
  BY <1>7, BuildTasksType DEF TypeOK, BuildTasks
<1>8. ASSUME NEW r \in Requests, FinishSync(r)
      PROVE  TypeOK'
  <2>1. 200 \in Status /\ Computed(r) \in SUBSET Files /\ Respond(r, 200, Computed(r), {})
    BY <1>8 DEF Status, Computed, FinishSync
  <2>2. pc' \in [Requests -> HandlerPC] /\ reply' \in [Requests -> Reply]
    BY <2>1, RespondType
  <2> QED
    BY <1>8, <2>2 DEF FinishSync, TypeOK
<1>9. ASSUME NEW r \in Requests, NEW f \in Files, Fetch(r, f)
      PROVE  TypeOK'
  <2>1. "fetched" \in Stage /\ "failed" \in Stage
    BY DEF Stage, Pending, Waiting, Unstored
  <2>2. stage' \in [Requests -> [Files -> Stage]]
    BY <1>9, <2>1, SetStageType DEF Fetch
  <2>3. head[PackageOf(r)][f] \in 1..MaxRevision
    BY QueryFacts DEF TypeOK
  <2>4. content' \in {content, [content EXCEPT ![r][f] = head[PackageOf(r)][f]]}
    BY <1>9 DEF Fetch
  <2>5. content' \in [Requests -> [Files -> 1..MaxRevision]]
    <3> DEFINE C == 1..MaxRevision
               n == head[PackageOf(r)][f]
    <3>1. content \in [Requests -> [Files -> C]] /\ n \in C
      BY <2>3 DEF TypeOK
    <3> HIDE DEF C, n
    <3>2. [content EXCEPT ![r][f] = n] \in [Requests -> [Files -> C]]
      BY <3>1, AssignType
    <3> QED
      BY <2>4, <3>1, <3>2 DEF C, n
  <2> QED
    BY <1>9, <2>2, <2>5 DEF Fetch, TypeOK
<1>10. ASSUME NEW r \in Requests, NEW f \in Files, Poll(r, f)
       PROVE  TypeOK'
  BY <1>10 DEF Poll, TypeOK
<1>11. ASSUME NEW r \in Requests, RecordCompletion(r)
       PROVE  TypeOK'
  <2>1. PackageOf(r) \in Packages /\ active[r] \in Files
    BY <1>11, QueryFacts DEF RecordCompletion, TypeOK
  <2>2. current_tasks' \in [Packages -> SUBSET Task] /\ occupied' \subseteq Packages
    BY <1>11, <2>1 DEF RecordCompletion, VacateKey, TypeOK
  <2>3. "unstamped" \in Stage /\ "error" \in Stage
    BY DEF Stage, Pending, Unstored, Ended
  <2>4. stage' \in [Requests -> [Files -> Stage]]
    BY <1>11, <2>1, <2>3, SetStageType DEF RecordCompletion
  <2>5. active' \in [Requests -> Files \cup {None}]
    BY <1>11 DEF RecordCompletion, TypeOK
  <2> QED
    BY <1>11, <2>2, <2>4, <2>5 DEF RecordCompletion, TypeOK
<1>12. ASSUME NEW r \in Requests, Persist(r) \/ PersistTimeout(r)
       PROVE  TypeOK'
  <2>1. PackageOf(r) \in Packages /\ active[r] \in Files
    BY <1>12, QueryFacts DEF Persist, PersistTimeout, TypeOK
  <2>2. RowOf(r, active[r]) \in Row
    BY <2>1 DEF RowOf, Row, TypeOK
  <2>3. entries' \in {entries, [entries EXCEPT ![PackageOf(r)] = @ \cup {RowOf(r, active[r])}]}
    BY <1>12 DEF Persist, PersistTimeout
  <2>4. entries' \in [Packages -> SUBSET Row]
    <3>1. entries \in [Packages -> SUBSET Row]
      BY DEF TypeOK
    <3> DEFINE row == RowOf(r, active[r])
    <3>2. row \in Row
      BY <2>2
    <3> HIDE DEF row
    <3>3. [entries EXCEPT ![PackageOf(r)] = @ \cup {row}] \in [Packages -> SUBSET Row]
      BY <2>1, <3>1, <3>2, AddType
    <3> QED
      BY <2>3, <3>1, <3>3 DEF row
  <2>5. "saved" \in Stage /\ "lost" \in Stage
    BY DEF Stage, Ended
  <2>6. stage' \in [Requests -> [Files -> Stage]]
    BY <1>12, <2>1, <2>5, SetStageType DEF Persist, PersistTimeout
  <2>7. active' \in [Requests -> Files \cup {None}]
    BY <1>12 DEF Persist, PersistTimeout, TypeOK
  <2> QED
    BY <1>12, <2>4, <2>6, <2>7 DEF Persist, PersistTimeout, TypeOK
<1>13. ASSUME NEW r \in Requests, Failure(r)
       PROVE  TypeOK'
  <2>1. /\ Die(r)
        /\ UNCHANGED <<head, lock, conn, registry, revision, content, created, entries>>
    BY <1>13 DEF Failure, PersistPanic, StatsPanic
  <2>2. /\ pc' \in [Requests -> HandlerPC]
        /\ reply' \in [Requests -> Reply]
        /\ UNCHANGED <<query, files>>
    <3>1. 1 \in Status
      BY DEF Status
    <3>2. CASE query[r].async
      BY <2>1, <3>2 DEF Die, TypeOK
    <3>3. CASE ~query[r].async
      <4>1. Respond(r, 1, {}, {}) /\ UNCHANGED <<query, files>>
        BY <2>1, <3>3 DEF Die
      <4> QED
        BY <3>1, <4>1, RespondType
    <3> QED
      BY <3>2, <3>3
  <2>3. /\ stage' \in [Requests -> [Files -> Stage]]
        /\ active' \in [Requests -> Files \cup {None}]
    BY <2>1 DEF Die, TypeOK, Stage, Ended
  <2> QED
    BY <2>1, <2>2, <2>3 DEF TypeOK
<1>14. ASSUME NEW p \in Packages, NEW S \in SUBSET Files, NEW n \in 1..MaxRevision,
              Commit(p, S, n)
       PROVE  TypeOK'
  <2>1. head' \in [Packages -> [Files -> 1..MaxRevision]]
    BY <1>14 DEF Commit, TypeOK
  <2> QED
    BY <1>14, <2>1 DEF Commit, TypeOK
<1>15. CASE Crash
  <2>1. pc' \in [Requests -> HandlerPC]
    BY <1>15 DEF Crash, HandlerPC
  <2>2. reply' \in [Requests -> Reply]
    BY <1>15 DEF Crash, TypeOK, Reply, Status
  <2>3. stage' \in [Requests -> [Files -> Stage]]
    BY <1>15 DEF Crash, TypeOK, Stage, Ended
  <2> QED
    BY <1>15, <2>1, <2>2, <2>3 DEF Crash, TypeOK
<1>17. ASSUME NEW r \in Requests, Stamp(r)
       PROVE  TypeOK'
  <2>1. active[r] \in Files /\ "unsaved" \in Stage
    BY <1>17 DEF Stamp, TypeOK, Stage, Pending, Unstored
  <2>2. stage' \in [Requests -> [Files -> Stage]]
    BY <1>17, <2>1, SetStageType DEF Stamp
  <2>3. created' \in [Requests -> [Files -> Nat]]
    <3> DEFINE n == NextCreated(PackageOf(r), active[r])
    <3>1. n \in Nat
      BY CreatedIsNat
    <3>2. created' = [created EXCEPT ![r][active[r]] = n]
      BY <1>17 DEF Stamp
    <3>3. created \in [Requests -> [Files -> Nat]]
      BY DEF TypeOK
    <3> HIDE DEF n
    <3>4. [created EXCEPT ![r][active[r]] = n] \in [Requests -> [Files -> Nat]]
      BY <2>1, <3>1, <3>3, AssignType
    <3> QED
      BY <3>2, <3>4
  <2> QED
    BY <1>17, <2>2, <2>3 DEF Stamp, TypeOK
<1>16. CASE UNCHANGED vars
  BY <1>16 DEF TypeOK, vars
<1> QED
  BY <1>1, <1>2, <1>3, <1>4, <1>5, <1>6, <1>7, <1>8, <1>9, <1>10, <1>11, <1>12, <1>13,
     <1>14, <1>15, <1>16, <1>17 DEF Next, Handler, Job, Failure, Environment, Finished

(* The state is always of its type, whatever clients, origin and faults do.*)
THEOREM TypeCorrect == Spec => []TypeOK
  BY TypeInit, TypeStep, PTL DEF Spec

-----------------------------------------------------------------------------
(* The inductive invariant *)

LEMMA InvInit == Init => IInv
<1> SUFFICES ASSUME Init PROVE IInv
  OBVIOUS
<1>1. TypeOK
  BY TypeInit
<1>2. LockHeld /\ OneListingPerFile /\ FilterStillValid
  BY ServiceAssumption DEF Init, LockHeld, OneListingPerFile, FilterStillValid
<1>3. OneTaskPerFile /\ KeysAreBusyPackages
  BY DEF Init, OneTaskPerFile, KeysAreBusyPackages
<1>4. RegistryMatchesJobs
  BY <1>1, QueryFacts DEF Init, RegistryMatchesJobs, InRegistry, Waiting
<1> QED
  BY <1>1, <1>2, <1>3, <1>4 DEF IInv

(* A step that leaves the registry, the lock and the listings alone, and   *)
(* moves handlers and futures only as far as the invariant cannot tell.    *)
LEMMA Frame ==
  ASSUME IInv, TypeOK',
         UNCHANGED <<query, lock, registry, files>>,
         \A q \in Requests :
           /\ pc'[q] = "shas" <=> pc[q] = "shas"
           /\ pc[q] \in {"running", "replied"} => pc'[q] \in {"running", "replied"},
         \A q \in Requests, f \in Files :
           /\ stage'[q][f] \in InRegistry <=> stage[q][f] \in InRegistry
           /\ pc'[q] \notin {"running", "replied"} => stage'[q][f] = stage[q][f]
  PROVE  IInv'
<1> USE DEF registry
<1>1. LockHeld' /\ OneListingPerFile'
  BY DEF IInv, LockHeld, OneListingPerFile
<1>2. FilterStillValid'
  BY DEF IInv, FilterStillValid, InProgress, PackageOf
<1>3. OneTaskPerFile' /\ KeysAreBusyPackages'
  BY DEF IInv, OneTaskPerFile, KeysAreBusyPackages
<1>4. RegistryMatchesJobs'
  BY DEF IInv, RegistryMatchesJobs, PackageOf
<1> QED
  BY <1>1, <1>2, <1>3, <1>4 DEF IInv

(* What the invariant says of the file a job is completing: its task is in *)
(* the registry, and it is the only one for that file.                     *)
LEMMA OwnTask ==
  ASSUME IInv, NEW r \in Requests, NEW f \in Files, stage[r][f] \in InRegistry
  PROVE  /\ [file |-> f, by |-> r] \in current_tasks[PackageOf(r)]
         /\ \A t \in current_tasks[PackageOf(r)] :
              SameTask(t, f) => t = [file |-> f, by |-> r]
<1>1. TypeOK /\ RegistryMatchesJobs /\ OneTaskPerFile
  BY DEF IInv
<1>2. [file |-> f, by |-> r] \in current_tasks[PackageOf(r)]
  BY <1>1 DEF RegistryMatchesJobs
<1>3. PackageOf(r) \in Packages
  BY <1>1, QueryFacts
<1> QED
  BY <1>1, <1>2, <1>3 DEF OneTaskPerFile, SameTask

LEMMA ListFilesInv ==
  ASSUME IInv, TypeOK', NEW r \in Requests, ListFiles(r)
  PROVE  IInv'
<1> USE DEF registry, job
<1>1. TypeOK /\ pc[r] = "list"
  BY DEF IInv, ListFiles
<1>2. CASE UNCHANGED files
  <2>1. pc' = [pc EXCEPT ![r] = "replied"] \/ pc' = [pc EXCEPT ![r] = "lock"]
    BY DEF ListFiles, Respond
  <2> QED
    BY <1>1, <1>2, <2>1, Frame DEF ListFiles, TypeOK
<1>3. CASE /\ files' = [files EXCEPT ![r] =
                {[file |-> f, revision |-> head[PackageOf(r)][f]] : f \in Listed(r)}]
           /\ pc' = [pc EXCEPT ![r] = "lock"]
  <2>1. UNCHANGED <<query, lock, current_tasks, occupied, stage>>
    BY DEF ListFiles
  <2>2. LockHeld'
    BY <1>1, <1>3, <2>1 DEF IInv, LockHeld, TypeOK
  <2>3. OneListingPerFile'
    BY <1>1, <1>3 DEF IInv, OneListingPerFile, TypeOK
  <2>4. FilterStillValid'
    BY <1>1, <1>3, <2>1 DEF IInv, FilterStillValid, TypeOK, InProgress, PackageOf
  <2>5. OneTaskPerFile' /\ KeysAreBusyPackages' /\ RegistryMatchesJobs'
    BY <2>1 DEF IInv, OneTaskPerFile, KeysAreBusyPackages, RegistryMatchesJobs, PackageOf
  <2> QED
    BY <2>2, <2>3, <2>4, <2>5 DEF IInv
<1> QED
  BY <1>2, <1>3 DEF ListFiles

LEMMA LockRegistryInv ==
  ASSUME IInv, TypeOK', NEW r \in Requests, LockRegistry(r)
  PROVE  IInv'
<1> USE DEF registry, job
<1>1. /\ TypeOK
      /\ pc[r] = "lock" /\ lock = None /\ lock' = r
      /\ files' = [files EXCEPT ![r] = RequestedFiles(r)]
      /\ pc' = [pc EXCEPT ![r] = "shas"]
      /\ UNCHANGED <<query, current_tasks, occupied, stage>>
  BY DEF IInv, LockRegistry
<1>2. /\ RequestedFiles(r) \subseteq files[r]
      /\ \A x \in RequestedFiles(r) : x.file \notin InProgress(PackageOf(r))
  BY DEF RequestedFiles
<1>3. LockHeld'
  BY <1>1, ServiceAssumption DEF IInv, LockHeld, TypeOK
<1>4. OneListingPerFile'
  BY <1>1, <1>2 DEF IInv, OneListingPerFile, TypeOK
<1>5. FilterStillValid'
  <2>1. \A q \in Requests : q # r => pc'[q] # "shas"
    BY <1>1, ServiceAssumption DEF IInv, LockHeld, TypeOK
  <2>2. \A x \in files'[r] : x.file \notin InProgress(PackageOf(r))'
    BY <1>1, <1>2 DEF TypeOK, InProgress, PackageOf
  <2> QED
    BY <1>1, <2>1, <2>2 DEF IInv, FilterStillValid, TypeOK
<1>6. OneTaskPerFile' /\ KeysAreBusyPackages' /\ RegistryMatchesJobs'
  BY <1>1 DEF IInv, OneTaskPerFile, KeysAreBusyPackages, RegistryMatchesJobs, PackageOf
<1> QED
  BY <1>3, <1>4, <1>5, <1>6 DEF IInv

(* The handler inserts, under the lock it took to filter, tasks for files  *)
(* that have none.                                                         *)
LEMMA BuildTasksInv ==
  ASSUME IInv, TypeOK', NEW r \in Requests, BuildTasks(r)
  PROVE  IInv'
<1>1. PICK new \in WithSha(r) : RecordNewTasks(r, new)
  BY DEF BuildTasks
<1> DEFINE p == PackageOf(r)
           names == {x.file : x \in new}
           tasks == {[file |-> f, by |-> r] : f \in names}
<1>2. /\ TypeOK /\ lock = r /\ pc[r] = "shas"
      /\ p \in Packages
      /\ \A f \in names : f \in Files /\ f \notin InProgress(p)
      /\ \A f \in Files : stage[r][f] = "none"
  <2>1. TypeOK /\ pc[r] = "shas" /\ lock = r
    BY DEF IInv, BuildTasks, LockHeld
  <2>2. \A x \in new : x \in files[r] /\ x \in File
    BY <1>1, <2>1 DEF WithSha, TypeOK
  <2>3. \A f \in names : f \in Files /\ f \notin InProgress(p)
    BY <2>1, <2>2 DEF IInv, FilterStillValid, File
  <2> QED
    BY <2>1, <2>3, QueryFacts DEF IInv, FilterStillValid
<1>3. /\ current_tasks' = [current_tasks EXCEPT ![p] = @ \cup tasks]
      /\ occupied' = IF new = {} THEN occupied ELSE occupied \cup {p}
      /\ stage' = [stage EXCEPT ![r] =
                     [f \in Files |-> IF f \in names THEN "fetching" ELSE "none"]]
  BY <1>1 DEF RecordNewTasks
<1>4. /\ lock' = None
      /\ files' = [files EXCEPT ![r] = {}]
      /\ UNCHANGED query
  BY DEF BuildTasks
<1>5. pc' = [pc EXCEPT ![r] = "replied"] \/ pc' = [pc EXCEPT ![r] = "running"]
  BY <1>1 DEF RecordNewTasks, Respond
<1>6. new = {} <=> tasks = {}
  OBVIOUS
<1> HIDE DEF names
<1>7. /\ \A t \in tasks : t.file \in names /\ t.by = r /\ t = [file |-> t.file, by |-> r]
      /\ \A f : [file |-> f, by |-> r] \in tasks <=> f \in names
  <2>1. \A t \in tasks : t.file \in names /\ t.by = r /\ t = [file |-> t.file, by |-> r]
    OBVIOUS
  <2>2. \A f : [file |-> f, by |-> r].file = f
    OBVIOUS
  <2>3. \A f : f \in names => [file |-> f, by |-> r] \in tasks
    OBVIOUS
  <2> QED
    BY <2>1, <2>2, <2>3
<1> HIDE DEF p, tasks
<1>8. \A q \in Packages : current_tasks'[q] =
        IF q = p THEN current_tasks[q] \cup tasks ELSE current_tasks[q]
  BY <1>2, <1>3 DEF TypeOK
<1>9. \A q \in Requests : pc'[q] # "shas"
  BY <1>2, <1>5 DEF IInv, LockHeld, TypeOK
<1>10. LockHeld' /\ OneListingPerFile'
  <2>1. LockHeld'
    BY <1>4, <1>9, ServiceAssumption DEF LockHeld
  <2>2. OneListingPerFile'
    BY <1>2, <1>4 DEF IInv, OneListingPerFile, TypeOK
  <2> QED
    BY <2>1, <2>2
<1>11. FilterStillValid'
  BY <1>2, <1>3, <1>5, <1>9 DEF IInv, FilterStillValid, TypeOK
<1>12. OneTaskPerFile'
  <2> SUFFICES ASSUME NEW q \in Packages, NEW t \in current_tasks'[q], NEW u \in current_tasks'[q],
                      t.file = u.file
               PROVE  t = u
    BY DEF OneTaskPerFile
  <2>1. CASE t \in current_tasks[q] /\ u \in current_tasks[q]
    BY <2>1 DEF IInv, OneTaskPerFile
  <2>2. CASE q = p /\ t \in tasks /\ u \in tasks
    BY <1>7, <2>2
  <2>3. CASE /\ q = p
             /\ \/ t \in tasks /\ u \in current_tasks[p]
                \/ u \in tasks /\ t \in current_tasks[p]
    BY <1>2, <1>7, <2>3 DEF InProgress
  <2>4. CASE q = p
    <3>1. t \in current_tasks[p] \cup tasks /\ u \in current_tasks[p] \cup tasks
      BY <1>8, <2>4
    <3>2. \/ t \in current_tasks[q] /\ u \in current_tasks[q]
          \/ t \in tasks /\ u \in tasks
          \/ t \in tasks /\ u \in current_tasks[p]
          \/ u \in tasks /\ t \in current_tasks[p]
      BY <2>4, <3>1
    <3> QED
      BY <2>1, <2>2, <2>3, <2>4, <3>2
  <2>5. CASE q # p
    BY <1>8, <2>1, <2>5
  <2> QED
    BY <2>4, <2>5
<1>13. RegistryMatchesJobs'
  <2>1. ASSUME NEW q \in Requests, NEW f \in Files
        PROVE  [file |-> f, by |-> q] \in current_tasks'[PackageOf(q)]
                 <=> stage'[q][f] \in InRegistry
    <3>1. PackageOf(q) \in Packages
      BY <1>2, QueryFacts
    <3>2. CASE q = r
      <4>1. [file |-> f, by |-> r] \notin current_tasks[p]
        BY <1>2 DEF IInv, RegistryMatchesJobs, InRegistry, Waiting, p
      <4>2. [file |-> f, by |-> r] \in current_tasks'[p] <=> f \in names
        <5>1. current_tasks'[p] = current_tasks[p] \cup tasks
          BY <1>2, <1>8
        <5> QED
          BY <1>7, <4>1, <5>1
      <4>3. stage'[r][f] \in InRegistry <=> f \in names
        BY <1>2, <1>3 DEF TypeOK, InRegistry, Waiting
      <4> QED
        BY <3>2, <4>2, <4>3 DEF p
    <3>3. CASE q # r
      <4>1. [file |-> f, by |-> q] \notin tasks
        BY <1>7, <3>3
      <4>2. stage'[q][f] = stage[q][f]
        BY <1>2, <1>3, <3>3 DEF TypeOK
      <4> QED
        BY <1>8, <3>1, <4>1, <4>2 DEF IInv, RegistryMatchesJobs
    <3> QED
      BY <3>2, <3>3
  <2>2. ASSUME NEW q \in Packages, NEW t \in current_tasks'[q]
        PROVE  PackageOf(t.by) = q
    BY <1>7, <1>8, <2>2 DEF IInv, RegistryMatchesJobs, p
  <2> QED
    BY <1>4, <2>1, <2>2 DEF RegistryMatchesJobs, PackageOf
<1>14. KeysAreBusyPackages'
  BY <1>2, <1>3, <1>6, <1>8 DEF IInv, KeysAreBusyPackages
<1> QED
  BY <1>10, <1>11, <1>12, <1>13, <1>14 DEF IInv

(* A completion removes the job's own task and no other.                   *)
LEMMA CompletionRemovesOwnTask ==
  ASSUME IInv, NEW r \in Requests, RecordCompletion(r)
  PROVE  LET own == [file |-> active[r], by |-> r]
             p   == PackageOf(r)
         IN /\ p \in Packages /\ active[r] \in Files
            /\ own \in current_tasks[p]
            /\ current_tasks' = [current_tasks EXCEPT ![p] = @ \ {own}]
            /\ occupied' = VacateKey(p, own)
            /\ \E s \in {"unstamped", "error"} : SetStage(r, active[r], s)
<1>1. TypeOK
  BY DEF IInv
<1>2. /\ PackageOf(r) \in Packages
      /\ active[r] \in Files
      /\ stage[r][active[r]] \in InRegistry
  BY <1>1, QueryFacts DEF RecordCompletion, TypeOK, InRegistry, Waiting
<1>3. /\ [file |-> active[r], by |-> r] \in current_tasks[PackageOf(r)]
      /\ \A t \in current_tasks[PackageOf(r)] :
           SameTask(t, active[r]) => t = [file |-> active[r], by |-> r]
  BY <1>2, OwnTask
<1>4. SameTask([file |-> active[r], by |-> r], active[r])
  BY DEF SameTask
<1>5. \E s \in {"unstamped", "error"} : SetStage(r, active[r], s)
  BY DEF RecordCompletion
<1> QED
  BY <1>2, <1>3, <1>4, <1>5 DEF RecordCompletion

LEMMA RecordCompletionInv ==
  ASSUME IInv, TypeOK', NEW r \in Requests, RecordCompletion(r)
  PROVE  IInv'
<1> DEFINE f == active[r]
           own == [file |-> f, by |-> r]
           p == PackageOf(r)
<1>1. /\ p \in Packages /\ f \in Files
      /\ own \in current_tasks[p]
      /\ current_tasks' = [current_tasks EXCEPT ![p] = @ \ {own}]
      /\ occupied' = VacateKey(p, own)
      /\ \E s \in {"unstamped", "error"} : SetStage(r, f, s)
  BY CompletionRemovesOwnTask
<1>2. /\ TypeOK /\ lock = None
      /\ stage[r][f] \in {"fetched", "failed"}
      /\ UNCHANGED <<query, pc, files, lock>>
  BY DEF IInv, RecordCompletion, handler
<1>3. PICK s \in {"unstamped", "error"} : stage' = [stage EXCEPT ![r][f] = s]
  BY <1>1 DEF SetStage
<1>4. \A q \in Packages : current_tasks'[q] =
        IF q = p THEN current_tasks[q] \ {own} ELSE current_tasks[q]
  BY <1>1, <1>2 DEF TypeOK
<1>5. \A q \in Requests, g \in Files :
        stage'[q][g] = IF q = r /\ g = f THEN s ELSE stage[q][g]
  BY <1>1, <1>2, <1>3 DEF TypeOK
<1>6. own.file = f /\ own.by = r
  OBVIOUS
<1>7. \A q \in Requests, g \in Files : [file |-> g, by |-> q] = own <=> q = r /\ g = f
  OBVIOUS
<1>8. LockHeld' /\ OneListingPerFile'
  BY <1>2 DEF IInv, LockHeld, OneListingPerFile
<1>9. FilterStillValid'
  <2>1. \A q \in Requests : pc[q] # "shas"
    BY <1>2, ServiceAssumption DEF IInv, LockHeld
  <2>2. pc[r] \in {"running", "replied"}
    BY <1>1, <1>2 DEF IInv, FilterStillValid
  <2> QED
    BY <1>2, <1>5, <2>1, <2>2 DEF IInv, FilterStillValid
<1> HIDE DEF f, own, p
<1>10. OneTaskPerFile'
  BY <1>4 DEF IInv, OneTaskPerFile
<1>11. RegistryMatchesJobs'
  <2>1. ASSUME NEW q \in Requests, NEW g \in Files
        PROVE  [file |-> g, by |-> q] \in current_tasks'[PackageOf(q)]
                 <=> stage'[q][g] \in InRegistry
    <3>1. PackageOf(q) \in Packages
      BY <1>2, QueryFacts
    <3>2. s \notin InRegistry
      BY <1>3 DEF InRegistry, Waiting
    <3>3. CASE q = r /\ g = f
      <4>1. PackageOf(q) = p /\ own = [file |-> g, by |-> q]
        BY <3>3 DEF p, own
      <4>2. own \notin current_tasks'[p]
        BY <1>4, <3>1, <4>1
      <4>3. stage'[q][g] = s
        BY <1>5, <3>3
      <4> QED
        BY <3>2, <4>1, <4>2, <4>3
    <3>4. CASE ~(q = r /\ g = f)
      BY <1>4, <1>5, <1>7, <3>1, <3>4 DEF IInv, RegistryMatchesJobs
    <3> QED
      BY <3>3, <3>4
  <2>2. ASSUME NEW q \in Packages, NEW t \in current_tasks'[q]
        PROVE  PackageOf(t.by) = q
    BY <1>4, <2>2 DEF IInv, RegistryMatchesJobs
  <2> QED
    BY <1>2, <2>1, <2>2 DEF RegistryMatchesJobs, PackageOf
<1>12. KeysAreBusyPackages'
  BY <1>1, <1>2, <1>4 DEF IInv, KeysAreBusyPackages, VacateKey
<1> QED
  BY <1>8, <1>9, <1>10, <1>11, <1>12 DEF IInv

LEMMA CrashInv ==
  ASSUME IInv, TypeOK', Crash
  PROVE  IInv'
<1>1. TypeOK
  BY DEF IInv
<1>2. \A q \in Requests : pc'[q] # "shas" /\ (pc'[q] = "idle" => pc[q] = "idle")
                           /\ pc'[q] \in {"idle", "replied"}
  BY DEF Crash
<1>3. LockHeld' /\ OneListingPerFile'
  BY <1>2, ServiceAssumption DEF Crash, LockHeld, OneListingPerFile
<1>4. \A q \in Requests, f \in Files :
        stage'[q][f] \notin InRegistry /\ (stage[q][f] = "none" => stage'[q][f] = "none")
  BY <1>1 DEF Crash, TypeOK, InRegistry, Pending, Waiting, Unstored
<1>5. FilterStillValid'
  BY <1>2, <1>4 DEF IInv, FilterStillValid
<1>6. OneTaskPerFile' /\ KeysAreBusyPackages'
  BY DEF Crash, OneTaskPerFile, KeysAreBusyPackages
<1>7. RegistryMatchesJobs'
  <2>1. UNCHANGED query /\ current_tasks' = [p \in Packages |-> {}]
    BY DEF Crash
  <2>2. \A q \in Requests : PackageOf(q)' \in Packages
    BY <1>1, <2>1, QueryFacts DEF PackageOf
  <2> QED
    BY <1>4, <2>1, <2>2 DEF RegistryMatchesJobs
<1> QED
  BY <1>3, <1>5, <1>6, <1>7 DEF IInv

LEMMA InvStep == IInv /\ [Next]_vars => IInv'
<1> SUFFICES ASSUME IInv, [Next]_vars
             PROVE  IInv'
  OBVIOUS
<1>1. TypeOK /\ TypeOK'
  BY TypeStep DEF IInv
<1> USE DEF handler, registry, job
<1>2. ASSUME NEW r \in Requests,
             Arrive(r) \/ TakeConn(r) \/ ConnTimeout(r) \/ QueryEntries(r)
               \/ CheckInProgress(r) \/ ReadInProgress(r) \/ FinishSync(r)
      PROVE  IInv'
  <2>1. \E x \in HandlerPC \ {"shas"} : pc' = [pc EXCEPT ![r] = x]
    BY <1>2 DEF Arrive, TakeConn, ConnTimeout, QueryEntries, CheckInProgress,
       ReadInProgress, FinishSync, Respond, HandlerPC
  <2>2. pc[r] # "shas" /\ (pc[r] = "running" => pc'[r] = "replied") /\ pc[r] # "replied"
    BY <1>1, <1>2 DEF Arrive, TakeConn, ConnTimeout, QueryEntries, CheckInProgress,
       ReadInProgress, FinishSync, Respond, TypeOK
  <2>3. UNCHANGED <<query, lock, registry, files, stage>>
    BY <1>2 DEF Arrive, TakeConn, ConnTimeout, QueryEntries, CheckInProgress,
       ReadInProgress, FinishSync
  <2> QED
    BY <1>1, <2>1, <2>2, <2>3, Frame DEF TypeOK
<1>3. ASSUME NEW r \in Requests, ListFiles(r) \/ LockRegistry(r) \/ BuildTasks(r)
      PROVE  IInv'
  BY <1>1, <1>3, ListFilesInv, LockRegistryInv, BuildTasksInv
<1>4. ASSUME NEW r \in Requests, RecordCompletion(r)
      PROVE  IInv'
  BY <1>1, <1>4, RecordCompletionInv
<1>5. ASSUME NEW r \in Requests, NEW f \in Files, NEW s \in Stage, SetStage(r, f, s),
             stage[r][f] # "none", s \in InRegistry <=> stage[r][f] \in InRegistry,
             UNCHANGED <<handler, lock, registry>>
      PROVE  IInv'
  <2>1. pc[r] \in {"running", "replied"}
    BY <1>5 DEF IInv, FilterStillValid
  <2>2. \A q \in Requests, g \in Files :
          stage'[q][g] = IF q = r /\ g = f THEN s ELSE stage[q][g]
    BY <1>1, <1>5 DEF SetStage, TypeOK
  <2> QED
    BY <1>1, <1>5, <2>1, <2>2, Frame
<1>6. ASSUME NEW r \in Requests, NEW f \in Files, Fetch(r, f)
      PROVE  IInv'
  <2>1. \E s \in {"fetched", "failed"} : SetStage(r, f, s)
    BY <1>6 DEF Fetch
  <2>2. stage[r][f] = "fetching" /\ UNCHANGED <<handler, lock, registry>>
    BY <1>6 DEF Fetch
  <2> QED
    BY <1>5, <2>1, <2>2 DEF Stage, Pending, InRegistry, Waiting
<1>7. ASSUME NEW r \in Requests, Persist(r) \/ PersistTimeout(r)
      PROVE  IInv'
  <2>1. active[r] \in Files /\ \E s \in {"saved", "lost"} : SetStage(r, active[r], s)
    BY <1>1, <1>7 DEF Persist, PersistTimeout, TypeOK
  <2>2. stage[r][active[r]] = "unsaved" /\ UNCHANGED <<handler, lock, registry>>
    BY <1>7 DEF Persist, PersistTimeout
  <2> QED
    BY <1>5, <2>1, <2>2 DEF Stage, Pending, Unstored, Ended, InRegistry, Waiting
<1>14. ASSUME NEW r \in Requests, Stamp(r)
       PROVE  IInv'
  <2>1. active[r] \in Files /\ SetStage(r, active[r], "unsaved")
    BY <1>1, <1>14 DEF Stamp, TypeOK
  <2>2. stage[r][active[r]] = "unstamped" /\ UNCHANGED <<handler, lock, registry>>
    BY <1>14 DEF Stamp
  <2> QED
    BY <1>5, <2>1, <2>2 DEF Stage, Pending, Unstored, InRegistry, Waiting
<1>8. ASSUME NEW r \in Requests, Failure(r)
      PROVE  IInv'
  <2>1. Die(r) /\ UNCHANGED <<lock, registry>>
    BY <1>8 DEF Failure, PersistPanic, StatsPanic
  <2>2. pc[r] \in {"running", "replied"}
    <3>1. \E f \in Files : stage[r][f] # "none"
      BY <1>1, <1>8 DEF Failure, PersistPanic, StatsPanic, TypeOK
    <3> QED
      BY <3>1 DEF IInv, FilterStillValid
  <2>3. UNCHANGED <<query, files>> /\ (UNCHANGED pc \/ pc' = [pc EXCEPT ![r] = "replied"])
    BY <2>1 DEF Die, Respond
  <2>4. \A q \in Requests, f \in Files :
          /\ stage'[q][f] \in InRegistry <=> stage[q][f] \in InRegistry
          /\ q # r => stage'[q][f] = stage[q][f]
    BY <1>1, <2>1 DEF Die, TypeOK, InRegistry, Waiting, Unstored
  <2> QED
    BY <1>1, <2>1, <2>2, <2>3, <2>4, Frame DEF TypeOK
<1>9. CASE UNCHANGED <<handler, lock, registry, stage>>
  BY <1>1, <1>9, Frame
<1>10. CASE Crash
  BY <1>1, <1>10, CrashInv
<1>11. ASSUME NEW r \in Requests, NEW f \in Files, Poll(r, f)
       PROVE  IInv'
  BY <1>9, <1>11 DEF Poll
<1>12. ASSUME NEW p \in Packages, NEW S \in SUBSET Files, NEW n \in 1..MaxRevision,
              Commit(p, S, n)
       PROVE  IInv'
  BY <1>9, <1>12 DEF Commit
<1>13. CASE UNCHANGED vars
  BY <1>9, <1>13 DEF vars
<1> QED
  BY <1>2, <1>3, <1>4, <1>6, <1>7, <1>8, <1>10, <1>11, <1>12, <1>13, <1>14
     DEF Next, Handler, Job, Failure, Environment, Finished

(* The registry, its lock and the jobs agree in every reachable state.     *)
THEOREM Invariant == Spec => []IInv
  BY InvInit, InvStep, PTL DEF Spec

(* No file of a package is ever computed by two jobs at once: the write    *)
(* lock held across the SHA lookups makes filter and insertion one step.   *)
THEOREM SingleFlight == Spec => []OneTaskPerFile
<1>1. IInv => OneTaskPerFile
  BY DEF IInv
<1> QED
  BY <1>1, Invariant, PTL

-----------------------------------------------------------------------------
(* Consequences for clients and for other jobs *)

LEMMA InProgressRepliesStep ==
  IInv /\ InProgressReplies /\ [Next]_vars => InProgressReplies'
<1> SUFFICES ASSUME IInv, InProgressReplies, [Next]_vars
             PROVE  InProgressReplies'
  OBVIOUS
<1>1. TypeOK
  BY DEF IInv
<1>2. reply \in [Requests -> Reply]
  BY <1>1 DEF TypeOK
<1> USE DEF handler, registry, job
<1>3. CASE UNCHANGED reply
  BY <1>3 DEF InProgressReplies
<1>4. ASSUME NEW r \in Requests, NEW status, NEW S, NEW T, Respond(r, status, S, T),
             status \in {202, 429} => T # {}
      PROVE  InProgressReplies'
  <2>1. reply' = [reply EXCEPT ![r] = [status |-> status, stats |-> S, in_progress |-> T]]
    BY <1>4 DEF Respond
  <2> QED
    BY <1>4, <1>2, <2>1 DEF InProgressReplies
<1>5. ASSUME NEW r \in Requests, CheckInProgress(r)
      PROVE  InProgressReplies'
  <2>1. PackageOf(r) \in occupied => InProgress(PackageOf(r)) # {}
    BY DEF IInv, KeysAreBusyPackages, InProgress
  <2> QED
    BY <1>3, <1>4, <1>5, <2>1 DEF CheckInProgress
<1>6. ASSUME NEW r \in Requests, BuildTasks(r)
      PROVE  InProgressReplies'
  <2>1. PICK new \in WithSha(r) : RecordNewTasks(r, new)
    BY <1>6 DEF BuildTasks
  <2>2. ~NothingToDo(r, new) => Reported(r, new) # {}
    BY DEF NothingToDo, Reported
  <2> QED
    BY <1>3, <1>4, <2>1, <2>2 DEF RecordNewTasks
<1>7. ASSUME NEW r \in Requests,
             ConnTimeout(r) \/ ReadInProgress(r) \/ ListFiles(r) \/ FinishSync(r)
      PROVE  InProgressReplies'
  BY <1>3, <1>4, <1>7 DEF ConnTimeout, ReadInProgress, ListFiles, FinishSync
<1>8. ASSUME NEW r \in Requests, QueryEntries(r)
      PROVE  InProgressReplies'
  <2>1. \E S : reply' = [reply EXCEPT ![r] = [status |-> 0, stats |-> S, in_progress |-> {}]]
    BY <1>8 DEF QueryEntries
  <2> QED
    BY <1>2, <2>1 DEF InProgressReplies
<1>9. ASSUME NEW r \in Requests, Failure(r)
      PROVE  InProgressReplies'
  BY <1>3, <1>4, <1>9 DEF Failure, PersistPanic, StatsPanic, Die
<1>10. CASE Crash
  <2>1. \A q \in Requests :
          reply'[q] = reply[q] \/ reply'[q] = [status |-> 1, stats |-> {}, in_progress |-> {}]
    BY <1>10 DEF Crash
  <2> QED
    BY <2>1 DEF InProgressReplies
<1>11. ASSUME NEW r \in Requests,
              Arrive(r) \/ TakeConn(r) \/ LockRegistry(r) \/ RecordCompletion(r)
                \/ Stamp(r) \/ Persist(r) \/ PersistTimeout(r)
       PROVE  InProgressReplies'
  BY <1>3, <1>11 DEF Arrive, TakeConn, LockRegistry, RecordCompletion, Stamp, Persist,
     PersistTimeout
<1>12. ASSUME NEW r \in Requests, NEW f \in Files, Fetch(r, f) \/ Poll(r, f)
       PROVE  InProgressReplies'
  BY <1>3, <1>12 DEF Fetch, Poll
<1>13. ASSUME NEW p \in Packages, NEW S \in SUBSET Files, NEW n \in 1..MaxRevision,
              Commit(p, S, n)
       PROVE  InProgressReplies'
  BY <1>3, <1>13 DEF Commit
<1>14. CASE UNCHANGED vars
  BY <1>3, <1>14 DEF vars
<1> QED
  BY <1>5, <1>6, <1>7, <1>8, <1>9, <1>10, <1>11, <1>12, <1>13, <1>14
     DEF Next, Handler, Job, Failure, Environment, Finished

(* Every 202 and every 429 names a task, because a key of the registry     *)
(* always has tasks.                                                       *)
THEOREM RepliesNameTasks == Spec => []InProgressReplies
<1>1. Init => InProgressReplies
  BY DEF Init, InProgressReplies, NoReply
<1> QED
  BY <1>1, InProgressRepliesStep, Invariant, PTL DEF Spec

LEMMA TakenOutStep == IInv /\ [Next]_vars => [TakenOutByOwner]_vars
<1> SUFFICES ASSUME IInv, [Next]_vars
             PROVE  TakenOutByOwner
  OBVIOUS
<1>1. TypeOK
  BY DEF IInv
<1> USE DEF handler, registry, job
<1>2. CASE \A p \in Packages : current_tasks[p] \subseteq current_tasks'[p]
  BY <1>2 DEF TakenOutByOwner
<1>3. CASE UNCHANGED current_tasks
  BY <1>2, <1>3
<1>4. ASSUME NEW r \in Requests, BuildTasks(r)
      PROVE  TakenOutByOwner
  <2>1. PICK new \in WithSha(r) : RecordNewTasks(r, new)
    BY <1>4 DEF BuildTasks
  <2> DEFINE tasks == {[file |-> f, by |-> r] : f \in {x.file : x \in new}}
  <2>2. current_tasks' = [current_tasks EXCEPT ![PackageOf(r)] = @ \cup tasks]
    BY <2>1 DEF RecordNewTasks
  <2> HIDE DEF tasks
  <2> QED
    BY <1>1, <1>2, <2>2 DEF TypeOK
<1>5. ASSUME NEW r \in Requests, RecordCompletion(r)
      PROVE  TakenOutByOwner
  <2> DEFINE own == [file |-> active[r], by |-> r]
  <2>1. /\ active[r] \in Files
        /\ current_tasks' = [current_tasks EXCEPT ![PackageOf(r)] = @ \ {own}]
        /\ \E s \in {"unstamped", "error"} : SetStage(r, active[r], s)
    BY <1>5, CompletionRemovesOwnTask
  <2>2. own.file = active[r] /\ own.by = r
    OBVIOUS
  <2>3. stage'[r][active[r]] \in {"unstamped", "error"}
    BY <1>1, <2>1 DEF SetStage, TypeOK
  <2> HIDE DEF own
  <2>4. \A p \in Packages : current_tasks[p] \ current_tasks'[p] \subseteq {own}
    BY <1>1, <2>1 DEF TypeOK
  <2> QED
    BY <2>2, <2>3, <2>4 DEF TakenOutByOwner
<1>6. CASE Crash
  <2>1. \A r \in Requests, f \in Files : stage'[r][f] \notin Pending
    BY <1>6 DEF Crash, Pending, Waiting, Unstored
  <2> QED
    BY <2>1 DEF TakenOutByOwner
<1>7. ASSUME NEW r \in Requests,
             Arrive(r) \/ TakeConn(r) \/ ConnTimeout(r) \/ QueryEntries(r)
               \/ CheckInProgress(r) \/ ReadInProgress(r) \/ ListFiles(r)
               \/ LockRegistry(r) \/ FinishSync(r)
      PROVE  TakenOutByOwner
  BY <1>3, <1>7 DEF Arrive, TakeConn, ConnTimeout, QueryEntries, CheckInProgress,
     ReadInProgress, ListFiles, LockRegistry, FinishSync
<1>8. ASSUME NEW r \in Requests, Stamp(r) \/ Persist(r) \/ PersistTimeout(r) \/ Failure(r)
      PROVE  TakenOutByOwner
  BY <1>3, <1>8 DEF Stamp, Persist, PersistTimeout, Failure, PersistPanic, StatsPanic
<1>9. ASSUME NEW r \in Requests, NEW f \in Files, Fetch(r, f) \/ Poll(r, f)
      PROVE  TakenOutByOwner
  BY <1>3, <1>9 DEF Fetch, Poll
<1>10. ASSUME NEW p \in Packages, NEW S \in SUBSET Files, NEW n \in 1..MaxRevision,
              Commit(p, S, n)
       PROVE  TakenOutByOwner
  BY <1>3, <1>10 DEF Commit
<1>11. CASE UNCHANGED vars
  BY <1>3, <1>11 DEF vars
<1> QED
  BY <1>4, <1>5, <1>6, <1>7, <1>8, <1>9, <1>10, <1>11
     DEF Next, Handler, Job, Environment, Finished

(* A job's completion takes out its own task only, so a task disappears    *)
(* from the registry when, and only when, its file is dealt with.          *)
THEOREM OnlyOwnersRemove == Spec => OwnRemoval
  BY TakenOutStep, Invariant, PTL DEF Spec, OwnRemoval
=============================================================================
