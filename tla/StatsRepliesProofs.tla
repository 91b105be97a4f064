------------------------- MODULE StatsRepliesProofs -------------------------
(***************************************************************************)
(* Proofs about what the service answers: what a 200, a 202 and a 404 of   *)
(* StatsService say stays true of the table, the registry and the jobs.    *)
(***************************************************************************)
EXTENDS StatsRowsProofs

(* The steps that answer a request for good, or with something to report.  *)
LEMMA Answers ==
  ASSUME IInv, [Next]_vars, NEW r \in Requests
  PROVE  \/ reply'[r] = reply[r]
         \/ reply'[r].status \notin {200, 202, 404}
         \/ ReadInProgress(r) \/ FinishSync(r) \/ BuildTasks(r)
<1>1. TypeOK
  BY DEF IInv
<1> USE DEF handler, registry, job
<1>2. ASSUME NEW s \in Requests, NEW status, NEW S, NEW T, Respond(s, status, S, T),
             s # r \/ status \notin {200, 202, 404}
      PROVE  reply'[r] = reply[r] \/ reply'[r].status \notin {200, 202, 404}
  BY <1>1, <1>2 DEF Respond, TypeOK
<1>3. CASE UNCHANGED reply
  BY <1>3
<1>4. ASSUME NEW s \in Requests, ConnTimeout(s) \/ ListFiles(s) \/ CheckInProgress(s)
      PROVE  reply'[r] = reply[r] \/ reply'[r].status \notin {200, 202, 404}
  BY <1>2, <1>4 DEF ConnTimeout, ListFiles, CheckInProgress
<1>5. ASSUME NEW s \in Requests, s # r, ReadInProgress(s) \/ FinishSync(s)
      PROVE  reply'[r] = reply[r] \/ reply'[r].status \notin {200, 202, 404}
  BY <1>2, <1>5 DEF ReadInProgress, FinishSync
<1>6. ASSUME NEW s \in Requests, s # r, BuildTasks(s)
      PROVE  reply'[r] = reply[r] \/ reply'[r].status \notin {200, 202, 404}
  <2>1. PICK new \in WithSha(s) : RecordNewTasks(s, new)
    BY <1>6 DEF BuildTasks
  <2> QED
    BY <1>2, <1>6, <2>1 DEF RecordNewTasks
<1>7. ASSUME NEW s \in Requests, QueryEntries(s)
      PROVE  reply'[r] = reply[r] \/ reply'[r].status \notin {200, 202, 404}
  <2>1. PICK S : reply' = [reply EXCEPT ![s] = [status |-> 0, stats |-> S, in_progress |-> {}]]
    BY <1>7 DEF QueryEntries
  <2> QED
    BY <1>1, <2>1 DEF TypeOK
<1>8. ASSUME NEW s \in Requests, Failure(s)
      PROVE  reply'[r] = reply[r] \/ reply'[r].status \notin {200, 202, 404}
  BY <1>8, FailureFacts
<1>9. CASE Crash
  BY <1>1, <1>9, CrashFacts
<1>10. ASSUME NEW s \in Requests,
              Arrive(s) \/ TakeConn(s) \/ LockRegistry(s) \/ RecordCompletion(s)
                \/ Stamp(s) \/ Persist(s) \/ PersistTimeout(s)
       PROVE  UNCHANGED reply
  BY <1>10 DEF Arrive, TakeConn, LockRegistry, RecordCompletion, Stamp, Persist, PersistTimeout
<1>11. ASSUME NEW s \in Requests, NEW f \in Files, Fetch(s, f) \/ Poll(s, f)
       PROVE  UNCHANGED reply
  BY <1>11 DEF Fetch, Poll
<1>12. ASSUME NEW p \in Packages, NEW S \in SUBSET Files, NEW n \in 1..MaxRevision,
              Commit(p, S, n)
       PROVE  UNCHANGED reply
  BY <1>12 DEF Commit
<1>13. CASE UNCHANGED vars
  BY <1>3, <1>13 DEF vars
<1> QED
  BY <1>3, <1>4, <1>5, <1>6, <1>7, <1>8, <1>9, <1>10, <1>11, <1>12, <1>13
     DEF Next, Handler, Job, Environment, Finished

(* No query changes, and no row goes away.                                 *)
LEMMA RowsStay ==
  ASSUME IInv, [Next]_vars
  PROVE  /\ UNCHANGED query
         /\ \A p \in Packages : Stored(p) \subseteq Stored(p)'
<1>1. TypeOK
  BY DEF IInv
<1>2. \A p \in Packages : entries[p] \subseteq entries'[p]
  BY <1>1, NewRows DEF TypeOK
<1>3. UNCHANGED query
  <2> USE DEF handler
  <2>1. ASSUME NEW r \in Requests,
               ListFiles(r) \/ LockRegistry(r) \/ BuildTasks(r) \/ RecordCompletion(r)
                 \/ Stamp(r) \/ Persist(r) \/ PersistTimeout(r)
        PROVE  UNCHANGED query
    BY <2>1 DEF ListFiles, LockRegistry, BuildTasks, RecordCompletion, Stamp, Persist,
       PersistTimeout
  <2>2. ASSUME NEW r \in Requests, NEW f \in Files, Fetch(r, f) \/ Poll(r, f)
        PROVE  UNCHANGED query
    BY <2>2 DEF Fetch, Poll
  <2>3. ASSUME NEW p \in Packages, NEW S \in SUBSET Files, NEW n \in 1..MaxRevision,
               Commit(p, S, n)
        PROVE  UNCHANGED query
    BY <2>3 DEF Commit
  <2>4. ASSUME NEW r \in Requests, Failure(r)
        PROVE  UNCHANGED query
    BY <2>4, FailureFacts
  <2>5. CASE Crash
    BY <2>5 DEF Crash
  <2> QED
    BY <2>1, <2>2, <2>3, <2>4, <2>5, Steps
<1> QED
  BY <1>2, <1>3 DEF Stored

(* How a future goes on: what is over stays as it ended.                   *)
LEMMA StageMoves ==
  ASSUME IInv, [Next]_vars, NEW q \in Requests, NEW f \in Files
  PROVE  /\ stage[q][f] \in {"saved", "lost", "error", "dropped"} => stage'[q][f] = stage[q][f]
         /\ stage[q][f] \in Unstored => stage'[q][f] \in Unstored \cup {"saved", "lost", "dropped"}
         /\ stage[q][f] \in InRegistry =>
              stage'[q][f] \in InRegistry \cup Unstored \cup {"error", "dropped"}
<1>1. TypeOK
  BY DEF IInv
<1> USE DEF handler, registry, job, InRegistry, Waiting, Unstored
<1>2. CASE stage'[q][f] = stage[q][f]
  BY <1>2
<1>3. ASSUME NEW r \in Requests, ListFiles(r) \/ LockRegistry(r)
      PROVE  stage'[q][f] = stage[q][f]
  BY <1>3 DEF ListFiles, LockRegistry
<1>4. ASSUME NEW r \in Requests, BuildTasks(r)
      PROVE  stage'[q][f] = stage[q][f] \/ stage[q][f] = "none"
  BY <1>4, BuildTasksFacts
<1>5. ASSUME NEW r \in Requests, NEW g \in Files, Fetch(r, g)
      PROVE  \/ stage'[q][f] = stage[q][f]
             \/ stage[q][f] = "fetching" /\ stage'[q][f] \in {"fetched", "failed"}
  BY <1>5, FetchFacts
<1>6. ASSUME NEW r \in Requests, NEW g \in Files, Poll(r, g)
      PROVE  stage'[q][f] = stage[q][f]
  BY <1>6 DEF Poll
<1>7. ASSUME NEW r \in Requests, RecordCompletion(r)
      PROVE  \/ stage'[q][f] = stage[q][f]
             \/ stage[q][f] \in {"fetched", "failed"} /\ stage'[q][f] \in {"unstamped", "error"}
  BY <1>7, CompletionFacts
<1>12. ASSUME NEW r \in Requests, Stamp(r)
      PROVE  \/ stage'[q][f] = stage[q][f]
             \/ stage[q][f] = "unstamped" /\ stage'[q][f] = "unsaved"
  BY <1>12, StampFacts
<1>8. ASSUME NEW r \in Requests, Persist(r) \/ PersistTimeout(r)
      PROVE  \/ stage'[q][f] = stage[q][f]
             \/ stage[q][f] = "unsaved" /\ stage'[q][f] \in {"saved", "lost"}
  BY <1>8, PersistFacts
<1>9. ASSUME NEW r \in Requests, Failure(r)
      PROVE  \/ stage'[q][f] = stage[q][f]
             \/ stage[q][f] \in Waiting /\ stage'[q][f] = "leaked"
             \/ stage[q][f] \in Unstored /\ stage'[q][f] = "dropped"
  BY <1>9, FailureFacts
<1>10. CASE Crash
  BY <1>1, <1>10, CrashFacts DEF Pending
<1>11. ASSUME NEW p \in Packages, NEW S \in SUBSET Files, NEW n \in 1..MaxRevision,
              Commit(p, S, n)
       PROVE  stage'[q][f] = stage[q][f]
  BY <1>11 DEF Commit
<1> QED
  BY <1>2, <1>3, <1>4, <1>5, <1>6, <1>7, <1>8, <1>9, <1>10, <1>11, <1>12, Steps

-----------------------------------------------------------------------------
(* 200                                                                     *)

LEMMA NoGapStep == IInv /\ RowInv /\ [Next]_vars => [OmittedIsUnsaved]_vars
<1> SUFFICES ASSUME IInv, RowInv, [Next]_vars,
                    NEW r \in Requests, NEW q \in Requests, NEW f \in Files,
                    pc[r] = "progress", pc'[r] = "replied", reply'[r].status = 200,
                    PackageOf(q) = PackageOf(r), Matches(r, f),
                    f \notin reply'[r].stats \cup reply'[r].in_progress
             PROVE  stage[q][f] \in {"none", "lost", "error", "dropped"} \cup Unstored
  BY DEF OmittedIsUnsaved
<1>1. TypeOK
  BY DEF IInv
<1> USE DEF handler, registry, job
<1>2. ReadInProgress(r)
  <2>1. ASSUME NEW s \in Requests,
               Arrive(s) \/ TakeConn(s) \/ ConnTimeout(s) \/ QueryEntries(s)
                 \/ CheckInProgress(s) \/ ReadInProgress(s) \/ ListFiles(s)
                 \/ LockRegistry(s) \/ BuildTasks(s) \/ FinishSync(s)
        PROVE  ReadInProgress(r)
    <3>1. CASE s = r
      BY <2>1, <3>1 DEF Arrive, TakeConn, ConnTimeout, QueryEntries, CheckInProgress,
         ListFiles, LockRegistry, BuildTasks, FinishSync
    <3>2. CASE s # r
      <4>1. \E y : pc' = [pc EXCEPT ![s] = y]
        <5>1. CASE BuildTasks(s)
          <6>1. PICK new \in WithSha(s) : RecordNewTasks(s, new)
            BY <5>1 DEF BuildTasks
          <6> QED
            BY <6>1 DEF RecordNewTasks, Respond
        <5> QED
          BY <2>1, <5>1 DEF Arrive, TakeConn, ConnTimeout, QueryEntries, CheckInProgress,
             ReadInProgress, ListFiles, LockRegistry, FinishSync, Respond
      <4>2. pc'[r] = pc[r]
        BY <1>1, <3>2, <4>1 DEF TypeOK
      <4> QED
        BY <4>2
    <3> QED
      BY <3>1, <3>2
  <2>2. ASSUME NEW s \in Requests, Failure(s)
        PROVE  FALSE
    <3>1. s # r
      BY <2>2, FailureFacts
    <3> QED
      BY <2>2, <3>1, FailureFacts
  <2>3. CASE Crash
    BY <1>1, <2>3, CrashFacts
  <2>4. ASSUME UNCHANGED pc
        PROVE  FALSE
    BY <2>4
  <2>5. ASSUME NEW s \in Requests,
               RecordCompletion(s) \/ Stamp(s) \/ Persist(s) \/ PersistTimeout(s)
        PROVE  FALSE
    BY <2>4, <2>5 DEF RecordCompletion, Stamp, Persist, PersistTimeout
  <2>6. ASSUME NEW s \in Requests, NEW g \in Files, Fetch(s, g) \/ Poll(s, g)
        PROVE  FALSE
    BY <2>4, <2>6 DEF Fetch, Poll
  <2>7. ASSUME NEW p \in Packages, NEW S \in SUBSET Files, NEW n \in 1..MaxRevision,
               Commit(p, S, n)
        PROVE  FALSE
    BY <2>4, <2>7 DEF Commit
  <2>8. CASE UNCHANGED vars
    BY <2>4, <2>8 DEF vars
  <2> QED
    BY <2>1, <2>2, <2>3, <2>5, <2>6, <2>7, <2>8
       DEF Next, Handler, Job, Environment, Finished
<1>3. /\ reply'[r].stats = reply[r].stats
      /\ reply'[r].in_progress = InProgress(PackageOf(r))
  BY <1>1, <1>2 DEF ReadInProgress, Respond, TypeOK
<1>4. f \notin Stored(PackageOf(r)) /\ f \notin InProgress(PackageOf(r))
  BY <1>3 DEF RowInv, RowsReadAreCurrent
<1>5. stage[q][f] # "saved"
  BY <1>4 DEF RowInv, OneUnsavedResult
<1>6. stage[q][f] \notin InRegistry
  <2>1. JobsInProgress
    BY JobsAreInProgress DEF IInv
  <2> QED
    BY <1>4, <2>1 DEF JobsInProgress
<1>7. stage[q][f] \in Stage
  BY <1>1 DEF TypeOK
<1> QED
  BY <1>5, <1>6, <1>7 DEF Stage, Pending, Waiting, Ended, InRegistry

(* A 200 leaves out no file that some job of its package has stored: the   *)
(* connection is held from the first query to the reading of the registry. *)
THEOREM NothingStoredIsOmitted == Spec => NoGapInReply
  BY NoGapStep, Invariant, RowInvariant, PTL DEF Spec, NoGapInReply

LEMMA ServedIsStoredStep ==
  IInv /\ RowInv /\ ServedIsStored /\ [Next]_vars => ServedIsStored'
<1> SUFFICES ASSUME IInv, RowInv, ServedIsStored, [Next]_vars, NEW r \in Requests,
                    reply'[r].status = 200, NEW f \in reply'[r].stats
             PROVE  f \in Stored(PackageOf(r))' \/ stage'[r][f] = "lost"
  BY DEF ServedIsStored
<1>1. /\ TypeOK
      /\ PackageOf(r)' = PackageOf(r)
      /\ Stored(PackageOf(r)) \subseteq Stored(PackageOf(r))'
  <2>1. TypeOK /\ PackageOf(r) \in Packages
    BY QueryFacts DEF IInv
  <2>2. UNCHANGED query /\ \A p \in Packages : Stored(p) \subseteq Stored(p)'
    BY RowsStay
  <2>3. PackageOf(r)' = PackageOf(r)
    BY <2>2 DEF PackageOf
  <2> QED
    BY <2>1, <2>2, <2>3 DEF Stored
<1>2. CASE reply'[r] = reply[r]
  <2>1. f \in Stored(PackageOf(r)) \/ stage[r][f] = "lost"
    BY <1>2 DEF ServedIsStored
  <2>2. f \in Files
    BY <1>1, <1>2 DEF TypeOK, Reply
  <2> QED
    BY <1>1, <2>1, <2>2, StageMoves
<1>3. CASE ReadInProgress(r)
  <2>1. pc[r] = "progress" /\ reply'[r].stats = reply[r].stats
    BY <1>1, <1>3 DEF ReadInProgress, Respond, TypeOK
  <2>2. f \in Stored(PackageOf(r))
    BY <2>1 DEF RowInv, RowsReadAreCurrent
  <2> QED
    BY <1>1, <2>2
<1>4. CASE FinishSync(r)
  <2>1. reply'[r].stats = Computed(r) /\ UNCHANGED stage
    BY <1>1, <1>4 DEF FinishSync, Respond, TypeOK, job
  <2>2. f \in Files /\ stage[r][f] \in {"saved", "lost"}
    BY <2>1 DEF Computed
  <2>3. stage[r][f] = "saved" => f \in Stored(PackageOf(r))
    BY <2>2 DEF RowInv, OneUnsavedResult
  <2> QED
    BY <1>1, <2>1, <2>2, <2>3
<1>5. ASSUME BuildTasks(r)
      PROVE  reply'[r] = reply[r] \/ reply'[r].status \in {202, 404}
  <2>1. PICK new \in WithSha(r) : RecordNewTasks(r, new)
    BY <1>5 DEF BuildTasks
  <2> QED
    BY <1>1, <2>1 DEF RecordNewTasks, Respond, TypeOK
<1> QED
  BY <1>2, <1>3, <1>4, <1>5, Answers

(* Every file a 200 has statistics of has a row, but for the result of the *)
(* client's own request that found no connection to be stored with.        *)
THEOREM ServedIsInTable == Spec => []ServedIsStored
<1>1. Init => ServedIsStored
  BY DEF Init, ServedIsStored, NoReply
<1> QED
  BY <1>1, ServedIsStoredStep, Invariant, RowInvariant, PTL DEF Spec

-----------------------------------------------------------------------------
(* 202                                                                     *)

LEMMA NothingVanishesStep ==
  IInv /\ IInv' /\ RowInv' /\ NothingVanishes /\ [Next]_vars => NothingVanishes'
<1> SUFFICES ASSUME IInv, IInv', RowInv', NothingVanishes, [Next]_vars, NEW r \in Requests,
                    reply'[r].status = 202, NEW f \in reply'[r].in_progress
             PROVE  \/ f \in InProgress(PackageOf(r))' \cup Stored(PackageOf(r))'
                    \/ \E q \in Requests :
                         /\ PackageOf(q)' = PackageOf(r)'
                         /\ stage'[q][f] \in Unstored \cup {"lost", "error", "dropped"}
  BY DEF NothingVanishes
<1>1. TypeOK /\ TypeOK'
  BY DEF IInv
<1>2. /\ \A q \in Requests : PackageOf(q)' = PackageOf(q)
      /\ PackageOf(r) \in Packages
      /\ Stored(PackageOf(r)) \subseteq Stored(PackageOf(r))'
  <2>1. PackageOf(r) \in Packages
    BY <1>1, QueryFacts
  <2>2. UNCHANGED query /\ \A p \in Packages : Stored(p) \subseteq Stored(p)'
    BY RowsStay
  <2>3. \A q \in Requests : PackageOf(q)' = PackageOf(q)
    BY <2>2 DEF PackageOf
  <2> QED
    BY <2>1, <2>2, <2>3 DEF Stored
<1>3. f \in Files
  <2>1. reply' \in [Requests -> Reply]
    BY <1>1 DEF TypeOK
  <2>2. reply'[r].in_progress \in SUBSET Files
    BY <2>1 DEF Reply
  <2> QED
    BY <2>2
<1>4. ASSUME NEW q \in Requests, PackageOf(q) = PackageOf(r), stage'[q][f] \in InRegistry
      PROVE  f \in InProgress(PackageOf(r))'
  <2>1. RegistryMatchesJobs'
    BY DEF IInv
  <2>2. JobsInProgress'
    BY <2>1, JobsAreInProgress, PTL
  <2>3. f \in InProgress(PackageOf(q))'
    BY <1>3, <1>4, <2>2 DEF JobsInProgress
  <2>4. PackageOf(q)' = PackageOf(r)'
    BY <1>2, <1>4
  <2> QED
    BY <2>3, <2>4 DEF InProgress
<1>5. ASSUME NEW q \in Requests, PackageOf(q) = PackageOf(r),
             stage'[q][f] \in Unstored \cup {"lost", "error", "dropped"}
      PROVE  \E s \in Requests :
               /\ PackageOf(s)' = PackageOf(r)'
               /\ stage'[s][f] \in Unstored \cup {"lost", "error", "dropped"}
  BY <1>2, <1>5
<1>6. CASE reply'[r] = reply[r]
  <2>1. \/ f \in Stored(PackageOf(r))
        \/ f \in InProgress(PackageOf(r))
        \/ \E q \in Requests :
             /\ PackageOf(q) = PackageOf(r)
             /\ stage[q][f] \in Unstored \cup {"lost", "error", "dropped"}
    BY <1>6 DEF NothingVanishes
  <2>2. CASE f \in Stored(PackageOf(r))
    BY <1>2, <2>2
  <2>3. CASE f \in InProgress(PackageOf(r))
    <3>1. PICK t \in current_tasks[PackageOf(r)] : t.file = f
      BY <2>3 DEF InProgress
    <3>2. /\ t.by \in Requests /\ t = [file |-> f, by |-> t.by]
          /\ PackageOf(t.by) = PackageOf(r)
      BY <1>1, <1>2, <3>1 DEF IInv, TypeOK, RegistryMatchesJobs, Task
    <3>3. stage[t.by][f] \in InRegistry
      BY <1>3, <3>1, <3>2 DEF IInv, RegistryMatchesJobs
    <3>4. stage'[t.by][f] \in InRegistry \cup Unstored \cup {"error", "dropped"}
      BY <1>3, <3>2, <3>3, StageMoves
    <3> QED
      BY <1>4, <1>5, <3>2, <3>4
  <2>4. ASSUME NEW q \in Requests, PackageOf(q) = PackageOf(r),
               stage[q][f] \in Unstored \cup {"lost", "error", "dropped"}
        PROVE  \/ f \in Stored(PackageOf(r))'
               \/ stage'[q][f] \in Unstored \cup {"lost", "error", "dropped"}
    <3>1. stage'[q][f] \in Unstored \cup {"saved", "lost", "error", "dropped"}
      BY <1>3, <2>4, StageMoves
    <3>2. stage'[q][f] = "saved" => f \in Stored(PackageOf(q))'
      BY <1>3 DEF RowInv, OneUnsavedResult
    <3>3. Stored(PackageOf(q))' = Stored(PackageOf(r))'
      BY <1>2, <2>4 DEF Stored
    <3> QED
      BY <3>1, <3>2, <3>3
  <2> QED
    BY <1>5, <2>1, <2>2, <2>3, <2>4
<1>7. CASE BuildTasks(r)
  <2>1. PICK new \in WithSha(r) : RecordNewTasks(r, new)
    BY <1>7 DEF BuildTasks
  <2>2. CASE UNCHANGED reply
    BY <1>6, <2>2
  <2>3. CASE ~UNCHANGED reply
    <3> DEFINE tasks == {[file |-> g, by |-> r] : g \in {x.file : x \in new}}
    <3>1. Respond(r, 404, {}, {}) \/ Respond(r, 202, {}, Reported(r, new))
      BY <2>1, <2>3 DEF RecordNewTasks
    <3>2. f \in Reported(r, new)
      BY <1>1, <3>1 DEF Respond, TypeOK
    <3>3. current_tasks' = [current_tasks EXCEPT ![PackageOf(r)] = @ \cup tasks]
      BY <2>1 DEF RecordNewTasks
    <3>4. \A g : g \in {x.file : x \in new} => \E t \in tasks : t.file = g
      <4> SUFFICES ASSUME NEW g, g \in {x.file : x \in new}
                   PROVE  \E t \in tasks : t.file = g
        OBVIOUS
      <4>1. [file |-> g, by |-> r].file = g /\ [file |-> g, by |-> r] \in tasks
        OBVIOUS
      <4> QED
        BY <4>1
    <3> HIDE DEF tasks
    <3>5. current_tasks'[PackageOf(r)] = current_tasks[PackageOf(r)] \cup tasks
      BY <1>1, <1>2, <3>3 DEF TypeOK
    <3>6. \E t \in current_tasks'[PackageOf(r)] : t.file = f
      BY <3>2, <3>4, <3>5 DEF Reported, InProgress
    <3> QED
      BY <1>2, <3>6 DEF InProgress
  <2> QED
    BY <2>2, <2>3
<1>8. ASSUME ReadInProgress(r) \/ FinishSync(r)
      PROVE  reply'[r].status = 200
  BY <1>1, <1>8 DEF ReadInProgress, FinishSync, Respond, TypeOK
<1> QED
  BY <1>6, <1>7, <1>8, Answers

(* A file that a 202 reports as in progress is accounted for ever after:   *)
(* in the registry, in the table, or as a result, a failure or a loss.     *)
THEOREM AcceptedIsAccountedFor == Spec => []NothingVanishes
<1>1. Init => NothingVanishes
  BY DEF Init, NothingVanishes, NoReply
<1> QED
  BY <1>1, NothingVanishesStep, Invariant, RowInvariant, PTL DEF Spec

-----------------------------------------------------------------------------
(* 404                                                                     *)

LEMMA NotFoundStep == IInv /\ RowInv /\ NotFoundIsTrue /\ [Next]_vars => NotFoundIsTrue'
<1> SUFFICES ASSUME IInv, RowInv, NotFoundIsTrue, [Next]_vars, NEW r \in Requests,
                    reply'[r].status = 404, "sha" \notin Faults, NEW f \in Listed(r)'
             PROVE  KindOf[f] = Unrecognized \/ ~Matches(r, f)'
  BY DEF NotFoundIsTrue
<1>1. TypeOK /\ UNCHANGED query
  BY RowsStay DEF IInv
<1>2. f \in Listed(r) /\ (Matches(r, f)' <=> Matches(r, f))
  BY <1>1 DEF Listed, Matches, PackageOf
<1>3. CASE reply'[r] = reply[r]
  BY <1>2, <1>3 DEF NotFoundIsTrue
<1>4. CASE BuildTasks(r)
  <2>1. PICK new \in WithSha(r) : RecordNewTasks(r, new)
    BY <1>4 DEF BuildTasks
  <2>2. new = files[r]
    <3>1. PICK without \in Unmapped(r) : new = {x \in files[r] : x.revision \notin without}
      BY <2>1 DEF WithSha
    <3>2. without = {}
      BY DEF Unmapped
    <3> QED
      BY <3>1, <3>2
  <2>3. CASE UNCHANGED reply
    BY <1>3, <2>3
  <2>4. CASE ~UNCHANGED reply
    <3>1. NothingToDo(r, new) \/ Respond(r, 202, {}, Reported(r, new))
      BY <2>1, <2>4 DEF RecordNewTasks
    <3>2. NothingToDo(r, new)
      BY <1>1, <3>1 DEF Respond, TypeOK
    <3>3. files[r] = {} /\ InProgress(PackageOf(r)) = {}
      BY <2>2, <3>2 DEF NothingToDo, Reported
    <3>4. pc[r] = "shas"
      BY <1>4 DEF BuildTasks
    <3> QED
      BY <1>2, <3>3, <3>4 DEF RowInv, NothingOverlooked
  <2> QED
    BY <2>3, <2>4
<1>5. ASSUME ReadInProgress(r) \/ FinishSync(r)
      PROVE  reply'[r].status = 200
  BY <1>1, <1>5 DEF ReadInProgress, FinishSync, Respond, TypeOK
<1> QED
  BY <1>3, <1>4, <1>5, Answers

(* A 404 means that the listing has no file the request asks for, however  *)
(* many others were filtering and recording tasks at the same time.        *)
THEOREM NotFoundOnlyIfNone == Spec => []NotFoundIsTrue
<1>1. Init => NotFoundIsTrue
  BY DEF Init, NotFoundIsTrue, NoReply
<1> QED
  BY <1>1, NotFoundStep, Invariant, RowInvariant, PTL DEF Spec
=============================================================================
