---------------------------- MODULE StatsService ----------------------------
(***************************************************************************)
(* The request handlers of main.rs for package statistics together with    *)
(* the part of worker.rs they share: the registry of tasks in progress     *)
(* behind one RwLock, the pool of one SQLite connection, the tokio runtime *)
(* that drives every await, and the entries table.                         *)
(*                                                                         *)
(* A request is one HTTP request on a Rocket thread of its own.  The       *)
(* futures it builds form its job: joined on the runtime's threads for an  *)
(* asynchronous request (RUNTIME.spawn), on the Rocket thread itself for a *)
(* synchronous one (RUNTIME.block_on).  A step is the code between two     *)
(* points where another thread can be observed: a blocking lock, a pool    *)
(* access or an await.                                                     *)
(***************************************************************************)
EXTENDS Naturals, FiniteSets

CONSTANTS
  Requests,      \* identities of the HTTP requests; each is made once
  Packages,      \* package names, already normalized
  Files,         \* paths
  Kinds,         \* FileKind
  Unrecognized,  \* KindOf a path for which get_file_kind answers None
  AnyKind,       \* the query names no kind
  KindOf,        \* get_file_kind: the kind a path is recognized as
  Tree,          \* the files below trunk, for each package
  Nested,        \* the files that only a recursive listing shows
  Queries,       \* the queries clients may make
  Workers,       \* number of threads of the tokio runtime
  MaxRevision,   \* bound on the revisions of the origin repository
  Faults,        \* which outside failures may happen
  None           \* no holder of a lock or connection

Query ==
  [method : {"GET", "POST"}, package : Packages, kind : Kinds \cup {AnyKind},
   async : BOOLEAN, recursive : BOOLEAN]

(* "list": svn list fails; "sha": svn propget fails; "file": a file cannot *)
(* be downloaded or parsed; "panic": a statistics parser or the insert     *)
(* panics; "pool": 30 seconds pass waiting for the connection; "crash":    *)
(* the process is killed and started again.                                *)
FaultKinds == {"list", "sha", "file", "panic", "pool", "crash"}

ASSUME ServiceAssumption ==
  /\ IsFiniteSet(Requests) /\ None \notin Requests /\ None \notin Files
  /\ Unrecognized \notin Kinds /\ AnyKind \notin Kinds
  /\ KindOf \in [Files -> Kinds \cup {Unrecognized}]
  /\ Tree \in [Packages -> SUBSET Files]
  /\ Nested \subseteq Files
  /\ Queries \subseteq Query
  /\ Workers \in Nat \ {0}
  /\ MaxRevision \in Nat \ {0}
  /\ Faults \subseteq FaultKinds

VARIABLES
  head,           \* last revision of each file at the origin
  query,          \* what each request asks for
  pc,             \* where the handler of each request is
  lock,           \* the request holding current_tasks.write() across an await
  conn,           \* the request holding the pool's only connection
  files,          \* files_without_shas, then requested_files, of a handler
  current_tasks,  \* Worker::current_tasks: the tasks recorded per package
  occupied,       \* the keys of that HashMap
  stage,          \* how far each future of a request's job is
  revision,       \* the revision a task was created with
  content,        \* the revision of the text a task was computed from
  created,        \* when the entries of a task were stamped; 0 before
  active,         \* the file whose handle_task_completion a job is running
  entries,        \* rows of the entries table, per package
  reply           \* the answer of each request

handler  == <<query, pc, files, reply>>
registry == <<current_tasks, occupied>>
job      == <<stage, revision, content, created, active>>
vars     == <<head, handler, lock, conn, registry, job, entries>>

-----------------------------------------------------------------------------
(* State *)

HandlerPC == {"idle", "conn", "query", "check", "progress",
              "list", "lock", "shas", "running", "replied"}

(* The stages of a future.  Up to "failed" its task is in the registry.    *)
Waiting == {"fetching", "fetched", "failed"}     \* not yet in completion
Unstored == {"unstamped", "unsaved"}             \* out of the registry
Pending == Waiting \cup Unstored                 \* the future is not done
InRegistry == Waiting \cup {"leaked"}
Ended == {"saved", "lost", "error", "leaked", "dropped"}
Stage == {"none"} \cup Pending \cup Ended

Task == [file : Files, by : Requests]
Row  == [file : Files, created : Nat, revision : 1..MaxRevision,
         content : 1..MaxRevision]
File == [file : Files, revision : 1..MaxRevision]

(* 0: not answered yet; 1: the connection closed without a response.       *)
Status == {0, 1, 200, 202, 400, 404, 429, 503}
Reply  == [status : Status, stats : SUBSET Files, in_progress : SUBSET Files]
NoReply == [status |-> 0, stats |-> {}, in_progress |-> {}]

TypeOK ==
  /\ head \in [Packages -> [Files -> 1..MaxRevision]]
  /\ query \in [Requests -> Queries]
  /\ pc \in [Requests -> HandlerPC]
  /\ lock \in Requests \cup {None}
  /\ conn \in Requests \cup {None}
  /\ files \in [Requests -> SUBSET File]
  /\ current_tasks \in [Packages -> SUBSET Task]
  /\ occupied \subseteq Packages
  /\ stage \in [Requests -> [Files -> Stage]]
  /\ revision \in [Requests -> [Files -> 1..MaxRevision]]
  /\ content \in [Requests -> [Files -> 1..MaxRevision]]
  /\ created \in [Requests -> [Files -> Nat]]
  /\ active \in [Requests -> Files \cup {None}]
  /\ entries \in [Packages -> SUBSET Row]
  /\ reply \in [Requests -> Reply]

Init ==
  /\ head = [p \in Packages |-> [f \in Files |-> 1]]
  /\ query \in [Requests -> Queries]
  /\ pc = [r \in Requests |-> "idle"]
  /\ lock = None
  /\ conn = None
  /\ files = [r \in Requests |-> {}]
  /\ current_tasks = [p \in Packages |-> {}]
  /\ occupied = {}
  /\ stage = [r \in Requests |-> [f \in Files |-> "none"]]
  /\ revision = [r \in Requests |-> [f \in Files |-> 1]]
  /\ content = [r \in Requests |-> [f \in Files |-> 1]]
  /\ created = [r \in Requests |-> [f \in Files |-> 0]]
  /\ active = [r \in Requests |-> None]
  /\ entries = [p \in Packages |-> {}]
  /\ reply = [r \in Requests |-> NoReply]

-----------------------------------------------------------------------------
(* Helpers *)

PackageOf(r) == query[r].package

(* The filter a kind in the path puts on files, tasks and rows.            *)
Matches(r, f) == query[r].kind = AnyKind \/ KindOf[f] = query[r].kind

Listed(r) == {f \in Tree[PackageOf(r)] : query[r].recursive \/ f \notin Nested}

(* get_tasks_in_progress, reduced to the paths of the tasks.               *)
InProgress(p) == {t.file : t \in current_tasks[p]}

(* The paths that have statistics in the table: what the self join on      *)
(* (stat_kind, path) serves, reduced to its paths.                         *)
Stored(p) == {e.file : e \in entries[p]}

(* The runtime's threads that are inside handle_task_completion.  Such a   *)
(* thread polls nothing else and does not drive I/O, so an await anywhere  *)
(* makes progress only while another thread is left.                       *)
BusyWorkers == {r \in Requests : query[r].async /\ active[r] # None}
Driven == Cardinality(BusyWorkers) < Workers

(* drop(conn), before launch_tasks_and_reply; KeepConn is a handler without*)
(* it.                                                                     *)
KeepConn(r) == UNCHANGED conn
DropConn(r) == conn' = None

Respond(r, status, stats, in_progress) ==
  /\ pc' = [pc EXCEPT ![r] = "replied"]
  /\ reply' = [reply EXCEPT ![r] = [status |-> status, stats |-> stats,
                                    in_progress |-> in_progress]]

-----------------------------------------------------------------------------
(* Handlers *)

(* A GET first waits for the DbConn request guard; a POST has none.        *)
Arrive(r) ==
  /\ pc[r] = "idle"
  /\ pc' = [pc EXCEPT ![r] = IF query[r].method = "GET" THEN "conn" ELSE "list"]
  /\ UNCHANGED <<head, query, lock, conn, files, registry, job, entries, reply>>

TakeConn(r) ==
  /\ pc[r] = "conn" /\ conn = None
  /\ conn' = r
  /\ pc' = [pc EXCEPT ![r] = "query"]
  /\ UNCHANGED <<head, query, lock, files, registry, job, entries, reply>>

ConnTimeout(r) ==
  /\ "pool" \in Faults
  /\ pc[r] = "conn" /\ conn # None
  /\ Respond(r, 503, {}, {})
  /\ UNCHANGED <<head, query, lock, conn, files, registry, job, entries>>

(* The guard outlives both queries and the reading of the registry; a      *)
(* handler that opens a connection for each query would ReleaseConn.       *)
ReleaseConn(r) == conn' = None
HoldConn(r)    == UNCHANGED conn

(* The existence query and, when it finds a row, the query for the latest  *)
(* rows: the connection is held in between, so no row can appear.          *)
QueryEntries(r) ==
  LET rows == {f \in Stored(PackageOf(r)) : Matches(r, f)} IN
  /\ pc[r] = "query"
  /\ pc' = [pc EXCEPT ![r] = IF rows = {} THEN "check" ELSE "progress"]
  /\ reply' = [reply EXCEPT ![r] = [status |-> 0, stats |-> rows, in_progress |-> {}]]
  /\ HoldConn(r)
  /\ UNCHANGED <<head, query, lock, files, registry, job, entries>>

(* No row yet: 429 if tasks are in progress, otherwise the connection is   *)
(* given back and the handler launches tasks like a POST.                  *)
CheckInProgress(r) ==
  LET p == PackageOf(r)
      busy == /\ p \in occupied
              /\ query[r].kind = AnyKind \/ \E f \in InProgress(p) : Matches(r, f)
  IN
  /\ pc[r] = "check" /\ lock = None
  /\ \/ busy /\ Respond(r, 429, {}, InProgress(p)) /\ conn' = None
     \/ ~busy /\ pc' = [pc EXCEPT ![r] = "list"] /\ UNCHANGED reply /\ DropConn(r)
  /\ UNCHANGED <<head, query, lock, files, registry, job, entries>>

(* Rows were found: the tasks in progress are read after them.             *)
ReadInProgress(r) ==
  /\ pc[r] = "progress" /\ lock = None
  /\ conn' = None
  /\ Respond(r, 200, reply[r].stats, InProgress(PackageOf(r)))
  /\ UNCHANGED <<head, query, lock, files, registry, job, entries>>

-----------------------------------------------------------------------------
(* launch_tasks_and_reply and build_tasks *)

(* svn list, awaited with no lock held; output that is not XML panics.     *)
ListFiles(r) ==
  /\ pc[r] = "list" /\ Driven
  /\ \/ /\ files' = [files EXCEPT ![r] =
             {[file |-> f, revision |-> head[PackageOf(r)][f]] : f \in Listed(r)}]
        /\ pc' = [pc EXCEPT ![r] = "lock"]
        /\ UNCHANGED reply
     \/ /\ "list" \in Faults
        /\ Respond(r, 400, {}, {})
        /\ UNCHANGED files
     \/ /\ "panic" \in Faults
        /\ Respond(r, 1, {}, {})
        /\ UNCHANGED files
  /\ UNCHANGED <<head, query, lock, conn, registry, job, entries>>

(* What build_tasks computes now: recognized, of the kind asked for, and   *)
(* not in progress.                                                        *)
RequestedFiles(r) ==
  {x \in files[r] : /\ KindOf[x.file] # Unrecognized
                    /\ Matches(r, x.file)
                    /\ x.file \notin InProgress(PackageOf(r))}

(* The filter with a guard that ends before the SHA lookups.               *)
LockOnlyToFilter(r) ==
  /\ pc[r] = "lock" /\ lock = None
  /\ files' = [files EXCEPT ![r] = RequestedFiles(r)]
  /\ pc' = [pc EXCEPT ![r] = "shas"]
  /\ UNCHANGED <<head, query, lock, conn, registry, job, entries, reply>>

(* current_tasks.write(), then the filter to requested_files.  The guard   *)
(* stays alive until build_tasks returns.                                  *)
LockRegistry(r) ==
  /\ pc[r] = "lock" /\ lock = None
  /\ lock' = r
  /\ files' = [files EXCEPT ![r] = RequestedFiles(r)]
  /\ pc' = [pc EXCEPT ![r] = "shas"]
  /\ UNCHANGED <<head, query, conn, registry, job, entries, reply>>

(* The files whose revision was mapped to a Git SHA, one lookup for each   *)
(* distinct revision.                                                      *)
Unmapped(r) == IF "sha" \in Faults THEN SUBSET {x.revision : x \in files[r]} ELSE {{}}

WithSha(r) == {{x \in files[r] : x.revision \notin without} : without \in Unmapped(r)}

(* in_progress_tasks: what was in progress and what is new (ReportAll: also*)
(* what got no SHA).                                                       *)
ReportAll(r, new) == InProgress(PackageOf(r)) \cup {x.file : x \in files[r]}
Reported(r, new)  == InProgress(PackageOf(r)) \cup {x.file : x \in new}

(* The answer is 404 when there is nothing new and nothing in progress;    *)
(* NothingNew looks at the new tasks only.                                 *)
NothingNew(r, new)  == new = {}
NothingToDo(r, new) == new = {} /\ Reported(r, new) = {}

(* record_new_tasks and the choice of the answer.                          *)
RecordNewTasks(r, new) ==
  LET p     == PackageOf(r)
      names == {x.file : x \in new}
  IN
  /\ current_tasks' = [current_tasks EXCEPT ![p] =
                          @ \cup {[file |-> f, by |-> r] : f \in names}]
  /\ occupied' = IF new = {} THEN occupied ELSE occupied \cup {p}
  /\ stage' = [stage EXCEPT ![r] =
                 [f \in Files |-> IF f \in names THEN "fetching" ELSE "none"]]
  /\ revision' = [revision EXCEPT ![r] =
                    [f \in Files |-> IF f \in names
                       THEN (CHOOSE x \in new : x.file = f).revision ELSE 1]]
  /\ \/ NothingToDo(r, new) /\ Respond(r, 404, {}, {})
     \/ /\ ~NothingToDo(r, new) /\ query[r].async
        /\ Respond(r, 202, {}, Reported(r, new))
     \/ /\ ~NothingToDo(r, new) /\ ~query[r].async
        /\ pc' = [pc EXCEPT ![r] = "running"]
        /\ UNCHANGED reply

(* The awaited SHA lookups (none at all for an empty list of files), then  *)
(* record_new_tasks; the write guard is dropped on return.                 *)
BuildTasks(r) ==
  /\ pc[r] = "shas"
  /\ files[r] = {} \/ Driven
  /\ \E new \in WithSha(r) : RecordNewTasks(r, new)
  /\ lock' = None
  /\ files' = [files EXCEPT ![r] = {}]
  /\ UNCHANGED <<head, query, conn, content, created, active, entries>>

(* The entries handle_task_completion returned, stored or not (Attempted:  *)
(* one for each task).                                                     *)
Attempted(r) == {f \in Files : stage[r][f] # "none"}
Computed(r)  == {f \in Files : stage[r][f] \in {"saved", "lost"}}

(* The synchronous request's join_all is complete.                         *)
FinishSync(r) ==
  /\ pc[r] = "running"
  /\ \A f \in Files : stage[r][f] \notin Pending
  /\ Respond(r, 200, Computed(r), {})
  /\ UNCHANGED <<head, query, lock, conn, files, registry, job, entries>>

-----------------------------------------------------------------------------
(* Jobs: get_file_stats, then handle_task_completion *)

SetStage(r, f, s) == stage' = [stage EXCEPT ![r][f] = s]

(* The download of one file ends; the file is whatever master is by then.  *)
Fetch(r, f) ==
  /\ stage[r][f] = "fetching" /\ Driven
  /\ \/ /\ SetStage(r, f, "fetched")
        /\ content' = [content EXCEPT ![r][f] = head[PackageOf(r)][f]]
     \/ /\ "file" \in Faults
        /\ SetStage(r, f, "failed")
        /\ UNCHANGED content
  /\ UNCHANGED <<head, handler, lock, conn, registry, revision, created, active, entries>>

(* A future is ready when its file is there or cannot be had; ReadyIfOk    *)
(* would complete the former only.                                         *)
ReadyIfOk(r, f) == stage[r][f] = "fetched"
Ready(r, f)     == stage[r][f] \in {"fetched", "failed"}

(* join_all polls the future: the statistics are computed and, in the same *)
(* poll, handle_task_completion is entered.  A job runs on one thread, so  *)
(* it completes one file at a time; an asynchronous one needs a free       *)
(* thread of the runtime.                                                  *)
Poll(r, f) ==
  /\ Ready(r, f)
  /\ active[r] = None
  /\ query[r].async => Driven
  /\ active' = [active EXCEPT ![r] = f]
  /\ UNCHANGED <<head, handler, lock, conn, registry, stage, revision, content, created,
                 entries>>

(* Which task a completion removes: that of the same kind and path, where  *)
(* a path has one kind; SameKind compares the kinds only.                  *)
SameKind(t, f) == KindOf[t.file] = KindOf[f]
SameTask(t, f) == t.file = f

(* The keys once task t of p is removed: remove_entry for the last one, or *)
(* without it (KeepKey).                                                   *)
KeepKey(p, t)   == occupied
VacateKey(p, t) == IF current_tasks[p] = {t} THEN occupied \ {p} ELSE occupied

(* record_task_completion in a block of its own under the write lock: the  *)
(* first task of the same kind and path is removed, and with the last one  *)
(* the package's key.  A file that failed is done with then.               *)
RecordCompletion(r) ==
  LET p == PackageOf(r)
      f == active[r]
  IN
  /\ f # None /\ stage[r][f] \in {"fetched", "failed"} /\ lock = None
  /\ \/ \E t \in current_tasks[p] :
          /\ SameTask(t, f)
          /\ current_tasks' = [current_tasks EXCEPT ![p] = @ \ {t}]
          /\ occupied' = VacateKey(p, t)
     \/ (\A t \in current_tasks[p] : ~SameTask(t, f)) /\ UNCHANGED registry
  /\ \/ /\ stage[r][f] = "fetched"
        /\ SetStage(r, f, "unstamped")
        /\ UNCHANGED active
     \/ /\ stage[r][f] = "failed"
        /\ SetStage(r, f, "error")
        /\ active' = [active EXCEPT ![r] = None]
  /\ UNCHANGED <<head, handler, lock, conn, revision, content, created, entries>>

(* Utc::now() as far as rows are compared by it: the place of this reading *)
(* of the clock among those made for the same file.  A wall clock may also *)
(* be set back; no property depends on how stamps compare, only on 0,      *)
(* which is no stamp.                                                      *)
NextCreated(p, f) ==
  1 + Cardinality({q \in Requests : PackageOf(q) = p /\ created[q][f] # 0})

(* The new entries are made, and stamped, with no lock held: other threads *)
(* may have run since the task was removed.                                *)
Stamp(r) ==
  LET f == active[r] IN
  /\ f # None /\ stage[r][f] = "unstamped"
  /\ created' = [created EXCEPT ![r][f] = NextCreated(PackageOf(r), f)]
  /\ SetStage(r, f, "unsaved")
  /\ UNCHANGED <<head, handler, lock, conn, registry, revision, content, active, entries>>

(* The row as it would be if its revision were read at the insert.         *)
RowRevisedAtInsert(r, f) ==
  [file |-> f, created |-> created[r][f],
   revision |-> head[PackageOf(r)][f], content |-> content[r][f]]

(* The row of a task: its revision is the one svn list gave, its statistics*)
(* those of the text downloaded later, its time that of its stamp.         *)
RowOf(r, f) ==
  [file |-> f, created |-> created[r][f],
   revision |-> revision[r][f], content |-> content[r][f]]

(* pool.get() and the insert, one transaction per task.                    *)
Persist(r) ==
  LET p == PackageOf(r)
      f == active[r]
  IN
  /\ f # None /\ stage[r][f] = "unsaved" /\ conn = None
  /\ entries' = [entries EXCEPT ![p] = @ \cup {RowOf(r, f)}]
  /\ SetStage(r, f, "saved")
  /\ active' = [active EXCEPT ![r] = None]
  /\ UNCHANGED <<head, handler, lock, conn, registry, revision, content, created>>

(* pool.get() times out: the error is logged and the result only returned. *)
PersistTimeout(r) ==
  LET f == active[r] IN
  /\ "pool" \in Faults
  /\ f # None /\ stage[r][f] = "unsaved" /\ conn # None
  /\ SetStage(r, f, "lost")
  /\ active' = [active EXCEPT ![r] = None]
  /\ UNCHANGED <<head, handler, lock, conn, registry, revision, content, created, entries>>

(* A panic inside a poll unwinds the thread's join_all: every future of    *)
(* the job that is not done is dropped, and the registry keeps its task.   *)
Die(r) ==
  /\ stage' = [stage EXCEPT ![r] =
       [f \in Files |-> IF stage[r][f] \in Waiting THEN "leaked"
                        ELSE IF stage[r][f] \in Unstored THEN "dropped"
                        ELSE stage[r][f]]]
  /\ active' = [active EXCEPT ![r] = None]
  /\ IF query[r].async THEN UNCHANGED handler
     ELSE Respond(r, 1, {}, {}) /\ UNCHANGED <<query, files>>

(* A statistics parser panics on a file's text.                            *)
StatsPanic(r, f) ==
  /\ "panic" \in Faults
  /\ stage[r][f] = "fetched" /\ active[r] = None
  /\ query[r].async => Driven
  /\ Die(r)
  /\ UNCHANGED <<head, lock, conn, registry, revision, content, created, entries>>

(* The insert fails and its result is unwrapped.                           *)
PersistPanic(r) ==
  LET f == active[r] IN
  /\ "panic" \in Faults
  /\ f # None /\ stage[r][f] = "unsaved" /\ conn = None
  /\ Die(r)
  /\ UNCHANGED <<head, lock, conn, registry, revision, content, created, entries>>

-----------------------------------------------------------------------------
(* Environment *)

(* A commit at the origin changes the files of S: revisions are numbered   *)
(* per repository.                                                         *)
Commit(p, S, n) ==
  /\ \A f \in Files : head[p][f] < n
  /\ \E f \in Files : head[p][f] = n - 1
  /\ head' = [head EXCEPT ![p] = [f \in Files |-> IF f \in S THEN n ELSE @[f]]]
  /\ UNCHANGED <<handler, lock, conn, registry, job, entries>>

(* The process dies and starts again: the table is all that survives.      *)
Crash ==
  /\ "crash" \in Faults
  /\ pc' = [r \in Requests |-> IF pc[r] = "idle" THEN "idle" ELSE "replied"]
  /\ reply' = [r \in Requests |->
       IF pc[r] \in {"idle", "replied"} THEN reply[r]
       ELSE [status |-> 1, stats |-> {}, in_progress |-> {}]]
  /\ files' = [r \in Requests |-> {}]
  /\ lock' = None
  /\ conn' = None
  /\ current_tasks' = [p \in Packages |-> {}]
  /\ occupied' = {}
  /\ stage' = [r \in Requests |-> [f \in Files |->
       IF stage[r][f] \in Pending \cup {"leaked"} THEN "dropped" ELSE stage[r][f]]]
  /\ active' = [r \in Requests |-> None]
  /\ UNCHANGED <<head, query, revision, content, created, entries>>

-----------------------------------------------------------------------------
(* Specification *)

Handler(r) ==
  \/ TakeConn(r) \/ ConnTimeout(r) \/ QueryEntries(r) \/ CheckInProgress(r)
  \/ ReadInProgress(r) \/ ListFiles(r) \/ LockRegistry(r) \/ BuildTasks(r)
  \/ FinishSync(r)

Job(r) ==
  \/ \E f \in Files : Fetch(r, f) \/ Poll(r, f)
  \/ RecordCompletion(r) \/ Stamp(r) \/ Persist(r) \/ PersistTimeout(r)

Failure(r) == PersistPanic(r) \/ \E f \in Files : StatsPanic(r, f)

Environment ==
  \/ \E p \in Packages, S \in SUBSET Files, n \in 1..MaxRevision :
       S # {} /\ S \subseteq Tree[p] /\ Commit(p, S, n)
  \/ Crash

(* Every request is answered and every job is over.                        *)
Finished ==
  /\ \A r \in Requests : pc[r] = "replied"
  /\ \A r \in Requests, f \in Files : stage[r][f] \notin Pending
  /\ UNCHANGED vars

Next ==
  \/ \E r \in Requests : Arrive(r) \/ Handler(r) \/ Job(r) \/ Failure(r)
  \/ Environment
  \/ Finished

Spec == Init /\ [][Next]_vars

(* Threads are scheduled: a handler that can go on does, and so does a     *)
(* job.  Clients, commits and failures are under no obligation.            *)
Fairness == \A r \in Requests : WF_vars(Handler(r)) /\ WF_vars(Job(r))

FairSpec == Spec /\ Fairness

-----------------------------------------------------------------------------
(* Invariants *)

(* The write guard that build_tasks keeps across the SHA lookups is held   *)
(* exactly by the handler that is between its filter and its insertion.    *)
LockHeld == \A r \in Requests : pc[r] = "shas" <=> lock = r

(* While a handler awaits the SHAs, nothing it is about to record has been *)
(* recorded by another one, and it has not recorded anything itself.       *)
FilterStillValid ==
  \A r \in Requests :
    /\ pc[r] = "shas" => \A x \in files[r] : x.file \notin InProgress(PackageOf(r))
    /\ pc[r] \notin {"running", "replied"} => \A f \in Files : stage[r][f] = "none"

(* svn list names a path once.                                             *)
OneListingPerFile ==
  \A r \in Requests : \A x, y \in files[r] : x.file = y.file => x = y

(* Single flight: a package's registry never holds two tasks for one file, *)
(* however many requests listed that file before any of them recorded it.  *)
OneTaskPerFile ==
  \A p \in Packages : \A t, u \in current_tasks[p] : t.file = u.file => t = u

(* The registry is exact: a task is in it precisely while the job of the   *)
(* request that recorded it has not entered that file's completion, or for *)
(* good when a panic dropped the future.                                   *)
RegistryMatchesJobs ==
  /\ \A r \in Requests, f \in Files :
       [file |-> f, by |-> r] \in current_tasks[PackageOf(r)]
         <=> stage[r][f] \in InRegistry
  /\ \A p \in Packages : \A t \in current_tasks[p] : PackageOf(t.by) = p

(* A key of the map always has tasks: get_tasks_in_progress never answers  *)
(* Some(vec![]), on which the 429 replies depend.                          *)
KeysAreBusyPackages == occupied = {p \in Packages : current_tasks[p] # {}}

(* The inductive invariant.                                                *)
IInv ==
  /\ TypeOK
  /\ LockHeld
  /\ OneListingPerFile
  /\ FilterStillValid
  /\ OneTaskPerFile
  /\ RegistryMatchesJobs
  /\ KeysAreBusyPackages

(* The guard of the pool's connection is held exactly by the handler that  *)
(* is between its first query and its reading of the registry.             *)
ConnHeld ==
  \A r \in Requests : pc[r] \in {"query", "check", "progress"} <=> conn = r

(* While it is held no row is inserted: what was read is what there is.    *)
RowsReadAreCurrent ==
  \A r \in Requests : pc[r] = "progress" =>
    reply[r].stats = {f \in Stored(PackageOf(r)) : Matches(r, f)}

(* Until its tasks are recorded a handler has accounted for all it listed: *)
(* a file it does not ask for is in progress, or was not asked of it.      *)
NothingOverlooked ==
  \A r \in Requests : \A f \in Listed(r) :
    \/ pc[r] \notin {"lock", "shas"}
    \/ \E x \in files[r] : x.file = f
    \/ /\ pc[r] = "shas"
       /\ KindOf[f] = Unrecognized \/ ~Matches(r, f) \/ f \in InProgress(PackageOf(r))

(* A job has at most one result on its way to the table, that of the file  *)
(* whose completion it is in; a file marked saved has a row.               *)
OneUnsavedResult ==
  \A r \in Requests, f \in Files :
    /\ stage[r][f] \in Unstored => active[r] = f
    /\ stage[r][f] = "saved" => f \in Stored(PackageOf(r))

(* Nobody is ahead of the origin, and no text is older than its listing.   *)
NotAheadOfOrigin ==
  \A r \in Requests :
    /\ \A x \in files[r] : x.revision <= head[PackageOf(r)][x.file]
    /\ \A f \in Files :
         /\ revision[r][f] <= head[PackageOf(r)][f]
         /\ content[r][f] <= head[PackageOf(r)][f]
         /\ stage[r][f] \in {"fetched", "unstamped"} \/ created[r][f] # 0
              => revision[r][f] <= content[r][f]

(* A result is stamped once, after its task has left the registry.         *)
StampedAfterRemoval ==
  \A r \in Requests, f \in Files :
    /\ stage[r][f] \in {"none", "unstamped"} \cup Waiting => created[r][f] = 0
    /\ stage[r][f] = "unsaved" => created[r][f] # 0

(* A row is a result as it was when it was stamped.                        *)
RowsAreResults ==
  \A p \in Packages : \A e \in entries[p] : \E r \in Requests :
    PackageOf(r) = p /\ created[r][e.file] # 0 /\ e = RowOf(r, e.file)

(* Results leave the registry in the order of their texts: one whose task  *)
(* is still there is of a text at least as new as every result for that    *)
(* file that has left, be it on its way to the table, stored or lost.      *)
TextsLeaveInOrder ==
  \A q, r \in Requests, f \in Files :
    /\ PackageOf(q) = PackageOf(r) /\ stage[r][f] = "fetched"
    /\ stage[q][f] = "unstamped" \/ created[q][f] # 0
    => content[q][f] <= content[r][f]

(* What else is inductive, given IInv: how rows and replies depend on the  *)
(* connection, on the origin and on the order of completions.              *)
RowInv ==
  /\ ConnHeld
  /\ RowsReadAreCurrent
  /\ NothingOverlooked
  /\ OneUnsavedResult
  /\ NotAheadOfOrigin
  /\ StampedAfterRemoval
  /\ RowsAreResults
  /\ TextsLeaveInOrder

(* A client told to wait is told what for: a 202 or a 429 names at least   *)
(* one task, also when tasks end while other requests are being answered.  *)
InProgressReplies ==
  \A r \in Requests : reply[r].status \in {202, 429} => reply[r].in_progress # {}

(* 404 "No recognized files" is never the effect of what others compute:   *)
(* the listing really has no file the request asks for, unless a SHA       *)
(* lookup failed.                                                          *)
NotFoundIsTrue ==
  \A r \in Requests :
    reply[r].status = 404 /\ "sha" \notin Faults =>
      \A f \in Listed(r) : KindOf[f] = Unrecognized \/ ~Matches(r, f)

(* What a 202 reports as in progress cannot vanish: each such file is in   *)
(* the registry, has a row, or belongs to a job that ended it in one of    *)
(* the ways the code logs (a failed file, a result that was not stored) or *)
(* loses (a panic, a restart).                                             *)
NothingVanishes ==
  \A r \in Requests : reply[r].status = 202 =>
    \A f \in reply[r].in_progress :
      \/ f \in InProgress(PackageOf(r)) \cup Stored(PackageOf(r))
      \/ \E q \in Requests :
           /\ PackageOf(q) = PackageOf(r)
           /\ stage[q][f] \in Unstored \cup {"lost", "error", "dropped"}

(* The statistics in a 200 are rows of the table, except those of the      *)
(* request's own job that could not be persisted for want of a connection. *)
ServedIsStored ==
  \A r \in Requests : reply[r].status = 200 =>
    \A f \in reply[r].stats : f \in Stored(PackageOf(r)) \/ stage[r][f] = "lost"

(* A row's statistics are never of a text older than the revision and SHA  *)
(* the row names, although master moves on between listing and download.   *)
ContentNotOlder ==
  \A p \in Packages : \A e \in entries[p] : e.content >= e.revision

(* What a job whose task is in the registry is about to store is never     *)
(* older than what the table has: while it is there nobody else can fetch, *)
(* complete and store a newer text of its file.  (Once it has left,        *)
(* somebody can, and can even be stamped first.)                           *)
RegistryIsFreshest ==
  \A r \in Requests, f \in Files : stage[r][f] = "fetched" =>
    \A e \in entries[PackageOf(r)] : e.file = f => e.content <= content[r][f]

-----------------------------------------------------------------------------
(* Action and liveness properties *)

(* Nobody takes a task out of the registry but the job that computes that  *)
(* very file, in its completion; only the end of the process, which ends   *)
(* every job, empties it.                                                  *)
TakenOutByOwner ==
  \A p \in Packages : \A t \in current_tasks[p] \ current_tasks'[p] :
    \/ active[t.by] = t.file /\ stage'[t.by][t.file] \in {"unstamped", "error"}
    \/ \A r \in Requests, f \in Files : stage'[r][f] \notin Pending

OwnRemoval == [][TakenOutByOwner]_vars

(* A 200 made from the table reads the rows first and the registry later,  *)
(* while jobs leave the registry before they have rows, and some die with  *)
(* the process half way through a package.  Still no file with a job falls *)
(* between the two unseen: if it is neither among the statistics nor in    *)
(* progress, none of its jobs has stored it.                               *)
OmittedIsUnsaved ==
  \A r, q \in Requests, f \in Files :
    /\ pc[r] = "progress" /\ pc'[r] = "replied" /\ reply'[r].status = 200
    /\ PackageOf(q) = PackageOf(r) /\ Matches(r, f)
    /\ f \notin reply'[r].stats \cup reply'[r].in_progress
    => stage[q][f] \in {"none", "lost", "error", "dropped"} \cup Unstored

NoGapInReply == [][OmittedIsUnsaved]_vars

(* Every request that is made gets its answer, whoever holds the lock or   *)
(* the connection when it comes.                                           *)
Answered ==
  \A r \in Requests : pc[r] # "idle" ~> pc[r] = "replied"

(* A task does not stay in the registry: it is completed whether its file  *)
(* could be computed or not, so a later request is not told to wait.       *)
TasksDrain ==
  \A r \in Requests, f \in Files :
    stage[r][f] \in InRegistry ~> stage[r][f] \notin InRegistry

-----------------------------------------------------------------------------
(* What the registry promises, as an abstract specification                *)

Owner == [p \in Packages |-> [f \in Files |->
            IF f \in InProgress(p)
              THEN (CHOOSE t \in current_tasks[p] : t.file = f).by ELSE None]]

Results == {x \in Packages \X Files \X Requests :
              x[1] = PackageOf(x[3]) /\ stage[x[3]][x[2]] \in Unstored}

Ledger == INSTANCE TaskLedger
            WITH owner <- Owner, results <- Results,
                 stored <- [p \in Packages |-> Stored(p)]

(* Claims, results and rows go through the registry the way the ledger     *)
(* says, with every listing, lock, SHA lookup and query a stutter.         *)
LedgerSpec == Ledger!Spec
=============================================================================
