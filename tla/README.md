# A TLA+ model of the Apertium stats service

The service answers HTTP requests for statistics of Apertium packages. It lists a package's files with
`svn`, downloads each one, counts what the file's format calls for, stores the figures in SQLite and serves
them. The work is shared: requests that arrive while a package is being computed must not compute it again,
and are told what is in progress. This directory models the part of the program where that goes right or
wrong, checks it with TLC on small instances and proves its main invariants with TLAPS.

Line numbers refer to the files under `src/` of this repository (`worker.rs:452` is `src/worker.rs`).

## 1. Inventory

| Component | State | Operations | Interacts with |
|---|---|---|---|
| Handlers of package statistics (`main.rs:59-143, 228-357`) | locals of the handler, one Rocket thread each | four routes, `launch_tasks_and_reply` | take the pool's connection, read and write the registry, start jobs |
| Worker: registry and jobs (`worker.rs:402-612, 664-698`) | `current_tasks`, a `RwLock<HashMap<String, Tasks>>` | `get_tasks_in_progress`, `build_tasks`, `record_new_tasks`, `handle_task_completion`, `record_task_completion` | called by handlers and, for completions, by the threads that poll a job |
| Statistics of one file (`stats/`) | locals of a loop over the text: flags and counters (`xml.rs`), a map of lexicons (`lexc.rs`), sets of names (`lexd.rs`) | download, then `xml`, `lexc`, `lexd`, `rlx`, `twol` readers | run inside a job's future; a panic in one unwinds the job |
| Pool and table (`db.rs`, `schema.rs`, `models.rs`, the two queries of `main.rs`) | one connection; rows of `entries` | `DbConn` guard, `pool.get()`, insert, latest-row query | handlers and completions compete for the connection |
| Package listing cache (`main.rs:151-186, 359-377, 423-459`, `worker.rs:281-400, 614-662`) | `packages`, `packages_updated`, `packages_next_update` (three locks), `packages_update_mutex` | `update_packages`, the update loop, `GET`/`POST /packages`, `get_package_names` | every package route looks its name up in the cache |
| `svn` output (`worker.rs:101-279`) | ten locals of `list_files` that outlive an event | `list_files`, `get_git_sha` | awaited by `build_tasks` |
| Names and kinds (`util.rs`, `stats/mod.rs:70-110`, `models.rs:23-39`) | tables of language codes | `normalize_name`, `get_file_kind`, `from_string` | `normalize_name` reads the cached listing of the moment |
| Start (`main.rs:379-499`) | - | pool, worker, first listing update, launch | - |

What makes each component correct:

* **Registry.** One task per file, however many requests listed it first; a task leaves only through its own
  completion, and always does; a key exists only while it has tasks.
* **Handlers.** A 202 or 429 names something; a 404 means there is nothing; a 200 serves what is stored; each
  request is answered.
* **Table.** A row is never computed from an older text than the revision it names; what a job is about to
  store is no older than the table, as long as its task is in the registry (and the code promises no more).
* **Listing.** Readers see whole listings, never older than before; who updates sees the update; the announced
  time is honest.
* **Readers.** What a text is read as is what it says: svn's listing gives the complete file entries and no
  mixture of two, a dictionary's entries count in their context, a lexc file's stems are those Root leads to,
  and a file that is sound has statistics at all.
* **Names.** The two spellings of a package are one key, and a listed key stays the key.

Hard behaviour, with the lines where it bites, is listed under `hazards` in `PROJECT.json`: the registry lock
held across an await, completions that block runtime threads, the gap between removal from the registry and
the insert, stamps taken outside the lock that orders the texts, panics that drop sibling futures, poisoned locks,
the integer division of the rate limit, restarts.

## 2. Modules

| Module | What it is |
|---|---|
| `TaskLedger` | What the registry promises, with no locks, awaits or replies: a file has at most one owner, who releases it with or without a result; a result is stored at most once. |
| `StatsService` | Handlers, registry, jobs, runtime threads, pool and table. The core. |
| `ClientContract` | What `openapi.yaml` and the tests say to clients, over `StatsService`, and the polling client of `tests/common.rs`. |
| `PackageListing` | The cached list of packages, its update loop, the `/packages` routes, and time. |
| `SvnList` | `list_files`: the events of `svn list --xml` and the locals that follow them. |
| `XmlStats`, `LexcStats`, `BlockStats` | The readers of `stats/`: `xml.rs`, `lexc.rs`, and the one-pass readers `lexd.rs`, `rlx.rs` and the twol branch of `mod.rs`. |
| `PackageNames` | `normalize_name` over a listing that changes. |
| `Readers` | The texts from outside together: `get_file_stats`' choice of a reader, `svn list`, paths. |
| `MC...` | Instances of these for TLC; the `.cfg` files carry the constants. |
| `StatsServiceProofs` | The registry: types, single flight, honest replies, removal by owners. |
| `StatsRowsProofs` | The table, over the above: `RowInv`, and which rows are newest. |
| `StatsRepliesProofs` | What a 200, a 202 and a 404 say, over the two. |
| `LedgerProofs` | `StatsService` implements `TaskLedger`. |
| `PackageListingProofs` | The listing, its answers and the loop's deadline. |
| `SvnListProofs`, `LexcProofs` | `list_files`; the lexc reader and its recursive walk. |
| `ReaderProofs` | Names, XML files, lexd files; and the composition `Readers`. |

`StatsService` instantiates `TaskLedger` with a refinement mapping (`Owner`, `Results`, the stored paths);
`ClientContract` extends `StatsService`. `PackageListing` shares no state with `StatsService`: package
handlers only look a name up in the cache, which is the request kind `"name"` of `PackageListing`; what they
do next is `StatsService`, where names arrive normalized. `Readers` extends the five modules of readers and
shares no state with the rest either: a reader is called with a text and returns; what its result, its error
or its panic does to the service are the steps `ListFiles`, `Fetch` and `StatsPanic` of `StatsService`.

### StatsService and the code

A step is the code between two points where another thread can be observed: a blocking lock, an access to the
pool, an await. `pc` is the place of a handler:

| `pc` | The handler is about to | Code | Action |
|---|---|---|---|
| `idle` | be requested | | `Arrive` |
| `conn` | get the connection (GET only) | `db.rs:34-40` | `TakeConn`, `ConnTimeout` |
| `query` | run the existence query and the latest-row query | `main.rs:232-269, 290-331` | `QueryEntries` |
| `check` | look for tasks in progress (no rows) | `main.rs:240-250, 299-312` | `CheckInProgress` |
| `progress` | read the tasks in progress (rows found) | `main.rs:271-275, 333-337` | `ReadInProgress` |
| `list` | await `svn list` | `worker.rs:450` | `ListFiles` |
| `lock` | lock the registry and filter the files | `worker.rs:452-477` | `LockRegistry` |
| `shas` | await the SHAs, record the tasks, choose the answer | `worker.rs:488-552`, `main.rs:66-94` | `BuildTasks` |
| `running` | await its own job (`async=false`) | `main.rs:95-106` | `FinishSync` |

Each file of a job has a `stage`: `fetching`, then `fetched` or `failed` (`Fetch`); a thread polls the future
and enters `handle_task_completion` (`Poll`, `active`), takes the task out under the lock (`RecordCompletion`,
`unstamped`), makes the entries with `Utc::now()` after the unlock (`Stamp`, `unsaved`) and inserts (`Persist`,
`saved`; `PersistTimeout`, `lost`). `StatsPanic` and `PersistPanic` unwind the job's
`join_all`. `lock` is the handler that holds the write guard across its await; the other users of the lock
hold it within one step. `Driven` says that a thread of the runtime is left to drive I/O: a thread inside
`handle_task_completion` blocks, so no await goes on when all of them are in there. `Commit` and `Crash`
are the environment.

Data is abstracted to what the properties distinguish: a file is a model value with a kind; a row has its
path, the revision named, the revision of the text it was computed from (`content`), and the place of
its stamp among those of the file (`created`, by the order in which the clock is read). The rows of one file for several
statistics are one row: they are inserted by one statement with one revision and text. `normalize_name` and kind parsing end in a 400 that
touches nothing, and are left out.

**What the code does not promise about stamps.** One would like the row with the latest stamp, which is the
one served, to have the newest text. It need not: a completion removes its task at `worker.rs:569`, and
reads the clock at 579, without a lock. In between another request can list the file, find it free, fetch a
newer text, complete and stamp; the first thread then stamps the older text later, and that is the row served
until the next computation. The steps of the model allow this (stated as an invariant of `faults`, it fails
after 20 states), so no property says it. What holds is `RegistryIsFreshest`: as long as a job's task is in the
registry nobody can overtake it, so what it will store is no older than any row there is.

### PackageListing and the code

`LockMutex`, `FetchPage`, `Clear`, `AppendList`, `Stamp`, `Pace` are `update_packages` in its order
(`worker.rs:615, 623-639, 641-642, 643, 644, 646-653`), run by the loop and by every POST. Between `Clear` and
`AppendList` the cache is empty and the write lock is held: what a reader would find next is `Listing`, and the
properties are about what clients have read. `PageFails` and the
`"past"` fault of `Pace` return an error; `PacePanics` is the division by zero at line 646, which poisons the
mutex and `packages` (the only two locks a thread panics with). `Record`, `WakeOuter`, `WakeInner` are the
loop. A page is the state of the organization it was fetched in, so that the age of each part of a listing
can be compared; `listed` records when the cache was replaced, which the code does not.

### Readers and the code

A reader is a loop over a text, and the text is its environment: each step is one event or line of it with
what the loop does on it, so a behaviour goes through the text and the reader at once and every prefix of a
text is also a whole text that ends there. Next to the reader's locals the state keeps what the text has said,
which the properties compare the result with; the reference definitions use that history only.

* `SvnList`: `listed`, `entry_kind`, `given`, `open` are svn's output; `in_file_entry`, `in_element`, `fields`,
  `found` are the locals (`worker.rs:162-165`). Entries are of kind file or dir and may lack any element or
  its text; elements come in any order, with the blanks svn prints between them. A text is the pair of the
  entry and element it comes from, so that a value that strays is seen. A decoding or parse error is `err`,
  malformed XML the panic of line 265.
* `XmlStats`: start and end tags with the two flags; sections and pardefs do not nest in each other, as the
  formats demand, but there may be several, in any order. `quick_xml`'s `Event::Empty` is not a start tag, and
  none of the readers looks at it; the model has no empty elements either.
* `LexcStats`: one line for both passes, with a map each (`lexicons[pass]`). The forms of a line are those
  `parse_line` tells apart: header, pointer, entry, rejected, each marked `Use/MT` or not. `KeyOf` has what
  an entry is counted by: `ESCAPE_RE` replaces any escaped character by the same two characters `\1`, and
  of an entry with a colon the whole line is the lemma, because group 0 of `ENTRY_RE` is read where group 1
  looks meant. Two stems that differ in an escaped character only are therefore one, and two surface forms of
  a stem are two; the reference `ReachableWords` takes over both and says so, since no document tells
  otherwise. `Call` is one call of `get_all_lexicons` in terms of the results of the calls it makes, and
  `Collect` the recursion; a chain of calls longer than there are lexicons is its overflow.
* `BlockStats`: the children of the root of a tree-sitter tree. The grammars are vendored and stay outside.
* `PackageNames`: a name is one or two language codes in the spelling of two or three letters
  (`iso639.tsv` is a bijection between the two), or of no known form.

## 3. Runs

All runs check deadlock, except `starvation`, which exists to show one, and the two over `MCReaders`, where a
text may end anywhere and the reading with it.

| Run | Shows | Bounds | States |
|---|---|---|---|
| `routes` | `OneTaskPerFile`, `InProgressReplies`, `NotFoundIsTrue`, `OwnRemoval`, refinement of `TaskLedger`, no fault | 3 requests, 2 packages, 4 files of 3 kinds, 5 queries | 257 388 |
| `faults` | `IInv`, `RowInv`, `NothingVanishes`, `ServedIsStored`, `ContentNotOlder`, `RegistryIsFreshest`, `NoGapInReply`, refinement, every fault | 2 requests, 1 package, 2 files, 2 revisions | 413 646 |
| `progress` | `Answered`, `TasksDrain` under `FairSpec` | 2 requests, 2 files, 2 threads, failing lookups and downloads | 18 324 |
| `listing` | `ListingInv`, `AnswersInv`, `WholeListing`, `AsOfCoversListing`, `PostIsFresh`, `ListingNeverGoesBack` | 2 clients and the loop, 2 pages, 2 states of the organization, 3 units of time, every fault | 691 512 |
| `schedule` | `NotBeforeAnnounced`, `UpdatesDelayTheLoop`, `ListingAnswered` under `FairSpec` | 1 client, 6 units of time, every fault | 97 259 |
| `readers` | `TypeOK`, `SvnInv`, `FilesAreWhole`, `SpellingsMeet`, `KeepsItsKey`, `XmlCountsInContext`, `StemsAreReachable`, `DeathIsExplained`, `BlocksCountOnce` | 2 entries; 5 elements, 3 deep; 3 lexicons, 3 entries, 4 lines, or 6 when the file begins at Root; 3 blocks of at most 2 lines; listings of 3 names over 2 languages | 999 198 |

Why the bounds are enough for what is asked: every race in the registry is between two requests for one
package, and the third request of `routes` lets one finish while two others overlap, or another package be
served in between. Two files let a job be half done. Two revisions are an old and a new text. In `listing`,
three updaters (the loop and two clients) queue for the mutex, two pages make a torn or mixed listing
visible, and three units of time separate a listing from its stamp. `schedule` needs time for the loop to
pass both of its sleeps: six units with a first interval of 1 or 3. Symmetry is used for requests and clients
in runs without liveness; no definition distinguishes them.

In `readers`, a value can only stray from an entry to the next, since every local is reset at its end: two
entries show it. Five elements, three deep, are a section after pardefs with an entry in each, or the other
way round. Six lines are the header and pointer of Root and two further lexicons with a line each, or a cycle
of three; two words differ in the escaped character only and two in the surface form. Three blocks let a name
return after another. Three listed names are the two spellings of one and another package.

Four bounds cut behaviour: `MaxRevision`, `MaxVersion`, `MaxTime`, and one use of each request identity.
The first three stop the environment, not the program. With `MaxTime` reached the loop stays asleep, so
`Finished` is allowed then.

**Fairness.** `FairSpec` of `StatsService` assumes weak fairness of each request's handler and of its job: the
kernel schedules Rocket's and tokio's threads, child processes and downloads end (with an answer or an
error), and a thread that waits for a lock or the connection is woken when it is free. Weak fairness is
enough, because at these bounds nobody who waits for the lock or the connection can be overtaken for ever:
each request is made once. Arrivals, commits and failures have no fairness. In `PackageListing` the loop and
each handler are fair; the panic is not, and neither is time: an answer must not depend on the clock.
`ListingAnswered` asks for a 200 or a 500; a connection closed without one is excused by poisoned locks only, and that this happens is
the finding `poisoned`.

### What the documentation says and the code does otherwise

Each of these runs is expected to end in a counterexample to one property, and is a finding.

| Run | Property | What happens |
|---|---|---|
| `starvation` | `TasksDrain` | Two jobs are in `handle_task_completion`, waiting for the registry; its holder is in `build_tasks`, waiting for SHAs that no runtime thread is left to collect. The run has 2 threads; with `n` threads it takes `n` jobs. `progress` passes with as many threads because its two requests cannot fill both and hold the lock. |
| `completeness` | `OkIsComplete` | The poll falls between the removal of a task and the insert of its rows: 200, nothing in progress, statistics missing (or, after a POST, those from before it, where `tests/post.rs:35` expects new ones). |
| `leak` | `AlreadyInProgress` | One parser panics, the job is dropped, its other tasks stay in the registry: 429 for ever. |
| `lexc` | `LexcEmitsAsDocumented` | Every line of a lexicon is marked `Use/MT`: the vanilla pass skips them, does not know the lexicon a pointer names, and panics. The file is sound, and gets no statistics. |
| `announced` | `NextUpdateIsAhead` | `next_update` is not after `as_of`, after a POST or during the loop's outer sleep. |
| `poisoned` | `ListingStatuses` | The rate limit is spent, the pace's division panics, and every later reader panics on the poisoned lock. |

## 4. Proofs

Every safety property that a passing run checks is also a theorem of its specification, from the named
assumptions on the constants alone (`ServiceAssumption`, `ListingAssumption`, `SvnListAssumption`,
`NamesAssumption`, `LexcAssumption`, ...), for any number of requests, clients, packages, files, pages,
threads, entries, lines and lexicons, and any choice of faults. The bounds in the guards are constants too,
so the theorems hold for every value of them. The runs of section 3 check the inductive invariants of the two
large state machines, `IInv`, `RowInv`, `ListingInv`, `AnswersInv`, and that of `list_files`, `SvnInv`.

**The registry** (`StatsServiceProofs`). `TypeCorrect`, `Invariant` : `Spec => []IInv`. Single flight is not
inductive alone. When `BuildTasks` adds tasks, that they are new follows from the filter having been made
under a lock that is still held (`LockHeld`, `FilterStillValid`), from `svn list` naming a path once
(`OneListingPerFile`), and from the request having no tasks yet. When `RecordCompletion` removes *a* task of
the path, that it is the job's own follows from `OneTaskPerFile` and from the registry holding exactly the
tasks of unfinished futures (`RegistryMatchesJobs`). `KeysAreBusyPackages` is what 429 replies rest on.
`SingleFlight`, `RepliesNameTasks`, `OnlyOwnersRemove` follow from `IInv`, the last two with an argument per
action.

**The table** (`StatsRowsProofs`). `RowInvariant` : `Spec => []RowInv`, given `IInv`. `ContentNotOlder` speaks
of rows, which are written from locals of a job; so the induction says first that a row is a result as it was
when it was stamped (`RowsAreResults`), that a result is stamped once and only after its task has left the
registry (`StampedAfterRemoval`), and that no text is older than its listing or newer than the origin
(`NotAheadOfOrigin`). `NothingOlderIsPending` proves `RegistryIsFreshest` from `TextsLeaveInOrder`: a text
fetched for a task still in the registry is at least as new as every result that has left it, stamped or not,
because `SingleFlight` lets nobody fetch a file before the task for the one fetched earlier is gone. Nothing
is claimed, or needed, about the order of stamps. The other parts are for the replies: who holds the
connection (`ConnHeld`), that what was read with it is what there is (`RowsReadAreCurrent`), that a handler on
its way to `BuildTasks` has overlooked no file (`NothingOverlooked`), and that a result and the thread that
inserts it belong together (`OneUnsavedResult`).

**The replies** (`StatsRepliesProofs`), from both invariants. `NothingStoredIsOmitted`: a handler keeps the
connection from the existence query until it has read the registry, so no row can be inserted in between.
`ServedIsInTable`, `AcceptedIsAccountedFor`, `NotFoundOnlyIfNone` look at the three actions that answer
(`Answers`) and at what can happen to rows and stages afterwards.

**Refinement** (`LedgerProofs`). `Implementation` : `Spec => LedgerSpec`. The registry is `owner`, the
results not stored yet are `results`, the rows' paths `stored`; `LedgerStep` maps each action to one of the ledger
or to a stutter. `BuildTasks` is a claim of several free files (`FilterStillValid`), `RecordCompletion` a
release by the owner (`RegistryMatchesJobs`), `Persist` a store of the one unsaved result
(`OneUnsavedResult`), a panic or a pool timeout a loss.

**The listing** (`PackageListingProofs`). `ListingInvariant` : `Spec => []ListingInv`. Every step either takes
the mutex, works under it, leaves with everything released, or stays outside; so while one updater fetches, no
other replaces the cache, and what it fetches is page by page at least as new as what is cached. The cache
itself is no listing while it is cleared, so the invariant is about `Listing`, what the writer will leave, and
about what readers have read of it (`ReadsStayBehind`); a read needs `writer = None`, when the two are one.
`ListingIsWhole` and `ListingAdvances` are consequences. `AnswersInvariant` : `Spec => []AnswersInv` is about
reads under different locks: `packages_updated` lags behind the listing only while the write lock of the
replacement is held (`StampLagsUnderLock`), so an `as_of` read after the listing is no older than it
(`ReadsFit`); a POST's question, its fetched pages, the cache it returns to and the list it reads carry the
same age through its update, whoever else updates (`PostsCarryOn`); and the loop sleeps no shorter than it
announced, and until its interval has passed since it scheduled the update (`SleepsToAnnounced`). `AsOfIsCovering`,
`PostedIsFresh`, `LoopWaits` and, as the loop compares `update_scheduled` with `packages_updated` when it wakes,
`LoopGivesWay` follow.

**The readers.** Each has an invariant that relates its locals to what the text has said so far, and is
proved over its own specification (`SvnSpec`, `NamesSpec`, `XmlSpec`, `LexcSpec`, `BlockSpec`). In
`ReaderProofs`, `EachReadsItsOwn` shows that a behaviour of `Readers` is one of each, and
`LocalsHaveTheirTypes` and `TextsAreReadForWhatTheySay` carry all results over to it.

* `SvnListProofs`: `FilesAreWhole` speaks of whole entries and `EndEntry` looks at the locals alone, so
  `SvnInv` needs `LocalsFollowEntry`: `in_file_entry` says what kind of entry it is, at most the flag of the
  open element is set, and `fields` holds exactly what the current entry has given. Then all five locals are
  set precisely when a file entry gave all five fields, and their values are its own.
* `ReaderProofs`, names: `SpellingsAreOneKey` and `KeysAreKept` rest on `Convert` being its own inverse where
  it is defined (`OtherConverts`), as the bijection of `iso639.tsv` makes it.
  XML: the flags tell which side is open (`FlagsFollowTags`) because at most one is
  (`OneSideOpen`), and each tally is the number of its elements in context (`TalliesInContext`), however deep
  they nest. lexd: `BlockInv` has the set of names equal to the names of the blocks so far, and as many of
  them as there are first blocks of a name, so that a block opened again counts its lines and not its name.
* `LexcProofs`. `MapsHoldTheLines` : `LexcSpec => []LexcInv`: `current_lexicon` is the lexicon of the next
  line, and the map of a pass has exactly the lexicons with a line for that pass, with their pointers and
  keys. `WalkResult` is the result of the recursion for *any* map. There is no induction over data here, so it
  is argued by a least counterexample: `WalkIsSound` says what a call may return when `n` levels of calls lie
  below it (`SoundCall`), and takes the least `n` for which a call would be wrong (`Least`, from `WFMin`).
  Where pointers lead is the least set closed under them (`Leads`), which unfolds as the calls do
  (`LeadsUnfolds`); without a cycle strictly fewer lexicons lie behind a pointer than before it
  (`FewerBehind`), so `Cardinality(Lexicons) + 1` levels can only be exhausted by a cycle. `StemsAreCounted`
  then needs that the two keys of an entry, the code's with `\1` and the reference's, tell the same entries
  apart (`KeysArePlain`), so that they are equally many (`SameImages`); `DeathsAreExplained` that the second
  pass is made only after the first.

**Only model-checked.** Liveness (`Answered`, `TasksDrain`, `ListingAnswered`) and what depends on fairness:
TLAPS has neither `ENABLED` nor the rules for `WF_`. The findings of section 3 are
counterexamples, which are TLC's to find.

## 5. Not modelled

* `get_file_kind` and `FileKind::from_string`: tables from file names and path segments to kinds, without
  state. `KindOf` gives each file of `StatsService` its kind. (`models.rs:13` says that MetaMonodix emits
  Entries and Paradigms; `stats/mod.rs:57` hands it to the monodix reader, which gives Stems and Paradigms.)
* The tree-sitter grammars of lexd and constraint grammars, and the characters of any text.
* The rows of files deleted at the origin, which are served for ever: nothing says what should become of them.
* The encoding of rows and replies (`models.rs`, `schema.rs`, `JsonValue`), logging, CORS, static routes, the
  build script, the GraphQL schema: no state and no property here.
* The database's own errors (`handle_db_error`, a 500 that changes nothing).

## 6. Plan

1. *Done:* `StatsService` with `TaskLedger` and `ClientContract`, `PackageListing`; the inductive invariants
   of both and what follows from them.
2. *Done:* the readers of texts from outside against reference definitions (`Readers`); the invariant of
   `list_files` proved.
3. *Done:* the table and the replies (`RowInv`), the refinement of `TaskLedger`, the answers of the listing
   (`AnswersInv`), the readers and their composition: every safety property of the passing runs is proved.
4. What a next step could prove: `SingleFlight` from the refinement rather than beside it; that without
   `StatsPanic`, `PersistPanic` and `Crash` no task outlives its job (the safety half of `TasksDrain`); which
   states have a thread left to drive I/O, as a bound on the jobs in completion by the number of threads.
