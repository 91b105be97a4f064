--------------------------- MODULE PackageListing ---------------------------
(***************************************************************************)
(* The cached list of the organization's packages: Worker::update_packages *)
(* as the thread of start_package_update_loop and the POST /packages       *)
(* handlers run it, and the readers of the cache, GET /packages and the    *)
(* handlers of package statistics that look a name up.                     *)
(*                                                                         *)
(* Time is counted in units: a thread that sleeps wakes at its deadline or *)
(* later.  A package list is the sequence of its pages, and a page is the  *)
(* state of the organization it was fetched in.                            *)
(***************************************************************************)
EXTENDS Naturals, Sequences

CONSTANTS
  Clients,       \* identities of the HTTP requests; each is made once
  Loop,          \* the thread of start_package_update_loop
  Pages,         \* number of pages of the listing
  Intervals,     \* time to the next update that the rate limit may allow
  MinInterval,   \* PACKAGE_UPDATE_MIN_INTERVAL
  Fallback,      \* PACKAGE_UPDATE_FALLBACK_INTERVAL
  MaxVersion,    \* bound on the states of the organization
  MaxTime,       \* bound on time
  Faults,        \* what may go wrong
  None           \* no holder of a lock

(* "page": a request to GitHub fails or its answer lacks data; "past": the *)
(* rate limit's reset_at has passed; "spent": the limit remaining is less  *)
(* than what one update costs, or the cost is nothing.                     *)
FaultKinds == {"page", "past", "spent"}

ASSUME ListingAssumption ==
  /\ Loop \notin Clients /\ None \notin Clients \cup {Loop}
  /\ Pages \in Nat \ {0}
  /\ Intervals \subseteq Nat
  /\ MinInterval \in Nat \ {0} /\ Fallback \in Nat \ {0}
  /\ MaxVersion \in Nat \ {0} /\ MaxTime \in Nat \ {0}
  /\ Faults \subseteq FaultKinds

VARIABLES
  now,
  organization,          \* state of the organization at GitHub
  asks,                  \* what each client asks for
  pc,
  fetched,               \* update_packages' local list of pages
  mutex,                 \* holder of packages_update_mutex
  writer,                \* holder of packages.write()
  poisoned,              \* a thread panicked while it held both
  packages,
  packages_updated,
  packages_next_update,
  listed,                \* when packages was replaced (the code keeps no such record)
  initial_delay,         \* of the loop, and below its other locals
  next_update,
  update_scheduled,
  wake,                  \* deadline of the sleep it is in
  asked,                 \* state of the organization when a client asked
  reply

cache == <<packages, packages_updated, packages_next_update, listed>>
locks == <<mutex, writer, poisoned>>
timer == <<initial_delay, next_update, update_scheduled, wake>>
vars  == <<now, organization, asks, pc, fetched, locks, cache, timer, asked, reply>>

-----------------------------------------------------------------------------

Updaters == Clients \cup {Loop}

UpdatePC == {"lock", "fetch", "replace", "append", "stamp", "pace"}
ReadPC   == {"packages", "as_of", "next_update"}
LoopPC   == {"record", "outer", "inner", "dead", "stopped"}

Page    == 1..MaxVersion
Time    == Nat
Status  == {0, 1, 200, 500}    \* 0: no answer yet; 1: closed without one
Reply   == [status : Status, packages : Seq(Page), listed : Time,
            as_of : Time, next_update : Time]

TypeOK ==
  /\ now \in 1..MaxTime
  /\ organization \in Page
  /\ asks \in [Clients -> {"GET", "POST", "name"}]
  /\ pc \in [Updaters -> {"idle", "replied"} \cup UpdatePC \cup ReadPC \cup LoopPC]
  /\ fetched \in [Updaters -> Seq(Page)]
  /\ mutex \in Updaters \cup {None}
  /\ writer \in Updaters \cup {None}
  /\ poisoned \in BOOLEAN
  /\ packages \in Seq(Page)
  /\ packages_updated \in Time /\ packages_next_update \in Time /\ listed \in Time
  /\ initial_delay \in Time /\ next_update \in Time
  /\ update_scheduled \in Time /\ wake \in Time
  /\ asked \in [Clients -> Page]
  /\ reply \in [Clients -> Reply]

ReplyOf(status, list, at, as_of, next) ==
  [status |-> status, packages |-> list, listed |-> at, as_of |-> as_of, next_update |-> next]

(* The first update is under way: Rocket is launched after it.             *)
Init ==
  /\ now = 1 /\ organization = 1
  /\ asks \in [Clients -> {"GET", "POST", "name"}]
  /\ pc = [u \in Updaters |-> IF u = Loop THEN "lock" ELSE "idle"]
  /\ fetched = [u \in Updaters |-> <<>>]
  /\ mutex = None /\ writer = None /\ poisoned = FALSE
  /\ packages = <<>>
  /\ packages_updated = 0 /\ packages_next_update = 0 /\ listed = 0
  /\ initial_delay = 0 /\ next_update = 0 /\ update_scheduled = 0 /\ wake = 0
  /\ asked = [c \in Clients |-> 1]
  /\ reply = [c \in Clients |-> ReplyOf(0, <<>>, 0, 0, 0)]

(* start_package_update_loop has returned.                                 *)
Launched == initial_delay # 0

AtLeast(d) == IF d < MinInterval THEN MinInterval ELSE d

Goto(u, place) == pc' = [pc EXCEPT ![u] = place]

Answer(c, status) ==
  /\ Goto(c, "replied")
  /\ reply' = [reply EXCEPT ![c] = ReplyOf(status, <<>>, 0, 0, 0)]

-----------------------------------------------------------------------------
(* update_packages *)

(* What becomes of the result: the loop goes on to record the next update  *)
(* (its first update must not fail), a handler reads the cache or answers. *)
Updated(u, d) ==
  \/ u = Loop /\ Goto(u, "record") /\ next_update' = AtLeast(d) /\ UNCHANGED reply
  \/ u # Loop /\ Goto(u, "packages") /\ UNCHANGED <<next_update, reply>>

(* A failed update (RetryForever: one that is made again).                 *)
RetryForever(u) == Goto(u, "lock") /\ UNCHANGED <<next_update, reply>>

UpdateFailed(u) ==
  \/ /\ u = Loop /\ ~Launched /\ Goto(u, "stopped") /\ UNCHANGED <<next_update, reply>>
  \/ /\ u = Loop /\ Launched /\ Goto(u, "record")
     /\ next_update' = Fallback /\ UNCHANGED reply
  \/ u # Loop /\ Answer(u, 500) /\ UNCHANGED next_update

(* A panic ends the thread: before the launch the program, later the loop  *)
(* for good, or the connection of a client.                                *)
Panicked(u) ==
  /\ \/ u = Loop /\ Goto(u, IF Launched THEN "dead" ELSE "stopped") /\ UNCHANGED reply
     \/ u # Loop /\ Answer(u, 1)
  /\ UNCHANGED next_update

(* An update that takes no mutex, and one that leaves the work to the      *)
(* update it finds under way.                                              *)
NoMutex(u) ==
  /\ pc[u] = "lock" /\ ~poisoned
  /\ Goto(u, "fetch")
  /\ UNCHANGED <<now, organization, asks, fetched, locks, cache, timer, asked, reply>>

JoinUpdate(u) ==
  /\ pc[u] = "lock" /\ ~poisoned
  /\ \/ mutex = None /\ mutex' = u /\ Goto(u, "fetch")
     \/ mutex # None /\ u # Loop /\ Goto(u, "packages") /\ UNCHANGED mutex
  /\ UNCHANGED <<now, organization, asks, fetched, writer, poisoned, cache, timer, asked,
                 reply>>

(* packages_update_mutex.lock().unwrap(), held until update_packages ends. *)
LockMutex(u) ==
  /\ pc[u] = "lock" /\ mutex = None /\ ~poisoned
  /\ mutex' = u
  /\ Goto(u, "fetch")
  /\ UNCHANGED <<now, organization, asks, fetched, writer, poisoned, cache, timer, asked,
                 reply>>

LockPoisonedMutex(u) ==
  /\ pc[u] = "lock" /\ mutex = None /\ poisoned
  /\ Panicked(u)
  /\ UNCHANGED <<now, organization, asks, fetched, locks, cache, initial_delay,
                 update_scheduled, wake, asked>>

(* One page of the listing, awaited; with the last one the list is whole.  *)
FetchPage(u) ==
  /\ pc[u] = "fetch"
  /\ fetched' = [fetched EXCEPT ![u] = Append(@, organization)]
  /\ Goto(u, IF Len(fetched[u]) + 1 < Pages THEN "fetch" ELSE "replace")
  /\ UNCHANGED <<now, organization, asks, locks, cache, timer, asked, reply>>

(* The error is returned with nothing replaced, and the mutex released.    *)
PageFails(u) ==
  /\ "page" \in Faults
  /\ pc[u] = "fetch"
  /\ UpdateFailed(u)
  /\ mutex' = None
  /\ fetched' = [fetched EXCEPT ![u] = <<>>]
  /\ UNCHANGED <<now, organization, asks, writer, poisoned, cache, initial_delay,
                 update_scheduled, wake, asked>>

(* packages.write(), held until update_packages ends, and the clear under  *)
(* it (ClearAlone: the clear under a lock of its own, released after it).  *)
ClearAlone(u) ==
  /\ pc[u] = "replace" /\ writer = None
  /\ packages' = <<>>
  /\ Goto(u, "append")
  /\ UNCHANGED <<now, organization, asks, fetched, locks, packages_updated,
                 packages_next_update, listed, timer, asked, reply>>

Clear(u) ==
  /\ pc[u] = "replace" /\ writer = None
  /\ writer' = u
  /\ packages' = <<>>
  /\ Goto(u, "append")
  /\ UNCHANGED <<now, organization, asks, fetched, mutex, poisoned, packages_updated,
                 packages_next_update, listed, timer, asked, reply>>

(* Vec::append moves the pages fetched behind those cached.                *)
AppendList(u) ==
  /\ pc[u] = "append"
  /\ packages' = packages \o fetched[u]
  /\ fetched' = [fetched EXCEPT ![u] = <<>>]
  /\ listed' = now
  /\ Goto(u, "stamp")
  /\ UNCHANGED <<now, organization, asks, locks, packages_updated, packages_next_update,
                 timer, asked, reply>>

(* packages_updated is written while packages is still locked (StampUnlocked*)
(* : after that lock).                                                     *)
StampUnlocked(u) ==
  /\ pc[u] = "stamp"
  /\ \/ writer = u /\ writer' = None /\ UNCHANGED <<packages_updated, pc>>
     \/ writer # u /\ packages_updated' = now /\ Goto(u, "pace") /\ UNCHANGED writer
  /\ UNCHANGED <<now, organization, asks, fetched, mutex, poisoned, packages, listed,
                 packages_next_update, timer, asked, reply>>

Stamp(u) ==
  /\ pc[u] = "stamp"
  /\ packages_updated' = now
  /\ Goto(u, "pace")
  /\ UNCHANGED <<now, organization, asks, fetched, locks, packages, listed,
                 packages_next_update, timer, asked, reply>>

(* next_update is computed with both locks held, which the return releases:*)
(* the time to the reset divided by the updates that are left until then.  *)
(* It may be negative, which to_std refuses.                               *)
Pace(u) ==
  /\ pc[u] = "pace"
  /\ \/ \E d \in Intervals : Updated(u, d)
     \/ "past" \in Faults /\ UpdateFailed(u)
  /\ mutex' = None /\ writer' = None
  /\ UNCHANGED <<now, organization, asks, fetched, poisoned, cache, initial_delay,
                 update_scheduled, wake, asked>>

(* With no update left the division panics, and both locks are poisoned.   *)
PacePanics(u) ==
  /\ "spent" \in Faults
  /\ pc[u] = "pace"
  /\ Panicked(u)
  /\ mutex' = None /\ writer' = None /\ poisoned' = TRUE
  /\ UNCHANGED <<now, organization, asks, fetched, cache, initial_delay, update_scheduled,
                 wake, asked>>

-----------------------------------------------------------------------------
(* start_package_update_loop *)

(* record_next_packages_update; what follows is a sleep.                   *)
Record ==
  /\ pc[Loop] = "record"
  /\ packages_next_update' = now + next_update
  /\ wake' = now + next_update
  /\ \/ /\ ~Launched
        /\ initial_delay' = next_update
        /\ Goto(Loop, "outer")
        /\ UNCHANGED update_scheduled
     \/ /\ Launched
        /\ update_scheduled' = now
        /\ Goto(Loop, "inner")
        /\ UNCHANGED initial_delay
  /\ UNCHANGED <<now, organization, asks, fetched, locks, packages, packages_updated, listed,
                 next_update, asked, reply>>

(* thread::sleep(initial_delay) at the top of the loop is over.            *)
WakeOuter ==
  /\ pc[Loop] = "outer" /\ now >= wake
  /\ Goto(Loop, "lock")
  /\ UNCHANGED <<now, organization, asks, fetched, locks, cache, timer, asked, reply>>

(* A loop that moves the announced time only.                              *)
AnnounceOnly ==
  /\ pc[Loop] = "inner" /\ now >= wake
  /\ \/ /\ packages_updated > update_scheduled
        /\ update_scheduled' = now
        /\ packages_next_update' = now + next_update
        /\ UNCHANGED <<pc, wake>>
     \/ /\ packages_updated <= update_scheduled
        /\ wake' = now + initial_delay
        /\ Goto(Loop, "outer")
        /\ UNCHANGED <<update_scheduled, packages_next_update>>
  /\ UNCHANGED <<now, organization, asks, fetched, locks, packages, packages_updated, listed,
                 initial_delay, next_update, asked, reply>>

(* A loop that does not look for updates of others.                        *)
OwnUpdatesOnly ==
  /\ pc[Loop] = "inner" /\ now >= wake
  /\ wake' = now + initial_delay
  /\ Goto(Loop, "outer")
  /\ UNCHANGED <<now, organization, asks, fetched, locks, cache, initial_delay, next_update,
                 update_scheduled, asked, reply>>

(* thread::sleep(next_update) is over: another update since then delays    *)
(* the scheduled one, otherwise the loop starts again.                     *)
WakeInner ==
  /\ pc[Loop] = "inner" /\ now >= wake
  /\ \/ /\ packages_updated > update_scheduled
        /\ update_scheduled' = now
        /\ packages_next_update' = now + next_update
        /\ wake' = now + next_update
        /\ UNCHANGED pc
     \/ /\ packages_updated <= update_scheduled
        /\ wake' = now + initial_delay
        /\ Goto(Loop, "outer")
        /\ UNCHANGED <<update_scheduled, packages_next_update>>
  /\ UNCHANGED <<now, organization, asks, fetched, locks, packages, packages_updated, listed,
                 initial_delay, next_update, asked, reply>>

-----------------------------------------------------------------------------
(* Requests *)

Arrive(c) ==
  /\ pc[c] = "idle" /\ Launched
  /\ asked' = [asked EXCEPT ![c] = organization]
  /\ Goto(c, IF asks[c] = "POST" THEN "lock" ELSE "packages")
  /\ UNCHANGED <<now, organization, asks, fetched, locks, cache, timer, reply>>

(* packages.read(), as get_packages clones it and get_package_names reads  *)
(* the names.                                                              *)
ReadPackages(c) ==
  /\ pc[c] = "packages" /\ writer = None
  /\ \/ poisoned /\ Answer(c, 1)
     \/ /\ ~poisoned
        /\ reply' = [reply EXCEPT ![c] =
             ReplyOf(IF asks[c] = "name" THEN 200 ELSE 0, packages, listed, 0, 0)]
        /\ Goto(c, IF asks[c] = "name" THEN "replied" ELSE "as_of")
  /\ UNCHANGED <<now, organization, asks, fetched, locks, cache, timer, asked>>

(* The other two locks, one after the other.                               *)
ReadAsOf(c) ==
  /\ pc[c] = "as_of"
  /\ reply' = [reply EXCEPT ![c] =
       ReplyOf(0, reply[c].packages, reply[c].listed, packages_updated, 0)]
  /\ Goto(c, "next_update")
  /\ UNCHANGED <<now, organization, asks, fetched, locks, cache, timer, asked>>

ReadNextUpdate(c) ==
  /\ pc[c] = "next_update"
  /\ reply' = [reply EXCEPT ![c] =
       ReplyOf(200, reply[c].packages, reply[c].listed, reply[c].as_of,
               packages_next_update)]
  /\ Goto(c, "replied")
  /\ UNCHANGED <<now, organization, asks, fetched, locks, cache, timer, asked>>

-----------------------------------------------------------------------------
(* Specification *)

Tick ==
  /\ now < MaxTime
  /\ now' = now + 1
  /\ UNCHANGED <<organization, asks, pc, fetched, locks, cache, timer, asked, reply>>

OrganizationChanges ==
  /\ organization < MaxVersion
  /\ organization' = organization + 1
  /\ UNCHANGED <<now, asks, pc, fetched, locks, cache, timer, asked, reply>>

Update(u) ==
  \/ LockMutex(u) \/ LockPoisonedMutex(u) \/ FetchPage(u) \/ PageFails(u) \/ Clear(u)
  \/ AppendList(u) \/ Stamp(u) \/ Pace(u)

Scheduler == Update(Loop) \/ Record \/ WakeOuter \/ WakeInner

Handler(c) == Update(c) \/ ReadPackages(c) \/ ReadAsOf(c) \/ ReadNextUpdate(c)

(* The bound on time is reached with every request answered, or the        *)
(* program has ended.                                                      *)
Finished ==
  /\ \/ pc[Loop] = "stopped"
     \/ now = MaxTime /\ \A c \in Clients : pc[c] = "replied"
  /\ UNCHANGED vars

Next ==
  \/ Scheduler
  \/ \E c \in Clients : Arrive(c) \/ Handler(c)
  \/ \E u \in Updaters : PacePanics(u)
  \/ Tick \/ OrganizationChanges
  \/ Finished

Spec == Init /\ [][Next]_vars

(* Threads are scheduled and GitHub answers, well or badly.                *)
Fairness == WF_vars(Scheduler) /\ \A c \in Clients : WF_vars(Handler(c))

FairSpec == Spec /\ Fairness

-----------------------------------------------------------------------------
(* Properties *)

(* The mutex is held from the first page to the return, and with it, from  *)
(* the clear on, the write lock.                                           *)
UpdateUnderMutex ==
  \A u \in Updaters :
    /\ pc[u] \in {"fetch", "replace", "append", "stamp", "pace"} <=> mutex = u
    /\ pc[u] \in {"append", "stamp", "pace"} <=> writer = u

(* The list that the next reader finds: the cache, or what the writer who  *)
(* has cleared it is about to put there.                                   *)
Listing == IF writer # None /\ pc[writer] = "append" THEN fetched[writer] ELSE packages

InOrder(listing) == \A i, j \in 1..Len(listing) : i <= j => listing[i] <= listing[j]

(* The whole of one pagination, in the order of its pages.                 *)
Whole(listing) ==
  /\ Len(listing) = Pages
  /\ InOrder(listing)
  /\ \A i \in 1..Pages : listing[i] <= organization

(* A list being fetched is in the order of its pages and nowhere older     *)
(* than the list it will replace; it is appended to an empty cache.        *)
FetchedInOrder ==
  \A u \in Updaters :
    /\ pc[u] \in {"fetch", "replace", "append"} \/ fetched[u] = <<>>
    /\ pc[u] = "fetch" => Len(fetched[u]) < Pages
    /\ pc[u] \in {"replace", "append"} => Len(fetched[u]) = Pages
    /\ pc[u] = "append" => packages = <<>>
    /\ InOrder(fetched[u])
    /\ \A i \in 1..Len(fetched[u]) :
         /\ fetched[u][i] <= organization
         /\ Listing # <<>> => Listing[i] <= fetched[u][i]

(* Clients are let in behind the first update, and from then on there is a *)
(* whole list for them.                                                    *)
ListingIsThere ==
  /\ Listing # <<>> => Whole(Listing)
  /\ Launched \/ pc[Loop] \in {"append", "stamp", "pace", "record"} => Listing # <<>>
  /\ ~Launched => \A c \in Clients : pc[c] = "idle"

(* What c has read of the cache.                                           *)
HasRead(c) ==
  pc[c] \in {"as_of", "next_update"} \/ (pc[c] = "replied" /\ reply[c].status = 200)

(* Nobody has read a list that is newer than the next one will be.         *)
ReadsStayBehind ==
  \A c \in Clients :
    HasRead(c) => \A i \in 1..Pages : reply[c].packages[i] <= Listing[i]

(* A reader never sees part of an update, and none that is empty: what it  *)
(* reads is the whole of one pagination.                                   *)
WholeListing == \A c \in Clients : HasRead(c) => Whole(reply[c].packages)

(* The inductive invariant.                                                *)
ListingInv ==
  /\ TypeOK
  /\ UpdateUnderMutex
  /\ FetchedInOrder
  /\ ListingIsThere
  /\ ReadsStayBehind
  /\ WholeListing

(* The time of the last update is behind that of the listing only while    *)
(* the update that replaced it still holds the write lock.                 *)
StampLagsUnderLock ==
  /\ listed <= now /\ packages_updated <= now
  /\ listed <= packages_updated \/ \E u \in Updaters : pc[u] = "stamp"

(* What a handler has read so far fits what it has still to read.          *)
ReadsFit ==
  \A c \in Clients :
    /\ pc[c] = "as_of" => reply[c].listed <= packages_updated
    /\ pc[c] = "next_update" => reply[c].listed <= reply[c].as_of
    /\ reply[c].status = 200 => pc[c] = "replied"

NoOlderThan(list, v) == Len(list) = Pages /\ \A i \in 1..Pages : list[i] >= v

(* A POST carries what it asked for through its update: the pages it has   *)
(* fetched, the cache it comes back to, which others may have replaced     *)
(* since, and the list it has read are as new as its question.             *)
PostsCarryOn ==
  \A c \in Clients :
    /\ asked[c] <= organization
    /\ asks[c] = "POST" =>
         /\ \A i \in 1..Len(fetched[c]) : fetched[c][i] >= asked[c]
         /\ pc[c] \in {"append", "stamp", "pace", "packages"} => NoOlderThan(Listing, asked[c])
         /\ pc[c] \in {"as_of", "next_update"} => NoOlderThan(reply[c].packages, asked[c])

(* The loop sleeps at least until the time it announced, and until the     *)
(* interval has passed since it scheduled the update.                      *)
SleepsToAnnounced ==
  /\ pc[Loop] \in {"outer", "inner"} => packages_next_update <= wake
  /\ pc[Loop] = "inner" => update_scheduled + next_update <= wake

(* The as_of of an answer is never earlier than the listing it comes with, *)
(* although the two are read under different locks.                        *)
AsOfCoversListing ==
  \A c \in Clients :
    asks[c] # "name" /\ reply[c].status = 200 => reply[c].as_of >= reply[c].listed

(* Who updates sees the update: the listing a POST answers was fetched     *)
(* after it was asked for, whatever updates were under way.                *)
PostIsFresh ==
  \A c \in Clients :
    asks[c] = "POST" /\ reply[c].status = 200 =>
      \A i \in 1..Pages : reply[c].packages[i] >= asked[c]

(* What else is inductive, given ListingInv: how answers and the loop's    *)
(* deadline depend on what was read and announced before.                  *)
AnswersInv ==
  /\ StampLagsUnderLock
  /\ ReadsFit
  /\ PostsCarryOn
  /\ SleepsToAnnounced
  /\ AsOfCoversListing
  /\ PostIsFresh

(* No reader is taken back: what one reads is nowhere older than what any  *)
(* other has read before, although updates of the loop and of clients that *)
(* replace the list overlap.                                               *)
NotOlder ==
  \A c, d \in Clients :
    pc[c] = "packages" /\ pc'[c] # "packages" /\ HasRead(c)' /\ HasRead(d) =>
      \A i \in 1..Pages : reply'[c].packages[i] >= reply[d].packages[i]

ListingNeverGoesBack == [][NotOlder]_vars

(* The loop does not update before the time it announced last.             *)
NotBeforeAnnounced ==
  [][pc[Loop] = "outer" /\ pc'[Loop] = "lock" => now >= packages_next_update]_vars

(* An update of a client delays that of the loop: the loop goes on to its  *)
(* last sleep no earlier than one interval after the last update that any  *)
(* thread has made.                                                        *)
UpdatesDelayTheLoop ==
  [][pc[Loop] = "inner" /\ pc'[Loop] = "outer" => now >= packages_updated + next_update]_vars

(* Every request is answered 200 or 500, also behind an update that fails; *)
(* only when a panic has poisoned the locks, the connection is closed      *)
(* without an answer (see ListingStatuses).                                *)
ListingAnswered ==
  \A c \in Clients :
    pc[c] # "idle" ~> pc[c] = "replied" /\ (reply[c].status \in {200, 500} \/ poisoned)

-----------------------------------------------------------------------------
(* What the documentation and the tests say *)

(* tests/get.rs, package_listing: as_of is before next_update, here for    *)
(* what GET /packages answers while no update is under way and the loop is *)
(* in the middle of a sleep.                                               *)
NextUpdateIsAhead ==
  pc[Loop] \in {"outer", "inner"} /\ now < wake /\ mutex = None =>
    packages_updated < packages_next_update

(* openapi.yaml: GET /packages is answered 200 or 500.                     *)
ListingStatuses ==
  \A c \in Clients : pc[c] = "replied" /\ asks[c] = "GET" => reply[c].status \in {200, 500}
=============================================================================
