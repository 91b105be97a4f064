------------------------ MODULE PackageListingProofs ------------------------
(***************************************************************************)
(* Proofs about PackageListing, for any number of clients and pages, any   *)
(* intervals and any choice of faults.                                     *)
(***************************************************************************)
EXTENDS PackageListing, TLAPS

AllPC == {"idle", "replied"} \cup UpdatePC \cup ReadPC \cup LoopPC

LEMMA GotoType ==
  ASSUME TypeOK, NEW u \in Updaters, NEW place \in AllPC, Goto(u, place)
  PROVE  pc' \in [Updaters -> AllPC]
  BY DEF TypeOK, Goto, AllPC

LEMMA ReplyType ==
  ASSUME TypeOK, NEW c \in Clients, NEW status \in Status, NEW list \in Seq(Page),
         NEW at \in Time, NEW as_of \in Time, NEW next \in Time,
         reply' = [reply EXCEPT ![c] = ReplyOf(status, list, at, as_of, next)]
  PROVE  reply' \in [Clients -> Reply]
<1>1. ReplyOf(status, list, at, as_of, next) \in Reply
  BY DEF ReplyOf, Reply
<1>2. reply \in [Clients -> Reply]
  BY DEF TypeOK
<1> QED
  BY <1>1, <1>2

LEMMA NoList == <<>> \in Seq(Page)
  OBVIOUS

LEMMA AnswerType ==
  ASSUME TypeOK, NEW c \in Clients, NEW status \in Status, Answer(c, status)
  PROVE  pc' \in [Updaters -> AllPC] /\ reply' \in [Clients -> Reply]
<1>1. "replied" \in AllPC /\ c \in Updaters /\ 0 \in Time
  BY DEF AllPC, Updaters, Time
<1>2. Goto(c, "replied") /\ reply' = [reply EXCEPT ![c] = ReplyOf(status, <<>>, 0, 0, 0)]
  BY DEF Answer
<1> QED
  BY <1>1, <1>2, GotoType, ReplyType, NoList

(* What the ways out of update_packages leave.                             *)
LEMMA OutcomeType ==
  ASSUME TypeOK, NEW u \in Updaters,
         UpdateFailed(u) \/ Panicked(u) \/ \E d \in Intervals : Updated(u, d)
  PROVE  /\ pc' \in [Updaters -> AllPC]
         /\ reply' \in [Clients -> Reply]
         /\ next_update' \in Time
<1>1. {"record", "stopped", "dead", "packages"} \subseteq AllPC
  BY DEF AllPC, ReadPC, LoopPC
<1>2. Fallback \in Time /\ next_update \in Time /\ reply \in [Clients -> Reply]
      /\ \A d \in Intervals : AtLeast(d) \in Time
  BY ListingAssumption DEF TypeOK, Time, AtLeast
<1>3. 1 \in Status /\ 500 \in Status
  BY DEF Status
<1>4. u # Loop => u \in Clients
  BY DEF Updaters
<1>5. CASE UpdateFailed(u)
  <2>1. CASE u # Loop
    BY <1>2, <1>3, <1>4, <1>5, <2>1, AnswerType DEF UpdateFailed
  <2>2. CASE u = Loop
    <3>1. /\ \E place \in {"stopped", "record"} : Goto(u, place)
          /\ next_update' \in {next_update, Fallback}
          /\ UNCHANGED reply
      BY <1>5, <2>2 DEF UpdateFailed
    <3> QED
      BY <1>1, <1>2, <3>1, GotoType
  <2> QED
    BY <2>1, <2>2
<1>6. CASE Panicked(u)
  <2>1. CASE u # Loop
    BY <1>2, <1>3, <1>4, <1>6, <2>1, AnswerType DEF Panicked
  <2>2. CASE u = Loop
    <3>1. (\E place \in {"stopped", "dead"} : Goto(u, place)) /\ UNCHANGED <<next_update, reply>>
      BY <1>6, <2>2 DEF Panicked
    <3> QED
      BY <1>1, <1>2, <3>1, GotoType
  <2> QED
    BY <2>1, <2>2
<1>7. ASSUME NEW d \in Intervals, Updated(u, d)
      PROVE  /\ pc' \in [Updaters -> AllPC]
             /\ reply' \in [Clients -> Reply]
             /\ next_update' \in Time
  <2>1. /\ \E place \in {"record", "packages"} : Goto(u, place)
        /\ next_update' \in {next_update, AtLeast(d)}
        /\ UNCHANGED reply
    BY <1>7 DEF Updated
  <2> QED
    BY <1>1, <1>2, <2>1, GotoType
<1> QED
  BY <1>5, <1>6, <1>7

LEMMA TypeStep == TypeOK /\ [Next]_vars => TypeOK'
<1> SUFFICES ASSUME TypeOK, [Next]_vars
             PROVE  TypeOK'
  OBVIOUS
<1> USE DEF cache, locks, timer
<1>1. ASSUME NEW u \in Updaters, LockMutex(u)
      PROVE  TypeOK'
  <2>1. pc' \in [Updaters -> AllPC]
    <3>1. "fetch" \in AllPC /\ Goto(u, "fetch")
      BY <1>1 DEF AllPC, UpdatePC, LockMutex
    <3> QED
      BY <3>1, GotoType
  <2> QED
    BY <1>1, <2>1 DEF LockMutex, TypeOK, AllPC
<1>2. ASSUME NEW u \in Updaters, LockPoisonedMutex(u)
      PROVE  TypeOK'
  <2>1. Panicked(u)
    BY <1>2 DEF LockPoisonedMutex
  <2> QED
    BY <1>2, <2>1, OutcomeType DEF LockPoisonedMutex, TypeOK, AllPC
<1>3. ASSUME NEW u \in Updaters, FetchPage(u)
      PROVE  TypeOK'
  <2>1. pc' \in [Updaters -> AllPC]
    <3>1. (\E place \in {"fetch", "replace"} : Goto(u, place)) /\ {"fetch", "replace"} \subseteq AllPC
      BY <1>3 DEF AllPC, UpdatePC, FetchPage
    <3> QED
      BY <3>1, GotoType
  <2>2. Append(fetched[u], organization) \in Seq(Page)
    BY DEF TypeOK
  <2>3. fetched' \in [Updaters -> Seq(Page)]
    BY <1>3, <2>2 DEF FetchPage, TypeOK
  <2> QED
    BY <1>3, <2>1, <2>3 DEF FetchPage, TypeOK, AllPC
<1>4. ASSUME NEW u \in Updaters, PageFails(u)
      PROVE  TypeOK'
  <2>1. UpdateFailed(u)
    BY <1>4 DEF PageFails
  <2>2. fetched' \in [Updaters -> Seq(Page)]
    BY <1>4, NoList DEF PageFails, TypeOK
  <2> QED
    BY <1>4, <2>1, <2>2, OutcomeType DEF PageFails, TypeOK, AllPC
<1>5. ASSUME NEW u \in Updaters, Clear(u) \/ AppendList(u)
      PROVE  TypeOK'
  <2>1. pc' \in [Updaters -> AllPC]
    <3>1. /\ \E place \in {"append", "stamp"} : Goto(u, place)
          /\ {"append", "stamp"} \subseteq AllPC
      BY <1>5 DEF AllPC, UpdatePC, Clear, AppendList
    <3> QED
      BY <3>1, GotoType
  <2>2. CASE Clear(u)
    BY <2>1, <2>2, NoList DEF Clear, TypeOK, AllPC, Time
  <2>3. CASE AppendList(u)
    <3>1. packages \o fetched[u] \in Seq(Page) /\ fetched' \in [Updaters -> Seq(Page)]
      BY <2>3, NoList DEF AppendList, TypeOK
    <3> QED
      BY <2>1, <2>3, <3>1 DEF AppendList, TypeOK, AllPC, Time
  <2> QED
    BY <1>5, <2>2, <2>3
<1>6. ASSUME NEW u \in Updaters, Stamp(u)
      PROVE  TypeOK'
  <2>1. pc' \in [Updaters -> AllPC]
    <3>1. "pace" \in AllPC /\ Goto(u, "pace")
      BY <1>6 DEF AllPC, UpdatePC, Stamp
    <3> QED
      BY <3>1, GotoType
  <2> QED
    BY <1>6, <2>1 DEF Stamp, TypeOK, AllPC, Time
<1>7. ASSUME NEW u \in Updaters, Pace(u) \/ PacePanics(u)
      PROVE  TypeOK'
  <2>1. UpdateFailed(u) \/ Panicked(u) \/ \E d \in Intervals : Updated(u, d)
    BY <1>7 DEF Pace, PacePanics
  <2> QED
    BY <1>7, <2>1, OutcomeType DEF Pace, PacePanics, TypeOK, AllPC
<1>8. CASE Record \/ WakeOuter \/ WakeInner
  <2>1. \E place \in {"outer", "inner", "lock"} : Goto(Loop, place) \/ UNCHANGED pc
    BY <1>8 DEF Record, WakeOuter, WakeInner
  <2>2. {"outer", "inner", "lock"} \subseteq AllPC /\ Loop \in Updaters
    BY DEF AllPC, UpdatePC, LoopPC, Updaters
  <2>3. pc' \in [Updaters -> AllPC]
    BY <2>1, <2>2, GotoType DEF TypeOK, AllPC
  <2>4. now \in Nat /\ next_update \in Nat /\ initial_delay \in Nat
    BY DEF TypeOK, Time
  <2>5. CASE Record
    <3>1. packages_next_update' \in Time /\ wake' \in Time /\ update_scheduled' \in Time
          /\ initial_delay' \in Time
      BY <2>4, <2>5 DEF Record, TypeOK, Time
    <3> QED
      BY <2>3, <2>5, <3>1 DEF Record, TypeOK, AllPC
  <2>6. CASE WakeOuter
    BY <2>3, <2>6 DEF WakeOuter, TypeOK, AllPC
  <2>7. CASE WakeInner
    <3>1. packages_next_update' \in Time /\ wake' \in Time /\ update_scheduled' \in Time
      BY <2>4, <2>7 DEF WakeInner, TypeOK, Time
    <3> QED
      BY <2>3, <2>7, <3>1 DEF WakeInner, TypeOK, AllPC
  <2> QED
    BY <1>8, <2>5, <2>6, <2>7
<1>9. ASSUME NEW c \in Clients, Arrive(c)
      PROVE  TypeOK'
  <2>1. (\E place \in {"lock", "packages"} : Goto(c, place)) /\ c \in Updaters
    BY <1>9 DEF Arrive, Updaters
  <2>2. {"lock", "packages"} \subseteq AllPC
    BY DEF AllPC, UpdatePC, ReadPC
  <2>3. pc' \in [Updaters -> AllPC]
    BY <2>1, <2>2, GotoType
  <2> QED
    BY <1>9, <2>3 DEF Arrive, TypeOK, AllPC
<1>10. ASSUME NEW c \in Clients, ReadPackages(c) \/ ReadAsOf(c) \/ ReadNextUpdate(c)
       PROVE  TypeOK'
  <2>1. c \in Updaters /\ {"replied", "as_of", "next_update"} \subseteq AllPC
    BY DEF Updaters, AllPC, ReadPC
  <2>2. /\ reply[c].packages \in Seq(Page) /\ reply[c].listed \in Time /\ reply[c].as_of \in Time
        /\ packages \in Seq(Page) /\ listed \in Time /\ packages_updated \in Time
        /\ packages_next_update \in Time /\ 0 \in Time
        /\ {0, 1, 200} \subseteq Status
    BY DEF TypeOK, Reply, Status, Time
  <2>3. CASE Answer(c, 1)
    <3>1. pc' \in [Updaters -> AllPC] /\ reply' \in [Clients -> Reply]
      BY <2>2, <2>3, AnswerType
    <3> QED
      BY <1>10, <3>1 DEF ReadPackages, ReadAsOf, ReadNextUpdate, TypeOK, AllPC
  <2>4. CASE ~Answer(c, 1)
    <3>1. \E place \in {"replied", "as_of", "next_update"} : Goto(c, place)
      BY <1>10, <2>4 DEF ReadPackages, ReadAsOf, ReadNextUpdate
    <3>2. \/ \E status \in {0, 200} :
               reply' = [reply EXCEPT ![c] = ReplyOf(status, packages, listed, 0, 0)]
          \/ reply' = [reply EXCEPT ![c] =
               ReplyOf(0, reply[c].packages, reply[c].listed, packages_updated, 0)]
          \/ reply' = [reply EXCEPT ![c] =
               ReplyOf(200, reply[c].packages, reply[c].listed, reply[c].as_of,
                       packages_next_update)]
      BY <1>10, <2>4 DEF ReadPackages, ReadAsOf, ReadNextUpdate
    <3>3. pc' \in [Updaters -> AllPC]
      BY <2>1, <3>1, GotoType
    <3>4. reply' \in [Clients -> Reply]
      BY <2>2, <3>2, ReplyType
    <3> QED
      BY <1>10, <3>3, <3>4 DEF ReadPackages, ReadAsOf, ReadNextUpdate, TypeOK, AllPC
  <2> QED
    BY <2>3, <2>4
<1>11. CASE Tick
  BY <1>11, ListingAssumption DEF Tick, TypeOK
<1>12. CASE OrganizationChanges
  <2>1. organization' \in Page
    BY <1>12, ListingAssumption DEF OrganizationChanges, TypeOK, Page
  <2> QED
    BY <1>12, <2>1 DEF OrganizationChanges, TypeOK
<1>13. CASE UNCHANGED vars
  BY <1>13 DEF TypeOK, vars
<1> QED
  BY <1>1, <1>2, <1>3, <1>4, <1>5, <1>6, <1>7, <1>8, <1>9, <1>10, <1>11, <1>12, <1>13
     DEF Next, Scheduler, Handler, Update, Finished, Updaters

LEMMA TypeInit == Init => TypeOK
<1> SUFFICES ASSUME Init
             PROVE  TypeOK
  OBVIOUS
<1>1. 1 \in Page /\ 1 \in 1..MaxTime
  BY ListingAssumption DEF Page
<1>2. ReplyOf(0, <<>>, 0, 0, 0) \in Reply
  BY NoList DEF ReplyOf, Reply, Status, Time
<1>3. reply \in [Clients -> Reply]
  BY <1>2 DEF Init
<1>4. {"lock", "idle"} \subseteq AllPC
  BY DEF AllPC, UpdatePC
<1>5. pc \in [Updaters -> AllPC]
  BY <1>4 DEF Init
<1> QED
  BY <1>1, <1>3, <1>5, NoList DEF Init, TypeOK, AllPC, Time

-----------------------------------------------------------------------------
(* The locks *)

Outside == {"idle", "replied", "lock", "packages", "as_of", "next_update", "record", "outer",
            "inner", "dead", "stopped"}

(* Every way out of update_packages leaves the part under the mutex.       *)
LEMMA OutcomeLeaves ==
  ASSUME NEW u, UpdateFailed(u) \/ Panicked(u) \/ \E d \in Intervals : Updated(u, d)
  PROVE  \E place \in Outside : Goto(u, place)
  BY DEF UpdateFailed, Panicked, Updated, Answer, Outside

(* What every action does to the locks and to the part of update_packages  *)
(* its actor is in: it takes the mutex, moves on under it, leaves with the *)
(* locks released, or moves outside of it.                                 *)
Takes(u) == /\ pc[u] = "lock" /\ mutex = None /\ Goto(u, "fetch")
            /\ mutex' = u /\ UNCHANGED <<writer, fetched, packages, organization>>

Leaves(u) == /\ pc[u] \in {"fetch", "stamp", "pace"}
             /\ \E place \in Outside : Goto(u, place)
             /\ mutex' = None /\ UNCHANGED <<packages, organization>>
             /\ pc[u] = "fetch" => writer' = writer /\ fetched' = [fetched EXCEPT ![u] = <<>>]
             /\ pc[u] # "fetch" => writer' = None /\ fetched' = fetched

Elsewhere(u) == /\ pc[u] \in Outside
                /\ UNCHANGED pc \/ \E place \in Outside : Goto(u, place)
                /\ UNCHANGED <<mutex, writer, fetched, packages, organization>>

StampStep(u) == /\ pc[u] = "stamp" /\ Goto(u, "pace")
                /\ UNCHANGED <<mutex, writer, fetched, packages, organization>>

Rest == UNCHANGED <<pc, mutex, writer, fetched, packages>>

LEMMA StepKinds ==
  ASSUME TypeOK, [Next]_vars
  PROVE  \/ \E u \in Updaters : \/ Takes(u) \/ Leaves(u) \/ Elsewhere(u) \/ StampStep(u)
                                \/ FetchPage(u) \/ Clear(u) \/ AppendList(u)
         \/ Rest /\ organization' \in {organization, organization + 1}
<1> USE DEF cache, locks, timer
<1>1. ASSUME NEW u \in Updaters, LockMutex(u)
      PROVE  Takes(u)
  BY <1>1 DEF LockMutex, Takes
<1>2. ASSUME NEW u \in Updaters, LockPoisonedMutex(u)
      PROVE  Elsewhere(u)
  BY <1>2, OutcomeLeaves DEF LockPoisonedMutex, Elsewhere, Outside
<1>3. ASSUME NEW u \in Updaters, PageFails(u)
      PROVE  Leaves(u)
  BY <1>3, OutcomeLeaves DEF PageFails, Leaves
<1>4. ASSUME NEW u \in Updaters, Stamp(u)
      PROVE  StampStep(u)
  BY <1>4 DEF Stamp, StampStep
<1>5. ASSUME NEW u \in Updaters, Pace(u) \/ PacePanics(u)
      PROVE  Leaves(u)
  <2>1. \E place \in Outside : Goto(u, place)
    BY <1>5, OutcomeLeaves DEF Pace, PacePanics
  <2> QED
    BY <1>5, <2>1 DEF Pace, PacePanics, Leaves
<1>6. ASSUME Record \/ WakeOuter \/ WakeInner
      PROVE  Elsewhere(Loop)
  BY <1>6 DEF Record, WakeOuter, WakeInner, Elsewhere, Outside
<1>7. ASSUME NEW c \in Clients,
             Arrive(c) \/ ReadPackages(c) \/ ReadAsOf(c) \/ ReadNextUpdate(c)
      PROVE  Elsewhere(c)
  <2>1. pc[c] \in Outside
    BY <1>7 DEF Arrive, ReadPackages, ReadAsOf, ReadNextUpdate, Outside
  <2>2. \E place \in Outside : Goto(c, place)
    BY <1>7 DEF Arrive, ReadPackages, ReadAsOf, ReadNextUpdate, Outside, Answer
  <2>3. UNCHANGED <<mutex, writer, fetched, packages, organization>>
    BY <1>7 DEF Arrive, ReadPackages, ReadAsOf, ReadNextUpdate
  <2> QED
    BY <2>1, <2>2, <2>3 DEF Elsewhere
<1>8. CASE Tick \/ OrganizationChanges \/ UNCHANGED vars
  BY <1>8 DEF Tick, OrganizationChanges, vars, Rest
<1> QED
  BY <1>1, <1>2, <1>3, <1>4, <1>5, <1>6, <1>7, <1>8
     DEF Next, Scheduler, Handler, Update, Finished, Updaters

LEMMA MutexInit == Init => UpdateUnderMutex
  BY ListingAssumption DEF Init, UpdateUnderMutex, Updaters

LEMMA MutexStep == TypeOK /\ UpdateUnderMutex /\ [Next]_vars => UpdateUnderMutex'
<1> SUFFICES ASSUME TypeOK, UpdateUnderMutex, [Next]_vars
             PROVE  UpdateUnderMutex'
  OBVIOUS
<1> USE DEF cache, locks, timer
<1>0. None \notin Updaters /\ pc \in [Updaters -> AllPC]
  BY ListingAssumption DEF Updaters, TypeOK, AllPC
<1>1. ASSUME NEW u \in Updaters, Takes(u)
      PROVE  UpdateUnderMutex'
  BY <1>0, <1>1 DEF Takes, Goto, UpdateUnderMutex
<1>2. ASSUME NEW u \in Updaters, Leaves(u)
      PROVE  UpdateUnderMutex'
  BY <1>0, <1>2 DEF Leaves, Goto, UpdateUnderMutex, Outside
<1>3. ASSUME NEW u \in Updaters, Elsewhere(u)
      PROVE  UpdateUnderMutex'
  BY <1>0, <1>3 DEF Elsewhere, Goto, UpdateUnderMutex, Outside
<1>4. ASSUME NEW u \in Updaters, StampStep(u)
      PROVE  UpdateUnderMutex'
  BY <1>0, <1>4 DEF StampStep, Goto, UpdateUnderMutex
<1>5. ASSUME NEW u \in Updaters, FetchPage(u)
      PROVE  UpdateUnderMutex'
  BY <1>0, <1>5 DEF FetchPage, Goto, UpdateUnderMutex
<1>6. ASSUME NEW u \in Updaters, Clear(u) \/ AppendList(u)
      PROVE  UpdateUnderMutex'
  BY <1>0, <1>6 DEF Clear, AppendList, Goto, UpdateUnderMutex
<1>7. CASE Rest
  BY <1>7 DEF Rest, UpdateUnderMutex
<1> QED
  BY <1>1, <1>2, <1>3, <1>4, <1>5, <1>6, <1>7, StepKinds

-----------------------------------------------------------------------------
(* What a step means to one client                                         *)

(* What an update does to others than its updater: nothing they hold.      *)
Kept(c) == /\ pc'[c] = pc[c] /\ fetched'[c] = fetched[c]
           /\ reply'[c] = reply[c] /\ asked'[c] = asked[c]

LEMMA OutcomeKeeps ==
  ASSUME TypeOK, NEW u \in Updaters, NEW c \in Clients, u # c,
         UpdateFailed(u) \/ Panicked(u) \/ \E d \in Intervals : Updated(u, d)
  PROVE  pc'[c] = pc[c] /\ reply'[c] = reply[c]
<1>1. c \in Updaters
  BY DEF Updaters
<1>2. \A place : Goto(u, place) => pc'[c] = pc[c]
  BY <1>1 DEF TypeOK, Goto
<1>3. \A status : u # Loop /\ Answer(u, status) => reply'[c] = reply[c]
  BY DEF TypeOK, Answer
<1> QED
  BY <1>2, <1>3 DEF UpdateFailed, Panicked, Updated, Answer

LEMMA UpdateKeeps ==
  ASSUME TypeOK, NEW u \in Updaters, NEW c \in Clients, u # c, Update(u) \/ PacePanics(u)
  PROVE  Kept(c)
<1>1. c \in Updaters
  BY DEF Updaters
<1>2. \A place : Goto(u, place) => pc'[c] = pc[c]
  BY <1>1 DEF TypeOK, Goto
<1>3. \A x : fetched' = [fetched EXCEPT ![u] = x] => fetched'[c] = fetched[c]
  BY <1>1 DEF TypeOK
<1>4. CASE LockMutex(u) \/ Stamp(u)
  BY <1>2, <1>4 DEF LockMutex, Stamp, Kept
<1>5. CASE FetchPage(u) \/ Clear(u) \/ AppendList(u)
  BY <1>2, <1>3, <1>5 DEF FetchPage, Clear, AppendList, Kept
<1>6. CASE LockPoisonedMutex(u)
  BY <1>6, OutcomeKeeps DEF LockPoisonedMutex, Kept
<1>7. CASE PageFails(u)
  BY <1>3, <1>7, OutcomeKeeps DEF PageFails, Kept
<1>8. CASE Pace(u) \/ PacePanics(u)
  BY <1>8, OutcomeKeeps DEF Pace, PacePanics, Kept
<1> QED
  BY <1>4, <1>5, <1>6, <1>7, <1>8 DEF Update

LEMMA OthersKeep ==
  ASSUME TypeOK, [Next]_vars, NEW c \in Clients
  PROVE  Kept(c) \/ Arrive(c) \/ Handler(c) \/ PacePanics(c)
<1>0. c \in Updaters /\ Loop \in Updaters /\ c # Loop
  BY ListingAssumption DEF Updaters
<1> USE DEF cache, locks, timer
<1>1. CASE Record \/ WakeOuter \/ WakeInner
  BY <1>0, <1>1 DEF Record, WakeOuter, WakeInner, Goto, Kept, TypeOK
<1>2. CASE Update(Loop) \/ PacePanics(Loop)
  BY <1>0, <1>2, UpdateKeeps
<1>3. ASSUME NEW d \in Clients, d # c, Update(d) \/ PacePanics(d)
      PROVE  Kept(c)
  BY <1>3, UpdateKeeps DEF Updaters
<1>4. ASSUME NEW d \in Clients, d # c, Arrive(d)
      PROVE  Kept(c)
  BY <1>0, <1>4 DEF Arrive, Goto, Kept, TypeOK
<1>5. ASSUME NEW d \in Clients, d # c, ReadPackages(d) \/ ReadAsOf(d) \/ ReadNextUpdate(d)
      PROVE  Kept(c)
  <2>1. \E place : Goto(d, place)
    BY <1>5 DEF ReadPackages, ReadAsOf, ReadNextUpdate, Answer
  <2>2. \E x : reply' = [reply EXCEPT ![d] = x]
    BY <1>5 DEF ReadPackages, ReadAsOf, ReadNextUpdate, Answer
  <2>3. UNCHANGED <<fetched, asked>>
    BY <1>5 DEF ReadPackages, ReadAsOf, ReadNextUpdate
  <2> QED
    BY <1>0, <1>5, <2>1, <2>2, <2>3 DEF Goto, Kept, TypeOK
<1>6. CASE Tick \/ OrganizationChanges \/ UNCHANGED vars
  BY <1>6 DEF Tick, OrganizationChanges, vars, Kept
<1> QED
  BY <1>1, <1>2, <1>3, <1>4, <1>5, <1>6
     DEF Next, Scheduler, Handler, Finished, Updaters

-----------------------------------------------------------------------------
(* The list that readers find                                              *)

ListingSays ==
  /\ \A u \in Updaters : pc[u] = "append" => Listing = fetched[u]
  /\ (\A u \in Updaters : pc[u] # "append") => Listing = packages
  /\ writer = None => Listing = packages

LEMMA ListingOf == TypeOK /\ UpdateUnderMutex => ListingSays
<1>1. None \notin Updaters
  BY ListingAssumption DEF Updaters
<1> QED
  BY <1>1 DEF TypeOK, UpdateUnderMutex, Listing, ListingSays

LEMMA ListingOf2 == TypeOK' /\ UpdateUnderMutex' => ListingSays'
  BY ListingOf, PTL

LEMMA ClearSets ==
  ASSUME TypeOK, TypeOK', UpdateUnderMutex', NEW u \in Updaters, Clear(u)
  PROVE  Listing' = fetched[u]
<1>1. pc'[u] = "append" /\ fetched' = fetched
  BY DEF Clear, Goto, TypeOK
<1> QED
  BY <1>1, ListingOf2 DEF ListingSays

(* Steps that move nobody to or from the append, and change nothing it uses*)
Calm ==
  /\ UNCHANGED packages
  /\ \A v \in Updaters : /\ pc[v] = "append" <=> pc'[v] = "append"
                         /\ pc[v] = "append" => fetched'[v] = fetched[v]

LEMMA CalmKeeps ==
  ASSUME TypeOK, TypeOK', UpdateUnderMutex, UpdateUnderMutex', Calm
  PROVE  UNCHANGED Listing
<1>1. CASE \A u \in Updaters : pc[u] # "append"
  BY <1>1, ListingOf, ListingOf2 DEF Calm, ListingSays
<1>2. ASSUME NEW u \in Updaters, pc[u] = "append"
      PROVE  UNCHANGED Listing
  BY <1>2, ListingOf, ListingOf2 DEF Calm, ListingSays
<1> QED
  BY <1>1, <1>2

LEMMA AppendKeeps ==
  ASSUME TypeOK, TypeOK', UpdateUnderMutex, UpdateUnderMutex', FetchedInOrder,
         NEW u \in Updaters, AppendList(u)
  PROVE  UNCHANGED Listing
<1>1. packages = <<>> /\ packages' = packages \o fetched[u] /\ pc[u] = "append"
  BY DEF AppendList, FetchedInOrder
<1>2. packages' = fetched[u]
  <2>1. fetched[u] \in Seq(Page)
    BY DEF TypeOK
  <2> QED
    BY <1>1, <2>1
<1>3. \A v \in Updaters : pc'[v] # "append"
  BY <1>1 DEF AppendList, Goto, TypeOK, UpdateUnderMutex
<1> QED
  BY <1>1, <1>2, <1>3, ListingOf, ListingOf2 DEF ListingSays

(* The list changes only when an update that has fetched another clears it.*)
LEMMA ListingMoves ==
  ASSUME TypeOK, TypeOK', UpdateUnderMutex, UpdateUnderMutex', FetchedInOrder, [Next]_vars
  PROVE  \/ UNCHANGED Listing
         \/ \E u \in Updaters : Clear(u) /\ Listing' = fetched[u]
<1>0. pc \in [Updaters -> AllPC] /\ fetched \in [Updaters -> Seq(Page)]
  BY DEF TypeOK, AllPC
<1>1. ASSUME NEW u \in Updaters, Takes(u) \/ Leaves(u) \/ Elsewhere(u) \/ StampStep(u)
      PROVE  Calm
  <2>1. pc[u] # "append" /\ \A v \in Updaters : v # u => fetched'[v] = fetched[v]
    BY <1>0, <1>1 DEF Takes, Leaves, Elsewhere, StampStep, Outside
  <2>2. UNCHANGED pc \/ \E place : place # "append" /\ Goto(u, place)
    BY <1>1 DEF Takes, Leaves, Elsewhere, StampStep, Outside
  <2>3. UNCHANGED packages
    BY <1>1 DEF Takes, Leaves, Elsewhere, StampStep
  <2> QED
    BY <1>0, <2>1, <2>2, <2>3 DEF Calm, Goto
<1>2. ASSUME NEW u \in Updaters, FetchPage(u)
      PROVE  Calm
  <2>1. /\ pc[u] = "fetch" /\ UNCHANGED packages
        /\ \E place \in {"fetch", "replace"} : Goto(u, place)
    BY <1>2 DEF FetchPage, cache
  <2>2. ASSUME NEW v \in Updaters, v # u PROVE pc'[v] = pc[v] /\ fetched'[v] = fetched[v]
    BY <1>0, <1>2, <2>1, <2>2 DEF FetchPage, Goto
  <2>3. pc'[u] # "append"
    BY <1>0, <2>1 DEF Goto
  <2> QED
    BY <2>1, <2>2, <2>3 DEF Calm
<1>3. ASSUME Rest
      PROVE  Calm
  BY <1>3 DEF Rest, Calm
<1>4. ASSUME NEW u \in Updaters, Clear(u)
      PROVE  Listing' = fetched[u]
  BY <1>4, ClearSets
<1>5. ASSUME NEW u \in Updaters, AppendList(u)
      PROVE  UNCHANGED Listing
  BY <1>5, AppendKeeps
<1> QED
  BY <1>1, <1>2, <1>3, <1>4, <1>5, CalmKeeps, StepKinds

LEMMA ListingType ==
  ASSUME TypeOK
  PROVE  Listing \in Seq(Page) /\ \A u \in Updaters : fetched[u] \in Seq(Page)
  BY DEF TypeOK, Listing

LEMMA PagesAreNumbers ==
  ASSUME NEW list \in Seq(Page), NEW i \in 1..Len(list)
  PROVE  list[i] \in Page /\ list[i] \in Nat
<1>1. list[i] \in Page /\ Page \subseteq Nat
  BY ListingAssumption DEF Page
<1> QED
  BY <1>1

-----------------------------------------------------------------------------
(* The list under construction *)

(* What FetchedInOrder says of one updater.                                *)
FetchedBy(u) ==
  /\ pc[u] \in {"fetch", "replace", "append"} \/ fetched[u] = <<>>
  /\ pc[u] = "fetch" => Len(fetched[u]) < Pages
  /\ pc[u] \in {"replace", "append"} => Len(fetched[u]) = Pages
  /\ pc[u] = "append" => packages = <<>>
  /\ InOrder(fetched[u])
  /\ \A i \in 1..Len(fetched[u]) :
       /\ fetched[u][i] <= organization
       /\ Listing # <<>> => Listing[i] <= fetched[u][i]

LEMMA FetchedParts == FetchedInOrder <=> \A u \in Updaters : FetchedBy(u)
  BY DEF FetchedInOrder, FetchedBy

(* Who is not under the mutex has fetched nothing.                         *)
LEMMA OnlyHolderFetches ==
  ASSUME UpdateUnderMutex, FetchedInOrder, NEW u \in Updaters, mutex # u
  PROVE  fetched[u] = <<>> /\ pc[u] \notin {"fetch", "replace", "append", "stamp", "pace"}
  BY DEF UpdateUnderMutex, FetchedInOrder

(* Steps that leave an updater's list, and the readers', as they are.      *)
LEMMA FetchedKept ==
  ASSUME TypeOK, NEW v \in Updaters, FetchedBy(v),
         UNCHANGED <<packages, organization>>, Listing' = Listing,
         fetched'[v] = fetched[v], pc'[v] = pc[v]
  PROVE  FetchedBy(v)'
  BY DEF FetchedBy, InOrder

LEMMA NothingFetched ==
  ASSUME NEW v \in Updaters, fetched'[v] = <<>>, pc'[v] \notin {"replace", "append"}
  PROVE  FetchedBy(v)'
  BY ListingAssumption DEF FetchedBy, InOrder

LEMMA FetchPageStep ==
  ASSUME ListingInv, Listing' = Listing, NEW u \in Updaters, FetchPage(u)
  PROVE  FetchedBy(u)'
<1> DEFINE old == fetched[u]
           new == fetched'[u]
<1>1. /\ old \in Seq(Nat) /\ organization \in Nat /\ Pages \in Nat
      /\ Len(old) < Pages /\ Len(old) \in Nat
  BY ListingAssumption DEF ListingInv, TypeOK, Page, FetchedInOrder, FetchPage
<1>2. new = Append(old, organization) /\ pc[u] = "fetch" /\ UNCHANGED <<packages, organization>>
  BY DEF FetchPage, ListingInv, TypeOK, cache
<1>3. /\ Len(new) = Len(old) + 1 /\ new[Len(old) + 1] = organization
      /\ \A i \in 1..Len(old) : new[i] = old[i]
  BY <1>1, <1>2
<1>4. pc'[u] = IF Len(old) + 1 < Pages THEN "fetch" ELSE "replace"
  BY DEF FetchPage, Goto, ListingInv, TypeOK
<1>5. /\ InOrder(old)
      /\ \A i \in 1..Len(old) :
           old[i] <= organization /\ (Listing # <<>> => Listing[i] <= old[i])
  BY DEF ListingInv, FetchedInOrder
<1>6. Listing # <<>> => \A i \in 1..Pages : Listing[i] <= organization
  BY DEF ListingInv, ListingIsThere, Whole
<1> HIDE DEF old, new
<1>7. \A i \in 1..Len(new) : i \in 1..Len(old) \/ i = Len(old) + 1
  BY <1>1, <1>3
<1>8. \A i \in 1..Len(new) :
        new[i] <= organization /\ (Listing # <<>> => Listing[i] <= new[i])
  BY <1>1, <1>3, <1>5, <1>6, <1>7
<1>9. InOrder(new)
  BY <1>1, <1>3, <1>5, <1>7 DEF InOrder
<1>10. (pc'[u] = "fetch" => Len(new) < Pages) /\ (pc'[u] = "replace" => Len(new) = Pages)
  BY <1>1, <1>3, <1>4
<1> QED
  BY <1>2, <1>4, <1>8, <1>9, <1>10 DEF FetchedBy, InOrder, new

LEMMA ClearStep ==
  ASSUME ListingInv, TypeOK', UpdateUnderMutex', NEW u \in Updaters, Clear(u)
  PROVE  FetchedBy(u)'
<1>1. TypeOK /\ FetchedBy(u) /\ fetched[u] \in Seq(Page)
  BY FetchedParts DEF ListingInv, TypeOK
<1>2. /\ pc[u] = "replace" /\ pc'[u] = "append" /\ packages' = <<>>
      /\ UNCHANGED <<fetched, organization>>
  BY <1>1 DEF Clear, Goto, TypeOK
<1>3. Listing' = fetched[u]
  BY <1>1, ClearSets
<1>4. \A i \in 1..Len(fetched[u]) : fetched[u][i] <= fetched[u][i]
  <2>1. ASSUME NEW i \in 1..Len(fetched[u]) PROVE fetched[u][i] \in Nat
    BY <1>1, PagesAreNumbers
  <2> QED
    BY <2>1
<1> QED
  BY <1>1, <1>2, <1>3, <1>4 DEF FetchedBy, InOrder

LEMMA FetchedStep ==
  ListingInv /\ TypeOK' /\ UpdateUnderMutex' /\ [Next]_vars => FetchedInOrder'
<1> SUFFICES ASSUME ListingInv, TypeOK', UpdateUnderMutex', [Next]_vars, NEW v \in Updaters
             PROVE  FetchedBy(v)'
  BY FetchedParts DEF FetchedInOrder, FetchedBy
<1>0. /\ TypeOK /\ UpdateUnderMutex /\ FetchedInOrder /\ FetchedBy(v)
      /\ pc \in [Updaters -> AllPC] /\ fetched \in [Updaters -> Seq(Page)]
  BY FetchedParts DEF ListingInv, TypeOK, AllPC
<1>K. (\A u \in Updaters : ~Clear(u)) => Listing' = Listing
  BY <1>0, ListingMoves
<1>C. ASSUME NEW u \in Updaters, Clear(u) \/ AppendList(u)
      PROVE  FetchedBy(v)'
  <2>1. mutex = u
    BY <1>0, <1>C DEF Clear, AppendList, UpdateUnderMutex
  <2>2. CASE u = v /\ Clear(u)
    BY <2>2, ClearStep
  <2>3. CASE u = v /\ AppendList(u)
    <3>1. fetched'[v] = <<>> /\ pc'[v] = "stamp"
      BY <1>0, <2>3 DEF AppendList, Goto
    <3> QED
      BY <3>1, NothingFetched
  <2>4. CASE u # v
    <3>1. fetched'[v] = <<>> /\ pc'[v] \notin {"replace", "append"}
      BY <1>0, <1>C, <2>1, <2>4, OnlyHolderFetches DEF Clear, AppendList, Goto
    <3> QED
      BY <3>1, NothingFetched
  <2> QED
    BY <1>C, <2>2, <2>3, <2>4
<1> SUFFICES ASSUME \A u \in Updaters : ~Clear(u) /\ ~AppendList(u), Listing' = Listing
             PROVE  FetchedBy(v)'
  BY <1>K, <1>C
<1>1. ASSUME NEW u \in Updaters, Takes(u) \/ Leaves(u) \/ Elsewhere(u) \/ StampStep(u), u # v
      PROVE  FetchedBy(v)'
  BY <1>0, <1>1, FetchedKept DEF Takes, Leaves, Elsewhere, StampStep, Goto
<1>2. ASSUME Takes(v) \/ Leaves(v) \/ Elsewhere(v) \/ StampStep(v)
      PROVE  FetchedBy(v)'
  <2>1. fetched[v] = <<>> \/ pc[v] = "fetch"
    BY <1>0, <1>2 DEF Takes, Leaves, Elsewhere, StampStep, FetchedBy, Outside
  <2>2. fetched'[v] = <<>>
    BY <1>0, <1>2, <2>1 DEF Takes, Leaves, Elsewhere, StampStep, Outside
  <2>3. pc'[v] \notin {"replace", "append"}
    BY <1>0, <1>2 DEF Takes, Leaves, Elsewhere, StampStep, Outside, Goto
  <2> QED
    BY <2>2, <2>3, NothingFetched
<1>3. ASSUME NEW u \in Updaters, FetchPage(u)
      PROVE  FetchedBy(v)'
  <2>1. CASE u = v
    BY <1>3, <2>1, FetchPageStep
  <2>2. CASE u # v
    BY <1>0, <1>3, <2>2, FetchedKept DEF FetchPage, Goto, cache
  <2> QED
    BY <2>1, <2>2
<1>4. CASE Rest /\ organization' \in {organization, organization + 1}
  <2>1. organization \in Nat /\ fetched[v] \in Seq(Page)
    BY <1>0, ListingAssumption DEF TypeOK, Page
  <2>2. \A i \in 1..Len(fetched[v]) : fetched[v][i] \in Nat
    BY <2>1, PagesAreNumbers
  <2> QED
    BY <1>0, <1>4, <2>1, <2>2 DEF Rest, FetchedBy, InOrder
<1> QED
  BY <1>0, <1>1, <1>2, <1>3, <1>4, StepKinds

-----------------------------------------------------------------------------
(* The list and its readers *)

(* What a list has in the one state it has in the next.                    *)
LEMMA StaysWhole ==
  ASSUME TypeOK, NEW list \in Seq(Page), Whole(list),
         organization' \in {organization, organization + 1}
  PROVE  /\ Len(list) = Pages /\ InOrder(list)
         /\ \A i \in 1..Pages : list[i] <= organization'
<1>1. organization \in Nat /\ Len(list) = Pages
  BY ListingAssumption DEF TypeOK, Page, Whole
<1>2. \A i \in 1..Pages : list[i] \in Nat
  BY <1>1, PagesAreNumbers
<1> QED
  BY <1>1, <1>2 DEF Whole

(* What happens to the times, the launch and the organization.             *)
LEMMA WorldMoves ==
  ASSUME TypeOK, [Next]_vars
  PROVE  /\ UNCHANGED asks
         /\ now' \in {now, now + 1} /\ organization' \in {organization, organization + 1}
         /\ Launched => Launched'
         /\ \/ UNCHANGED <<packages_updated, listed>>
            \/ \E u \in Updaters : AppendList(u) \/ Stamp(u)
<1> USE DEF cache, locks, timer, Launched
<1>1. ASSUME NEW u \in Updaters, Update(u) \/ PacePanics(u)
      PROVE  /\ UNCHANGED <<asks, now, organization, initial_delay>>
             /\ UNCHANGED <<packages_updated, listed>> \/ AppendList(u) \/ Stamp(u)
  BY <1>1 DEF Update, LockMutex, LockPoisonedMutex, FetchPage, PageFails, Clear, AppendList,
     Stamp, Pace, PacePanics
<1>2. CASE Record \/ WakeOuter \/ WakeInner
  BY <1>2 DEF Record, WakeOuter, WakeInner
<1>3. ASSUME NEW c \in Clients,
             Arrive(c) \/ ReadPackages(c) \/ ReadAsOf(c) \/ ReadNextUpdate(c)
      PROVE  UNCHANGED <<asks, now, organization, initial_delay, packages_updated, listed>>
  BY <1>3 DEF Arrive, ReadPackages, ReadAsOf, ReadNextUpdate
<1>4. CASE Tick \/ OrganizationChanges \/ UNCHANGED vars
  BY <1>4 DEF Tick, OrganizationChanges, vars
<1> QED
  BY <1>1, <1>2, <1>3, <1>4 DEF Next, Scheduler, Handler, Finished, Updaters

(* An update replaces every page of the list by one that is no older.      *)
LEMMA ListingAges ==
  ASSUME ListingInv, TypeOK', UpdateUnderMutex', [Next]_vars, Listing # <<>>
  PROVE  Listing' # <<>> /\ \A i \in 1..Pages : Listing[i] <= Listing'[i]
<1>1. TypeOK /\ UpdateUnderMutex /\ FetchedInOrder /\ Listing \in Seq(Page)
      /\ Len(Listing) = Pages
  BY ListingType DEF ListingInv, ListingIsThere, Whole
<1>2. CASE UNCHANGED Listing
  <2>1. \A i \in 1..Pages : Listing[i] \in Nat
    BY <1>1, PagesAreNumbers
  <2> QED
    BY <1>2, <2>1
<1>3. ASSUME NEW u \in Updaters, Clear(u), Listing' = fetched[u]
      PROVE  Listing' # <<>> /\ \A i \in 1..Pages : Listing[i] <= Listing'[i]
  <2>1. Len(fetched[u]) = Pages /\ \A i \in 1..Pages : Listing[i] <= fetched[u][i]
    BY <1>1, <1>3 DEF Clear, FetchedInOrder
  <2> QED
    BY <1>3, <2>1, ListingAssumption
<1> QED
  BY <1>1, <1>2, <1>3, ListingMoves

LEMMA ListingStaysWhole ==
  ASSUME ListingInv, TypeOK', UpdateUnderMutex', [Next]_vars, Listing' # <<>>
  PROVE  Whole(Listing)'
<1>1. TypeOK /\ UpdateUnderMutex /\ FetchedInOrder
  BY DEF ListingInv
<1>2. CASE UNCHANGED Listing
  <2>1. Whole(Listing) /\ Listing \in Seq(Page)
    BY <1>1, <1>2, ListingType DEF ListingInv, ListingIsThere
  <2> QED
    BY <1>1, <1>2, <2>1, StaysWhole, WorldMoves DEF Whole, InOrder
<1>3. ASSUME NEW u \in Updaters, Clear(u), Listing' = fetched[u]
      PROVE  Whole(Listing)'
  <2>1. pc[u] = "replace" /\ organization' = organization
    BY <1>3 DEF Clear
  <2>2. /\ Len(fetched[u]) = Pages /\ InOrder(fetched[u])
        /\ \A i \in 1..Pages : fetched[u][i] <= organization
    BY <1>1, <2>1 DEF FetchedInOrder
  <2> QED
    BY <1>3, <2>1, <2>2 DEF Whole, InOrder
<1> QED
  BY <1>1, <1>2, <1>3, ListingMoves

(* The first update ends with a list, and the launch waits for its end.    *)
LEMMA LaunchStep ==
  ASSUME ListingInv, [Next]_vars
  PROVE  /\ Launched' => Launched \/ pc[Loop] = "record"
         /\ pc'[Loop] \in {"append", "stamp", "pace", "record"} =>
              \/ Launched
              \/ pc[Loop] \in {"append", "stamp", "pace", "record"}
              \/ Clear(Loop)
         /\ ~Launched => \A c \in Clients : pc[c] = "idle" => pc'[c] = "idle"
<1>0. TypeOK /\ Loop \in Updaters /\ Loop \notin Clients /\ Clients \subseteq Updaters
      /\ pc \in [Updaters -> AllPC]
  BY ListingAssumption DEF ListingInv, TypeOK, AllPC, Updaters
<1> USE DEF cache, locks, timer, Launched
<1>1. CASE Update(Loop) \/ PacePanics(Loop)
  <2>1. UNCHANGED initial_delay
    BY <1>1 DEF Update, LockMutex, LockPoisonedMutex, FetchPage, PageFails, Clear, AppendList,
       Stamp, Pace, PacePanics
  <2>2. \E place : Goto(Loop, place)
    BY <1>1 DEF Update, LockMutex, LockPoisonedMutex, FetchPage, PageFails, Clear, AppendList,
       Stamp, Pace, PacePanics, UpdateFailed, Panicked, Updated, Answer
  <2>3. \A c \in Clients : pc'[c] = pc[c]
    BY <1>0, <2>2 DEF Goto
  <2>4. pc'[Loop] \in {"append", "stamp", "pace", "record"} =>
          \/ Launched
          \/ pc[Loop] \in {"append", "stamp", "pace", "record"}
          \/ Clear(Loop)
    <3>1. CASE LockPoisonedMutex(Loop)
      BY <1>0, <3>1 DEF LockPoisonedMutex, Panicked, Goto
    <3>2. CASE PageFails(Loop)
      BY <1>0, <3>2 DEF PageFails, UpdateFailed, Goto
    <3>3. CASE LockMutex(Loop) \/ FetchPage(Loop)
      BY <1>0, <3>3 DEF LockMutex, FetchPage, Goto
    <3>4. CASE AppendList(Loop) \/ Stamp(Loop) \/ Pace(Loop) \/ PacePanics(Loop)
      BY <3>4 DEF AppendList, Stamp, Pace, PacePanics
    <3> QED
      BY <1>1, <3>1, <3>2, <3>3, <3>4 DEF Update
  <2> QED
    BY <2>1, <2>3, <2>4
<1>2. CASE Record \/ WakeOuter \/ WakeInner
  BY <1>0, <1>2 DEF Record, WakeOuter, WakeInner, Goto
<1>3. ASSUME NEW c \in Clients, Arrive(c) \/ Handler(c) \/ PacePanics(c)
      PROVE  Launched /\ UNCHANGED initial_delay
  <2>1. UNCHANGED initial_delay
    BY <1>3 DEF Arrive, Handler, Update, LockMutex, LockPoisonedMutex, FetchPage, PageFails,
       Clear, AppendList, Stamp, Pace, PacePanics, ReadPackages, ReadAsOf, ReadNextUpdate
  <2>2. Launched \/ pc[c] # "idle"
    BY <1>3 DEF Arrive, Handler, Update, LockMutex, LockPoisonedMutex, FetchPage, PageFails,
       Clear, AppendList, Stamp, Pace, PacePanics, ReadPackages, ReadAsOf, ReadNextUpdate
  <2> QED
    BY <2>1, <2>2 DEF ListingInv, ListingIsThere
<1>4. CASE Tick \/ OrganizationChanges \/ UNCHANGED vars
  BY <1>4 DEF Tick, OrganizationChanges, vars
<1>5. CASE Launched /\ UNCHANGED initial_delay
  BY <1>5
<1> QED
  BY <1>1, <1>2, <1>3, <1>4, <1>5 DEF Next, Scheduler, Finished, Updaters

LEMMA ThereStep ==
  ListingInv /\ TypeOK' /\ UpdateUnderMutex' /\ [Next]_vars => ListingIsThere'
<1> SUFFICES ASSUME ListingInv, TypeOK', UpdateUnderMutex', [Next]_vars
             PROVE  ListingIsThere'
  OBVIOUS
<1>1. Listing' # <<>> => Whole(Listing)'
  BY ListingStaysWhole
<1>2. Launched' \/ pc'[Loop] \in {"append", "stamp", "pace", "record"} => Listing' # <<>>
  <2>1. CASE Launched \/ pc[Loop] \in {"append", "stamp", "pace", "record"}
    BY <2>1, ListingAges DEF ListingInv, ListingIsThere
  <2>2. CASE Clear(Loop)
    <3>1. Listing' = fetched[Loop] /\ Len(fetched[Loop]) = Pages
      BY <2>2, ClearSets DEF Updaters, Clear, ListingInv, FetchedInOrder
    <3> QED
      BY <3>1, ListingAssumption
  <2> QED
    BY <2>1, <2>2, LaunchStep
<1>3. ~Launched' => \A c \in Clients : pc'[c] = "idle"
  BY LaunchStep, WorldMoves DEF ListingInv, ListingIsThere
<1> QED
  BY <1>1, <1>2, <1>3 DEF ListingIsThere

(* What becomes of what one client has read.                               *)
LEMMA ReadStep ==
  ASSUME TypeOK, UpdateUnderMutex, [Next]_vars, NEW c \in Clients
  PROVE  \/ reply'[c].packages = reply[c].packages /\ (HasRead(c)' => HasRead(c))
         \/ reply'[c].packages = <<>> /\ ~HasRead(c)'
         \/ pc[c] = "packages" /\ reply'[c].packages = Listing /\ UNCHANGED writer
<1>0. /\ c \in Updaters /\ c # Loop
      /\ pc \in [Updaters -> AllPC] /\ reply \in [Clients -> Reply]
  BY ListingAssumption DEF TypeOK, AllPC, Updaters
<1>1. ASSUME NEW status \in {1, 500}, Answer(c, status)
      PROVE  reply'[c].packages = <<>> /\ ~HasRead(c)'
  <2>1. pc'[c] = "replied" /\ reply'[c] = ReplyOf(status, <<>>, 0, 0, 0)
    BY <1>0, <1>1 DEF Answer, Goto
  <2>2. reply'[c].packages = <<>> /\ reply'[c].status # 200
    BY <2>1 DEF ReplyOf
  <2> QED
    BY <2>1, <2>2 DEF HasRead
<1>2. CASE Kept(c)
  BY <1>2 DEF Kept, HasRead
<1>3. CASE Arrive(c)
  <2>1. pc'[c] \in {"lock", "packages"} /\ UNCHANGED reply
    BY <1>0, <1>3 DEF Arrive, Goto
  <2> QED
    BY <2>1 DEF HasRead
<1>4. CASE Update(c) \/ PacePanics(c)
  <2>1. \/ \E status \in {1, 500} : Answer(c, status)
        \/ UNCHANGED reply /\ \E place \in UpdatePC \cup {"packages"} : Goto(c, place)
    BY <1>0, <1>4 DEF Update, LockMutex, LockPoisonedMutex, FetchPage, PageFails, Clear,
       AppendList, Stamp, Pace, PacePanics, UpdateFailed, Panicked, Updated, UpdatePC
  <2>2. CASE UNCHANGED reply /\ \E place \in UpdatePC \cup {"packages"} : Goto(c, place)
    <3>1. pc'[c] \in UpdatePC \cup {"packages"} /\ UNCHANGED reply
      BY <1>0, <2>2 DEF Goto
    <3> QED
      BY <3>1 DEF HasRead, UpdatePC
  <2> QED
    BY <1>1, <2>1, <2>2
<1>5. CASE ReadPackages(c)
  <2>1. CASE Answer(c, 1)
    BY <1>1, <2>1
  <2>2. CASE ~Answer(c, 1)
    <3>1. PICK status : reply' = [reply EXCEPT ![c] = ReplyOf(status, packages, listed, 0, 0)]
      BY <1>5, <2>2 DEF ReadPackages
    <3>2. reply'[c] = ReplyOf(status, packages, listed, 0, 0)
      BY <1>0, <3>1
    <3>3. reply'[c].packages = packages
      BY <3>2 DEF ReplyOf
    <3>4. pc[c] = "packages" /\ writer = None /\ UNCHANGED writer
      BY <1>5 DEF ReadPackages, locks
    <3> QED
      BY <3>3, <3>4, ListingOf DEF ListingSays
  <2> QED
    BY <2>1, <2>2
<1>6. CASE ReadAsOf(c) \/ ReadNextUpdate(c)
  <2>1. \E status, as_of, next :
          reply' = [reply EXCEPT ![c] =
            ReplyOf(status, reply[c].packages, reply[c].listed, as_of, next)]
    BY <1>6 DEF ReadAsOf, ReadNextUpdate
  <2>2. \E status, as_of, next :
          reply'[c] = ReplyOf(status, reply[c].packages, reply[c].listed, as_of, next)
    BY <1>0, <2>1
  <2>3. reply'[c].packages = reply[c].packages
    BY <2>2 DEF ReplyOf
  <2>4. HasRead(c)
    BY <1>6 DEF ReadAsOf, ReadNextUpdate, HasRead
  <2> QED
    BY <2>3, <2>4
<1> QED
  BY <1>2, <1>3, <1>4, <1>5, <1>6, OthersKeep DEF Handler

(* Who reads the cache finds a list in it: the launch is behind him, and no*)
(* step in between replaces what he reads.                                 *)
LEMMA ReaderFindsList ==
  ASSUME ListingInv, TypeOK', UpdateUnderMutex', [Next]_vars, NEW c \in Clients,
         pc[c] = "packages", UNCHANGED writer
  PROVE  Listing # <<>> /\ Whole(Listing) /\ UNCHANGED Listing
<1>1. Launched
  BY DEF ListingInv, ListingIsThere
<1>2. Listing # <<>> /\ Whole(Listing)
  BY <1>1 DEF ListingInv, ListingIsThere
<1>3. \A u \in Updaters : ~Clear(u)
  BY ListingAssumption DEF Clear, Updaters
<1>4. UNCHANGED Listing
  BY <1>3, ListingMoves DEF ListingInv
<1> QED
  BY <1>2, <1>4

LEMMA ReadsStep ==
  ListingInv /\ TypeOK' /\ UpdateUnderMutex' /\ [Next]_vars
    => ReadsStayBehind' /\ WholeListing'
<1> SUFFICES ASSUME ListingInv, TypeOK', UpdateUnderMutex', [Next]_vars, NEW c \in Clients
             PROVE  /\ HasRead(c)' => \A i \in 1..Pages : reply'[c].packages[i] <= Listing'[i]
                    /\ HasRead(c)' => Whole(reply[c].packages)'
  BY DEF ReadsStayBehind, WholeListing
<1>1. /\ TypeOK /\ UpdateUnderMutex /\ Listing \in Seq(Page)
      /\ reply[c].packages \in Seq(Page) /\ Pages \in Nat \ {0}
      /\ organization' \in {organization, organization + 1}
  BY ListingType, ListingAssumption, WorldMoves DEF ListingInv, TypeOK, Reply
<1>2. CASE reply'[c].packages = reply[c].packages /\ (HasRead(c)' => HasRead(c))
  <2>1. ASSUME HasRead(c)
        PROVE  \A i \in 1..Pages : reply[c].packages[i] <= Listing'[i]
    <3>1. Listing # <<>> /\ Len(Listing) = Pages /\ Len(reply[c].packages) = Pages
      BY <2>1 DEF ListingInv, ListingIsThere, WholeListing, Whole, HasRead
    <3>2. /\ Listing' # <<>> /\ \A i \in 1..Pages : Listing[i] <= Listing'[i]
          /\ \A i \in 1..Pages : reply[c].packages[i] <= Listing[i]
      BY <2>1, <3>1, ListingAges DEF ListingInv, ReadsStayBehind
    <3>3. Len(Listing') = Pages /\ Listing' \in Seq(Page)
      BY <3>2, ListingStaysWhole, ListingType DEF Whole, TypeOK, Listing
    <3>4. ASSUME NEW i \in 1..Pages
          PROVE  reply[c].packages[i] \in Nat /\ Listing[i] \in Nat /\ Listing'[i] \in Nat
      BY <1>1, <3>1, <3>3, PagesAreNumbers
    <3> QED
      BY <3>2, <3>4
  <2>2. HasRead(c) => Whole(reply[c].packages)
    BY DEF ListingInv, WholeListing
  <2> QED
    BY <1>1, <1>2, <2>1, <2>2, StaysWhole DEF Whole, InOrder
<1>3. CASE reply'[c].packages = <<>> /\ ~HasRead(c)'
  BY <1>3
<1>4. CASE pc[c] = "packages" /\ reply'[c].packages = Listing /\ UNCHANGED writer
  <2>1. Listing # <<>> /\ Whole(Listing) /\ UNCHANGED Listing
    BY <1>4, ReaderFindsList
  <2>2. \A i \in 1..Pages : Listing[i] \in Nat
    BY <1>1, <2>1, PagesAreNumbers DEF Whole
  <2> QED
    BY <1>1, <1>4, <2>1, <2>2, StaysWhole DEF Whole, InOrder
<1> QED
  BY <1>1, <1>2, <1>3, <1>4, ReadStep

LEMMA OlderStep == ListingInv /\ ListingInv' /\ [Next]_vars => NotOlder
<1> SUFFICES ASSUME ListingInv, ListingInv', [Next]_vars, NEW c \in Clients, NEW d \in Clients,
                    pc[c] = "packages", HasRead(c)', HasRead(d), NEW i \in 1..Pages
             PROVE  reply'[c].packages[i] >= reply[d].packages[i]
  BY DEF NotOlder
<1>1. TypeOK /\ UpdateUnderMutex /\ ~HasRead(c)
  BY DEF ListingInv, HasRead
<1>2. reply'[c].packages = Listing
  BY <1>1, ReadStep
<1>3. reply[d].packages[i] <= Listing[i]
  BY DEF ListingInv, ReadsStayBehind
<1> QED
  BY <1>2, <1>3

LEMMA ListingInit == Init => ListingInv
<1> SUFFICES ASSUME Init PROVE ListingInv
  OBVIOUS
<1>1. TypeOK /\ UpdateUnderMutex
  BY TypeInit, MutexInit
<1>2. /\ Listing = <<>> /\ ~Launched /\ pc[Loop] = "lock"
      /\ \A u \in Updaters : fetched[u] = <<>> /\ pc[u] \in {"lock", "idle"}
      /\ \A c \in Clients : pc[c] = "idle" /\ reply[c] = ReplyOf(0, <<>>, 0, 0, 0)
  BY ListingAssumption DEF Init, Listing, Launched, Updaters
<1>3. FetchedInOrder
  BY <1>2, ListingAssumption DEF FetchedInOrder, InOrder
<1>4. ListingIsThere
  BY <1>2 DEF ListingIsThere
<1>5. ReadsStayBehind /\ WholeListing
  BY <1>2 DEF ReadsStayBehind, WholeListing, HasRead, ReplyOf
<1> QED
  BY <1>1, <1>3, <1>4, <1>5 DEF ListingInv

-----------------------------------------------------------------------------
(* ListingInv is inductive: the mutex of update_packages spans the fetches *)
(* and the replacement, so no list is fetched across another's replacement,*)
(* and the write lock spans the clear and the append.                      *)
THEOREM ListingInvariant == Spec => []ListingInv
<1>1. ListingInv /\ [Next]_vars => ListingInv'
  BY TypeStep, MutexStep, FetchedStep, ThereStep, ReadsStep DEF ListingInv
<1> QED
  BY <1>1, ListingInit, PTL DEF Spec

(* Readers of the cache see the whole of one pagination, never none, parts *)
(* of an update or of two, for any number of pages and of updates at once. *)
THEOREM ListingIsWhole == Spec => []WholeListing
<1>1. ListingInv => WholeListing
  BY DEF ListingInv
<1> QED
  BY <1>1, ListingInvariant, PTL

(* No reader is taken back to an older state of any page, whoever updates. *)
THEOREM ListingAdvances == Spec => ListingNeverGoesBack
<1>1. ListingInv /\ ListingInv' /\ [Next]_vars => [NotOlder]_vars
  BY OlderStep
<1> QED
  BY <1>1, ListingInvariant, PTL DEF Spec, ListingNeverGoesBack

(* The list stays as new as it is.                                         *)
LEMMA CacheStaysNew ==
  ASSUME ListingInv, ListingInv', [Next]_vars, NEW v \in Page, NoOlderThan(Listing, v)
  PROVE  NoOlderThan(Listing', v)
<1>1. /\ Len(Listing) = Pages /\ Listing # <<>> /\ Pages \in Nat
      /\ Listing \in Seq(Page) /\ Listing' \in Seq(Page) /\ v \in Nat
  BY ListingAssumption, ListingType DEF NoOlderThan, ListingInv, TypeOK, Page, Listing
<1>2. Listing' # <<>> /\ \A i \in 1..Pages : Listing[i] <= Listing'[i]
  BY <1>1, ListingAges DEF ListingInv
<1>3. Len(Listing') = Pages
  BY <1>2 DEF ListingInv, ListingIsThere, Whole
<1>4. \A i \in 1..Pages : Listing[i] \in Nat /\ Listing'[i] \in Nat
  BY <1>1, <1>3, PagesAreNumbers
<1>5. \A i \in 1..Pages : Listing[i] >= v
  BY DEF NoOlderThan
<1>6. \A i \in 1..Pages : Listing'[i] >= v
  BY <1>1, <1>2, <1>4, <1>5
<1> QED
  BY <1>3, <1>6 DEF NoOlderThan

-----------------------------------------------------------------------------
(* Times                                                                   *)

(* An update that has replaced the cache moves on by its Stamp only.       *)
LEMMA StampStays ==
  ASSUME TypeOK, [Next]_vars, NEW u \in Updaters, pc[u] = "stamp", ~Stamp(u)
  PROVE  pc'[u] = "stamp"
<1>1. \A v, place : Goto(v, place) /\ pc[v] # "stamp" => pc'[u] = "stamp"
  BY DEF TypeOK, Goto
<1>2. ASSUME NEW v, NEW place, pc[v] # "stamp", Goto(v, place)
      PROVE  pc'[u] = "stamp"
  BY <1>1, <1>2
<1>3. ASSUME NEW v, Update(v) \/ PacePanics(v)
      PROVE  pc'[u] = "stamp"
  <2>1. CASE Stamp(v)
    <3>1. v # u
      BY <2>1
    <3> QED
      BY <2>1, <3>1 DEF Stamp, Goto, TypeOK
  <2>2. CASE LockMutex(v) \/ FetchPage(v) \/ Clear(v) \/ AppendList(v)
    BY <1>1, <2>2 DEF LockMutex, FetchPage, Clear, AppendList
  <2>3. CASE LockPoisonedMutex(v) \/ PageFails(v) \/ Pace(v) \/ PacePanics(v)
    <3>1. pc[v] # "stamp"
      BY <2>3 DEF LockPoisonedMutex, PageFails, Pace, PacePanics
    <3>2. UpdateFailed(v) \/ Panicked(v) \/ \E d \in Intervals : Updated(v, d)
      BY <2>3 DEF LockPoisonedMutex, PageFails, Pace, PacePanics
    <3>3. \E place \in Outside : Goto(v, place)
      BY <3>2, OutcomeLeaves
    <3> QED
      BY <1>1, <3>1, <3>3
  <2> QED
    BY <1>3, <2>1, <2>2, <2>3 DEF Update
<1>4. CASE Record \/ WakeOuter \/ WakeInner
  <2>1. pc[Loop] # "stamp" /\ (UNCHANGED pc \/ \E place : Goto(Loop, place))
    BY <1>4 DEF Record, WakeOuter, WakeInner
  <2> QED
    BY <1>1, <2>1
<1>5. ASSUME NEW c, Arrive(c) \/ ReadPackages(c) \/ ReadAsOf(c) \/ ReadNextUpdate(c)
      PROVE  pc'[u] = "stamp"
  <2>1. pc[c] # "stamp" /\ \E place : Goto(c, place)
    BY <1>5 DEF Arrive, ReadPackages, ReadAsOf, ReadNextUpdate, Answer
  <2> QED
    BY <1>1, <2>1
<1>6. CASE Tick \/ OrganizationChanges \/ UNCHANGED vars
  BY <1>6 DEF Tick, OrganizationChanges, vars
<1> QED
  BY <1>3, <1>4, <1>5, <1>6 DEF Next, Scheduler, Handler, Finished

LEMMA StampLagsStep ==
  ListingInv /\ StampLagsUnderLock /\ [Next]_vars => StampLagsUnderLock'
<1> SUFFICES ASSUME ListingInv, StampLagsUnderLock, [Next]_vars
             PROVE  StampLagsUnderLock'
  OBVIOUS
<1>1. /\ now \in Nat /\ listed \in Nat /\ packages_updated \in Nat
      /\ now' \in {now, now + 1}
  BY ListingAssumption, WorldMoves DEF ListingInv, TypeOK, Time
<1>2. ASSUME NEW u \in Updaters, AppendList(u)
      PROVE  StampLagsUnderLock'
  <2>1. pc'[u] = "stamp"
    BY <1>2 DEF AppendList, Goto, ListingInv, TypeOK
  <2> QED
    BY <1>1, <1>2, <2>1 DEF AppendList, StampLagsUnderLock
<1>3. ASSUME NEW u \in Updaters, Stamp(u)
      PROVE  StampLagsUnderLock'
  BY <1>1, <1>3 DEF Stamp, StampLagsUnderLock
<1>4. CASE /\ UNCHANGED <<packages_updated, listed>>
           /\ \A u \in Updaters : ~Stamp(u)
  <2>1. \A u \in Updaters : pc[u] = "stamp" => pc'[u] = "stamp"
    BY <1>4, StampStays DEF ListingInv
  <2> QED
    BY <1>1, <1>4, <2>1 DEF StampLagsUnderLock
<1> QED
  BY <1>2, <1>3, <1>4, WorldMoves DEF ListingInv

(* The times of the cache never go back, and its listing is covered when a *)
(* reader is let in.                                                       *)
LEMMA TimesGrow ==
  ASSUME ListingInv, StampLagsUnderLock, [Next]_vars
  PROVE  /\ packages_updated \in Nat /\ packages_updated' \in Nat
         /\ packages_updated <= packages_updated'
<1>1. /\ now \in Nat /\ listed \in Nat /\ packages_updated \in Nat
  BY ListingAssumption DEF ListingInv, TypeOK, Time
<1>2. \A u : AppendList(u) => packages_updated' = packages_updated
  BY DEF AppendList
<1>3. \A u : Stamp(u) => packages_updated' = now
  BY DEF Stamp
<1> QED
  BY <1>1, <1>2, <1>3, WorldMoves DEF ListingInv, StampLagsUnderLock

LEMMA CoveredWhenUnlocked ==
  ASSUME ListingInv, StampLagsUnderLock, writer = None
  PROVE  listed <= packages_updated
  BY ListingAssumption DEF ListingInv, UpdateUnderMutex, StampLagsUnderLock, Updaters

LEMMA LoopTypes ==
  ASSUME TypeOK
  PROVE  /\ now \in Nat /\ wake \in Nat /\ packages_next_update \in Nat
         /\ packages_updated \in Nat /\ update_scheduled \in Nat /\ next_update \in Nat
         /\ Loop \in Updaters /\ pc \in [Updaters -> AllPC]
  BY DEF TypeOK, Time, Updaters, AllPC

(* The loop's deadline.                                                    *)
LEMMA SleepsStep ==
  ListingInv /\ SleepsToAnnounced /\ [Next]_vars => SleepsToAnnounced'
<1> SUFFICES ASSUME ListingInv, SleepsToAnnounced, [Next]_vars
             PROVE  SleepsToAnnounced'
  OBVIOUS
<1>0. /\ now \in Nat /\ wake \in Nat /\ packages_next_update \in Nat
      /\ next_update \in Nat /\ initial_delay \in Nat
      /\ Loop \in Updaters /\ Loop \notin Clients /\ pc \in [Updaters -> AllPC]
  BY ListingAssumption DEF ListingInv, TypeOK, Time, Updaters, AllPC
<1>1. CASE Record
  <2>1. /\ packages_next_update' = now + next_update /\ wake' = now + next_update
        /\ next_update' = next_update
        /\ Goto(Loop, "outer") \/ (Goto(Loop, "inner") /\ update_scheduled' = now)
    BY <1>1 DEF Record
  <2>2. pc'[Loop] = "outer" \/ (pc'[Loop] = "inner" /\ update_scheduled' = now)
    BY <1>0, <2>1 DEF Goto
  <2> QED
    BY <1>0, <2>1, <2>2 DEF SleepsToAnnounced
<1>2. CASE WakeOuter
  BY <1>0, <1>2 DEF WakeOuter, Goto, SleepsToAnnounced
<1>3. CASE WakeInner
  <2>1. CASE packages_updated > update_scheduled
    <3>1. /\ update_scheduled' = now /\ next_update' = next_update
          /\ packages_next_update' = now + next_update /\ wake' = now + next_update
      BY <1>0, <1>3, <2>1, LoopTypes DEF WakeInner, ListingInv
    <3> QED
      BY <1>0, <3>1 DEF SleepsToAnnounced
  <2>2. CASE ~(packages_updated > update_scheduled)
    <3>1. /\ pc[Loop] = "inner" /\ now >= wake /\ pc'[Loop] = "outer"
          /\ wake' = now + initial_delay /\ UNCHANGED packages_next_update
      BY <1>0, <1>3, <2>2 DEF WakeInner, Goto
    <3> QED
      BY <1>0, <3>1 DEF SleepsToAnnounced
  <2> QED
    BY <2>1, <2>2
<1> USE DEF cache, locks, timer
<1>4. CASE /\ UNCHANGED <<packages_next_update, wake, update_scheduled, next_update>>
           /\ pc'[Loop] = pc[Loop]
  BY <1>4 DEF SleepsToAnnounced
<1>5. CASE Update(Loop) \/ PacePanics(Loop)
  <2>1. \E place : Goto(Loop, place) /\ place \notin {"outer", "inner"}
    BY <1>5 DEF Update, LockMutex, LockPoisonedMutex, FetchPage, PageFails, Clear,
       AppendList, Stamp, Pace, PacePanics, UpdateFailed, Panicked, Updated, Answer
  <2> QED
    BY <1>0, <2>1 DEF Goto, SleepsToAnnounced
<1>6. ASSUME NEW c \in Clients, Arrive(c) \/ Handler(c) \/ PacePanics(c)
      PROVE  SleepsToAnnounced'
  <2>1. \E place : Goto(c, place)
    BY <1>0, <1>6 DEF Arrive, Handler, Update, LockMutex, LockPoisonedMutex, FetchPage,
       PageFails, Clear, AppendList, Stamp, Pace, PacePanics, UpdateFailed, Panicked, Updated,
       Answer, ReadPackages, ReadAsOf, ReadNextUpdate
  <2>2. UNCHANGED <<packages_next_update, wake, update_scheduled, next_update>>
    BY <1>0, <1>6 DEF Arrive, Handler, Update, LockMutex, LockPoisonedMutex, FetchPage,
       PageFails, Clear, AppendList, Stamp, Pace, PacePanics, UpdateFailed, Panicked, Updated,
       ReadPackages, ReadAsOf, ReadNextUpdate
  <2>3. pc'[Loop] = pc[Loop]
    BY <1>0, <2>1 DEF Goto
  <2> QED
    BY <1>4, <2>2, <2>3
<1>7. CASE Tick \/ OrganizationChanges \/ UNCHANGED vars
  BY <1>4, <1>7 DEF Tick, OrganizationChanges, vars
<1> QED
  BY <1>1, <1>2, <1>3, <1>5, <1>6, <1>7 DEF Next, Scheduler, Finished, Updaters

-----------------------------------------------------------------------------
(* Clients                                                                 *)

(* What AnswersInv says of one client.                                     *)
ReadFit(c) ==
  /\ pc[c] = "as_of" => reply[c].listed <= packages_updated
  /\ pc[c] = "next_update" => reply[c].listed <= reply[c].as_of
  /\ reply[c].status = 200 => pc[c] = "replied"
  /\ asks[c] # "name" /\ reply[c].status = 200 => reply[c].as_of >= reply[c].listed

Carried(c) ==
  /\ asked[c] <= organization
  /\ asks[c] = "POST" =>
       /\ \A i \in 1..Len(fetched[c]) : fetched[c][i] >= asked[c]
       /\ pc[c] \in {"append", "stamp", "pace", "packages"} => NoOlderThan(Listing, asked[c])
       /\ pc[c] \in {"as_of", "next_update"} => NoOlderThan(reply[c].packages, asked[c])
       /\ reply[c].status = 200 => \A i \in 1..Pages : reply[c].packages[i] >= asked[c]

LEMMA ClientParts ==
  ReadsFit /\ PostsCarryOn /\ AsOfCoversListing /\ PostIsFresh
    <=> \A c \in Clients : ReadFit(c) /\ Carried(c)
  BY DEF ReadsFit, PostsCarryOn, AsOfCoversListing, PostIsFresh, ReadFit, Carried

LEMMA ClientParts2 ==
  ReadsFit' /\ PostsCarryOn' /\ AsOfCoversListing' /\ PostIsFresh'
    <=> \A c \in Clients : ReadFit(c)' /\ Carried(c)'
  BY DEF ReadsFit, PostsCarryOn, AsOfCoversListing, PostIsFresh, ReadFit, Carried

LEMMA ClientTypes ==
  ASSUME TypeOK, NEW c \in Clients
  PROVE  /\ c \in Updaters /\ c # Loop
         /\ pc \in [Updaters -> AllPC] /\ fetched \in [Updaters -> Seq(Page)]
         /\ asked \in [Clients -> Nat] /\ asked[c] \in Page /\ asked[c] \in Nat
         /\ organization \in Nat /\ packages_updated \in Nat
         /\ reply \in [Clients -> Reply]
         /\ reply[c].listed \in Nat /\ reply[c].as_of \in Nat
<1>1. /\ c \in Updaters /\ c # Loop /\ Page \subseteq Nat
      /\ reply[c] \in Reply
  BY ListingAssumption DEF TypeOK, Updaters, Page
<1>2. reply[c].listed \in Nat /\ reply[c].as_of \in Nat
  BY <1>1 DEF Reply, Time
<1> QED
  BY <1>1, <1>2 DEF TypeOK, AllPC, Time

(* Time passes for a client whom no step concerns.                         *)
LEMMA KeptClient ==
  ASSUME ListingInv, ListingInv', StampLagsUnderLock, [Next]_vars,
         NEW c \in Clients, ReadFit(c), Carried(c), Kept(c)
  PROVE  ReadFit(c)' /\ Carried(c)'
<1>1. TypeOK /\ TypeOK'
  BY DEF ListingInv
<1>2. /\ organization \in Nat /\ organization <= organization'
      /\ packages_updated \in Nat /\ packages_updated' \in Nat
      /\ packages_updated <= packages_updated' /\ UNCHANGED asks
  BY <1>1, WorldMoves, TimesGrow, ClientTypes
<1>3. NoOlderThan(Listing, asked[c]) => NoOlderThan(Listing', asked[c])
  BY <1>1, ClientTypes, CacheStaysNew
<1>4. ReadFit(c)'
  BY <1>1, <1>2, ClientTypes DEF ReadFit, Kept
<1>5. asked'[c] = asked[c] /\ asked'[c] <= organization'
  <2>1. asked[c] <= organization /\ asked[c] \in Nat /\ asked'[c] = asked[c]
    BY <1>1, ClientTypes DEF Carried, Kept
  <2>2. organization' \in Nat
    BY <1>1, ListingAssumption DEF TypeOK, Page
  <2> QED
    BY <1>2, <2>1, <2>2
<1>6. /\ pc'[c] = pc[c] /\ fetched'[c] = fetched[c] /\ reply'[c] = reply[c]
      /\ asks'[c] = asks[c]
  BY <1>2 DEF Kept
<1>7. Carried(c)'
  BY <1>3, <1>5, <1>6 DEF Carried, NoOlderThan
<1> QED
  BY <1>4, <1>7

LEMMA ArriveClient ==
  ASSUME ListingInv, NEW c \in Clients, ReadFit(c), Carried(c), Arrive(c)
  PROVE  ReadFit(c)' /\ Carried(c)'
<1>1. TypeOK /\ fetched[c] = <<>> /\ pc[c] = "idle"
  BY ClientTypes DEF ListingInv, FetchedInOrder, Arrive
<1>2. /\ pc'[c] = IF asks[c] = "POST" THEN "lock" ELSE "packages"
      /\ asked'[c] = organization
      /\ UNCHANGED <<asks, fetched, reply, organization, packages, packages_updated>>
  BY <1>1, ClientTypes DEF Arrive, Goto, TypeOK, cache
<1>3. reply[c].status # 200
  BY <1>1 DEF ReadFit
<1>4. ReadFit(c)'
  BY <1>2, <1>3 DEF ReadFit
<1>5. Carried(c)'
  BY <1>1, <1>2, <1>3, ClientTypes DEF Carried
<1> QED
  BY <1>4, <1>5

(* An update that ends without a listing answers no 200.                   *)
LEMMA FailedClient ==
  ASSUME ListingInv, NEW c \in Clients, ReadFit(c), Carried(c),
         UpdateFailed(c) \/ Panicked(c),
         fetched'[c] = fetched[c] \/ fetched'[c] = <<>>,
         UNCHANGED <<asks, asked, organization>>
  PROVE  ReadFit(c)' /\ Carried(c)'
<1>1. TypeOK
  BY DEF ListingInv
<1>2. PICK status \in {1, 500} : Answer(c, status)
  BY <1>1, ClientTypes DEF UpdateFailed, Panicked
<1>3. pc'[c] = "replied" /\ reply'[c].status # 200
  BY <1>1, <1>2, ClientTypes DEF Answer, Goto, ReplyOf
<1>4. asks[c] = "POST" => \A i \in 1..Len(fetched'[c]) : fetched'[c][i] >= asked[c]
  <2>1. CASE fetched'[c] = fetched[c]
    BY <2>1 DEF Carried
  <2>2. CASE fetched'[c] = <<>>
    BY <2>2
  <2> QED
    BY <2>1, <2>2
<1> QED
  BY <1>3, <1>4 DEF ReadFit, Carried

LEMMA UpdateClient ==
  ASSUME ListingInv, ListingInv', [Next]_vars, NEW c \in Clients, ReadFit(c), Carried(c),
         Update(c) \/ PacePanics(c)
  PROVE  ReadFit(c)' /\ Carried(c)'
<1>1. TypeOK /\ TypeOK'
  BY DEF ListingInv
<1> USE DEF cache, locks, timer
<1>2. CASE LockMutex(c)
  <2>1. /\ pc'[c] = "fetch" /\ pc[c] = "lock"
        /\ UNCHANGED <<asks, asked, fetched, reply, organization>>
    BY <1>1, <1>2, ClientTypes DEF LockMutex, Goto
  <2> QED
    BY <1>1, <2>1, ClientTypes DEF ReadFit, Carried
<1>3. CASE FetchPage(c)
  <2> DEFINE old == fetched[c]
  <2>1. /\ pc'[c] \in {"fetch", "replace"} /\ pc[c] = "fetch"
        /\ fetched'[c] = Append(old, organization)
        /\ UNCHANGED <<asks, asked, reply, organization>>
    BY <1>1, <1>3, ClientTypes DEF FetchPage, Goto
  <2>2. old \in Seq(Page) /\ Len(old) \in Nat
    BY <1>1, ClientTypes
  <2>3. /\ Len(fetched'[c]) = Len(old) + 1 /\ fetched'[c][Len(old) + 1] = organization
        /\ \A i \in 1..Len(old) : fetched'[c][i] = old[i]
    BY <2>1, <2>2
  <2>4. asked[c] <= organization
    BY DEF Carried
  <2>5. asks[c] = "POST" => \A i \in 1..Len(old) : old[i] >= asked[c]
    BY DEF Carried
  <2> HIDE DEF old
  <2>6. asks[c] = "POST" => \A i \in 1..Len(fetched'[c]) : fetched'[c][i] >= asked[c]
    <3> SUFFICES ASSUME asks[c] = "POST", NEW i \in 1..Len(fetched'[c])
                 PROVE  fetched'[c][i] >= asked[c]
      OBVIOUS
    <3>1. CASE i = Len(old) + 1
      BY <1>1, <2>3, <2>4, <3>1, ClientTypes
    <3>2. CASE i # Len(old) + 1
      <4>1. i \in 1..Len(old)
        BY <2>2, <2>3, <3>2
      <4> QED
        BY <2>3, <2>5, <4>1
    <3> QED
      BY <3>1, <3>2
  <2>7. reply[c].status # 200
    BY <2>1 DEF ReadFit
  <2>8. ReadFit(c)'
    BY <2>1, <2>7 DEF ReadFit
  <2> QED
    BY <2>1, <2>4, <2>6, <2>7, <2>8 DEF Carried
<1>4. CASE Clear(c)
  <2>1. /\ pc'[c] = "append" /\ pc[c] = "replace"
        /\ UNCHANGED <<asks, asked, fetched, reply, organization>>
    BY <1>1, <1>4, ClientTypes DEF Clear, Goto
  <2>2. Len(fetched[c]) = Pages
    BY <1>1, <2>1, ClientTypes DEF ListingInv, FetchedInOrder
  <2>3. Listing' = fetched[c]
    BY <1>1, <1>4, ClientTypes, ClearSets DEF ListingInv
  <2>4. asks[c] = "POST" => NoOlderThan(Listing', asked[c])
    BY <2>2, <2>3 DEF Carried, NoOlderThan
  <2>5. reply[c].status # 200
    BY <2>1 DEF ReadFit
  <2> QED
    BY <2>1, <2>4, <2>5 DEF ReadFit, Carried, NoOlderThan
<1>5. CASE AppendList(c) \/ Stamp(c)
  <2>1. /\ pc'[c] \in {"stamp", "pace"} /\ pc[c] \in {"append", "stamp"}
        /\ UNCHANGED <<asks, asked, reply, organization>>
        /\ fetched'[c] = fetched[c] \/ fetched'[c] = <<>>
    BY <1>1, <1>5, ClientTypes DEF AppendList, Stamp, Goto
  <2>2. asks[c] = "POST" => NoOlderThan(Listing', asked[c])
    BY <1>1, <2>1, ClientTypes, CacheStaysNew DEF Carried
  <2>3. asks[c] = "POST" => \A i \in 1..Len(fetched'[c]) : fetched'[c][i] >= asked[c]
    <3>1. CASE fetched'[c] = fetched[c]
      BY <3>1 DEF Carried
    <3>2. CASE fetched'[c] = <<>>
      BY <3>2
    <3> QED
      BY <2>1, <3>1, <3>2
  <2>4. reply[c].status # 200
    BY <2>1 DEF ReadFit
  <2> QED
    BY <2>1, <2>2, <2>3, <2>4 DEF ReadFit, Carried, NoOlderThan
<1>6. ASSUME Pace(c), NEW d \in Intervals, Updated(c, d)
      PROVE  ReadFit(c)' /\ Carried(c)'
  <2>1. /\ pc'[c] = "packages" /\ pc[c] = "pace"
        /\ UNCHANGED <<asks, asked, fetched, reply, organization>>
    BY <1>1, <1>6, ClientTypes DEF Pace, Updated, Goto
  <2>2. asks[c] = "POST" => NoOlderThan(Listing', asked[c])
    BY <1>1, <2>1, ClientTypes, CacheStaysNew DEF Carried
  <2> QED
    BY <2>1, <2>2 DEF ReadFit, Carried, NoOlderThan
<1>7. CASE LockPoisonedMutex(c) \/ PacePanics(c) \/ (Pace(c) /\ UpdateFailed(c))
  BY <1>7, FailedClient DEF LockPoisonedMutex, PacePanics, Pace
<1>8. CASE PageFails(c)
  <2>1. fetched'[c] = <<>>
    BY <1>1, <1>8, ClientTypes DEF PageFails
  <2> QED
    BY <1>8, <2>1, FailedClient DEF PageFails
<1> QED
  BY <1>2, <1>3, <1>4, <1>5, <1>6, <1>7, <1>8 DEF Update, Pace

LEMMA ReadClient ==
  ASSUME ListingInv, StampLagsUnderLock, NEW c \in Clients, ReadFit(c), Carried(c),
         ReadPackages(c) \/ ReadAsOf(c) \/ ReadNextUpdate(c)
  PROVE  ReadFit(c)' /\ Carried(c)'
<1>1. TypeOK
  BY DEF ListingInv
<1> USE DEF cache, locks, timer
<1>2. /\ UNCHANGED <<asks, asked, fetched, organization, packages, packages_updated>>
      /\ pc[c] # "replied" /\ reply[c].status # 200
  BY DEF ReadPackages, ReadAsOf, ReadNextUpdate, ReadFit
<1>3. CASE ReadPackages(c)
  <2>1. pc[c] = "packages" /\ writer = None
    BY <1>3 DEF ReadPackages
  <2>2. listed <= packages_updated
    BY <2>1, CoveredWhenUnlocked
  <2>3. CASE Answer(c, 1)
    <3>1. pc'[c] = "replied" /\ reply'[c].status # 200
      BY <1>1, <2>3, ClientTypes DEF Answer, Goto, ReplyOf
    <3> QED
      BY <1>1, <1>2, <3>1, ClientTypes DEF ReadFit, Carried
  <2>4. CASE asks[c] = "name" /\ ~Answer(c, 1)
    <3>1. pc'[c] = "replied"
      BY <1>1, <1>3, <2>4, ClientTypes DEF ReadPackages, Goto
    <3> QED
      BY <1>1, <1>2, <2>4, <3>1, ClientTypes DEF ReadFit, Carried
  <2>5. CASE asks[c] # "name" /\ ~Answer(c, 1)
    <3>1. pc'[c] = "as_of" /\ reply'[c] = ReplyOf(0, packages, listed, 0, 0)
      BY <1>1, <1>3, <2>5, ClientTypes DEF ReadPackages, Goto
    <3>2. /\ reply'[c].listed = listed /\ reply'[c].packages = packages
          /\ reply'[c].status = 0
      BY <3>1 DEF ReplyOf
    <3>3. ReadFit(c)'
      BY <1>2, <2>2, <3>1, <3>2 DEF ReadFit
    <3>4. Listing = packages
      BY <1>1, <2>1, ListingOf DEF ListingInv, ListingSays
    <3> QED
      BY <1>2, <2>1, <3>1, <3>2, <3>3, <3>4 DEF Carried, NoOlderThan
  <2> QED
    BY <2>3, <2>4, <2>5
<1>4. CASE ReadAsOf(c)
  <2>1. pc[c] = "as_of" /\ pc'[c] = "next_update"
    BY <1>1, <1>4, ClientTypes DEF ReadAsOf, Goto
  <2>2. reply'[c] = ReplyOf(0, reply[c].packages, reply[c].listed, packages_updated, 0)
    BY <1>1, <1>4, ClientTypes DEF ReadAsOf
  <2>3. /\ reply'[c].listed = reply[c].listed /\ reply'[c].packages = reply[c].packages
        /\ reply'[c].as_of = packages_updated /\ reply'[c].status = 0
    BY <2>2 DEF ReplyOf
  <2>4. ReadFit(c)'
    BY <2>1, <2>3 DEF ReadFit
  <2> QED
    BY <1>2, <2>1, <2>3, <2>4 DEF Carried, NoOlderThan
<1>5. CASE ReadNextUpdate(c)
  <2>1. pc[c] = "next_update" /\ pc'[c] = "replied"
    BY <1>1, <1>5, ClientTypes DEF ReadNextUpdate, Goto
  <2>2. reply'[c] = ReplyOf(200, reply[c].packages, reply[c].listed, reply[c].as_of,
                            packages_next_update)
    BY <1>1, <1>5, ClientTypes DEF ReadNextUpdate
  <2>3. /\ reply'[c].listed = reply[c].listed /\ reply'[c].packages = reply[c].packages
        /\ reply'[c].as_of = reply[c].as_of
    BY <2>2 DEF ReplyOf
  <2>4. reply[c].listed <= reply[c].as_of
    BY <2>1 DEF ReadFit
  <2>5. ReadFit(c)'
    BY <1>1, <2>1, <2>3, <2>4, ClientTypes DEF ReadFit
  <2> QED
    BY <1>2, <2>1, <2>3, <2>5 DEF Carried, NoOlderThan
<1> QED
  BY <1>3, <1>4, <1>5

LEMMA AnswersInit == Init => AnswersInv
<1> SUFFICES ASSUME Init PROVE AnswersInv
  OBVIOUS
<1>1. TypeOK
  BY TypeInit
<1>2. StampLagsUnderLock /\ SleepsToAnnounced
  BY ListingAssumption DEF Init, StampLagsUnderLock, SleepsToAnnounced, Updaters
<1>3. ASSUME NEW c \in Clients
      PROVE  ReadFit(c) /\ Carried(c)
  <2>1. /\ pc[c] = "idle" /\ fetched[c] = <<>> /\ asked[c] = 1 /\ organization = 1
        /\ reply[c] = ReplyOf(0, <<>>, 0, 0, 0)
    BY <1>1, ClientTypes DEF Init
  <2>2. reply[c].status = 0
    BY <2>1 DEF ReplyOf
  <2> QED
    BY <2>1, <2>2 DEF ReadFit, Carried
<1> QED
  BY <1>2, <1>3, ClientParts DEF AnswersInv

LEMMA AnswersStep == ListingInv /\ ListingInv' /\ AnswersInv /\ [Next]_vars => AnswersInv'
<1> SUFFICES ASSUME ListingInv, ListingInv', AnswersInv, [Next]_vars
             PROVE  AnswersInv'
  OBVIOUS
<1>1. StampLagsUnderLock' /\ SleepsToAnnounced'
  BY StampLagsStep, SleepsStep DEF AnswersInv
<1>2. ASSUME NEW c \in Clients
      PROVE  ReadFit(c)' /\ Carried(c)'
  <2>1. TypeOK /\ StampLagsUnderLock /\ ReadFit(c) /\ Carried(c)
    BY ClientParts DEF ListingInv, AnswersInv
  <2>2. CASE Kept(c)
    BY <2>1, <2>2, KeptClient
  <2>3. CASE Arrive(c)
    BY <2>1, <2>3, ArriveClient
  <2>4. CASE Update(c) \/ PacePanics(c)
    BY <2>1, <2>4, UpdateClient
  <2>5. CASE ReadPackages(c) \/ ReadAsOf(c) \/ ReadNextUpdate(c)
    BY <2>1, <2>5, ReadClient
  <2> QED
    BY <2>1, <2>2, <2>3, <2>4, <2>5, OthersKeep DEF Handler
<1> QED
  BY <1>1, <1>2, ClientParts2 DEF AnswersInv

-----------------------------------------------------------------------------
(* AnswersInv is inductive, given ListingInv: what a client has read under *)
(* one lock still fits what it reads under the next.                       *)
THEOREM AnswersInvariant == Spec => []AnswersInv
  BY AnswersInit, AnswersStep, ListingInvariant, PTL DEF Spec

(* An answer's as_of is no earlier than the listing it comes with, although*)
(* any number of updates may fall between the two reads.                   *)
THEOREM AsOfIsCovering == Spec => []AsOfCoversListing
<1>1. AnswersInv => AsOfCoversListing
  BY DEF AnswersInv
<1> QED
  BY <1>1, AnswersInvariant, PTL

(* Whoever asks for an update is answered a listing fetched after asking.  *)
THEOREM PostedIsFresh == Spec => []PostIsFresh
<1>1. AnswersInv => PostIsFresh
  BY DEF AnswersInv
<1> QED
  BY <1>1, AnswersInvariant, PTL

(* The loop leaves a sleep by waking from it only.                         *)
LEMMA LoopWakes ==
  ASSUME ListingInv, [Next]_vars, pc[Loop] \in {"outer", "inner"}, pc'[Loop] # pc[Loop]
  PROVE  WakeOuter \/ WakeInner
<1>1. Loop \in Updaters /\ Loop \notin Clients /\ pc \in [Updaters -> AllPC]
  BY ListingAssumption DEF ListingInv, TypeOK, Updaters, AllPC
<1>2. ASSUME NEW c \in Clients, Arrive(c) \/ Handler(c) \/ PacePanics(c)
      PROVE  pc'[Loop] = pc[Loop]
  <2>1. \E place : Goto(c, place)
    BY <1>1, <1>2 DEF Arrive, Handler, Update, LockMutex, LockPoisonedMutex, FetchPage,
       PageFails, Clear, AppendList, Stamp, Pace, PacePanics, UpdateFailed, Panicked, Updated,
       Answer, ReadPackages, ReadAsOf, ReadNextUpdate
  <2> QED
    BY <1>1, <2>1 DEF Goto
<1>3. ~(Update(Loop) \/ PacePanics(Loop) \/ Record)
  BY DEF Update, LockMutex, LockPoisonedMutex, FetchPage, PageFails, Clear, AppendList, Stamp,
     Pace, PacePanics, Record
<1>4. ~(Tick \/ OrganizationChanges \/ UNCHANGED vars)
  BY DEF Tick, OrganizationChanges, vars
<1> QED
  BY <1>2, <1>3, <1>4 DEF Next, Scheduler, Finished, Updaters

(* The loop starts no update before the time it announced last, whatever   *)
(* updates of clients made it sleep again.                                 *)
THEOREM LoopWaits == Spec => NotBeforeAnnounced
<1>1. ASSUME ListingInv, AnswersInv, [Next]_vars, pc[Loop] = "outer", pc'[Loop] = "lock"
      PROVE  now >= packages_next_update
  <2>1. WakeOuter
    BY <1>1, LoopWakes DEF WakeInner
  <2> QED
    BY <1>1, <2>1, LoopTypes DEF WakeOuter, ListingInv, AnswersInv, SleepsToAnnounced
<1> QED
  BY <1>1, ListingInvariant, AnswersInvariant, PTL DEF Spec, NotBeforeAnnounced

(* A client's update delays the loop's by an interval, however many came   *)
(* in between and whenever the loop looked.                                *)
THEOREM LoopGivesWay == Spec => UpdatesDelayTheLoop
<1>1. ASSUME ListingInv, AnswersInv, [Next]_vars, pc[Loop] = "inner", pc'[Loop] = "outer"
      PROVE  now >= packages_updated + next_update
  <2>1. WakeInner
    BY <1>1, LoopWakes DEF WakeOuter
  <2>2. now >= wake /\ packages_updated <= update_scheduled
    BY <1>1, <2>1 DEF WakeInner
  <2> QED
    BY <1>1, <2>2, LoopTypes DEF ListingInv, AnswersInv, SleepsToAnnounced
<1> QED
  BY <1>1, ListingInvariant, AnswersInvariant, PTL DEF Spec, UpdatesDelayTheLoop
=============================================================================
