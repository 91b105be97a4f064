---------------------------- MODULE LedgerProofs ----------------------------
(***************************************************************************)
(* StatsService implements TaskLedger: every step of the service is, seen  *)
(* through the registry, one step of the ledger or none.                   *)
(***************************************************************************)
EXTENDS StatsRowsProofs

(* Functions of two arguments, and sets of triples, that agree are equal.  *)
LEMMA TableEqual ==
  ASSUME NEW A, NEW B, NEW C, NEW g \in [A -> [B -> C]], NEW h \in [A -> [B -> C]],
         \A a \in A, b \in B : g[a][b] = h[a][b]
  PROVE  g = h
  OBVIOUS

(* Assigning to a place, and to some places of a row.                      *)
LEMMA PlaceUpdated ==
  ASSUME NEW A, NEW B, NEW C, NEW g \in [A -> [B -> C]],
         NEW p \in A, NEW f \in B, NEW v \in C
  PROVE  /\ [g EXCEPT ![p][f] = v] \in [A -> [B -> C]]
         /\ \A a \in A, b \in B :
              [g EXCEPT ![p][f] = v][a][b] = IF a = p /\ b = f THEN v ELSE g[a][b]
  OBVIOUS

LEMMA RowUpdated ==
  ASSUME NEW A, NEW B, NEW C, NEW g \in [A -> [B -> C]],
         NEW p \in A, NEW S \in SUBSET B, NEW v \in C
  PROVE  LET h == [g EXCEPT ![p] = [b \in B |-> IF b \in S THEN v ELSE g[p][b]]]
         IN /\ h \in [A -> [B -> C]]
            /\ \A a \in A, b \in B : h[a][b] = IF a = p /\ b \in S THEN v ELSE g[a][b]
  OBVIOUS

LEMMA TriplesEqual ==
  ASSUME NEW A, NEW B, NEW C, NEW S \in SUBSET (A \X B \X C), NEW T \in SUBSET (A \X B \X C),
         \A a \in A, b \in B, c \in C : <<a, b, c>> \in S <=> <<a, b, c>> \in T
  PROVE  S = T
<1>1. \A x \in A \X B \X C : x \in S <=> x \in T
  <2> SUFFICES ASSUME NEW x \in A \X B \X C
               PROVE  x \in S <=> x \in T
    OBVIOUS
  <2>1. PICK a \in A, b \in B, c \in C : x = <<a, b, c>>
    OBVIOUS
  <2> QED
    BY <2>1
<1> QED
  BY <1>1

(* The mapped state in terms of the futures of jobs.                       *)
OwnersWait ==
  /\ Owner \in [Packages -> [Files -> Requests \cup {None}]]
  /\ \A p \in Packages, f \in Files, r \in Requests :
       Owner[p][f] = r <=> PackageOf(r) = p /\ stage[r][f] \in InRegistry

ResultsUnsaved ==
  /\ Results \in SUBSET (Packages \X Files \X Requests)
  /\ \A p \in Packages, f \in Files, r \in Requests :
       <<p, f, r>> \in Results <=> p = PackageOf(r) /\ stage[r][f] \in Unstored

LEMMA OwnerFacts == IInv => OwnersWait
<1> SUFFICES ASSUME IInv PROVE OwnersWait
  OBVIOUS
<1>1. TypeOK /\ RegistryMatchesJobs /\ OneTaskPerFile
  BY DEF IInv
<1>2. ASSUME NEW p \in Packages, NEW f \in Files
      PROVE  /\ Owner[p][f] \in Requests \cup {None}
             /\ \A r \in Requests :
                  Owner[p][f] = r <=> PackageOf(r) = p /\ stage[r][f] \in InRegistry
  <2>1. CASE f \notin InProgress(p)
    <3>1. Owner[p][f] = None
      BY <2>1 DEF Owner
    <3>2. ASSUME NEW r \in Requests, PackageOf(r) = p, stage[r][f] \in InRegistry
          PROVE  FALSE
      BY <1>1, <2>1, <3>2, JobsAreInProgress DEF JobsInProgress
    <3> QED
      BY <3>1, <3>2, ServiceAssumption
  <2>2. CASE f \in InProgress(p)
    <3>1. PICK t \in current_tasks[p] : t.file = f
      BY <2>2 DEF InProgress
    <3>2. \A u \in current_tasks[p] : u.file = f => u = t
      BY <1>1, <3>1 DEF OneTaskPerFile
    <3>3. (CHOOSE u \in current_tasks[p] : u.file = f) = t
      BY <3>1, <3>2
    <3>4. Owner[p][f] = t.by
      BY <2>2, <3>3 DEF Owner
    <3>5. t.by \in Requests /\ t = [file |-> f, by |-> t.by] /\ PackageOf(t.by) = p
      BY <1>1, <3>1 DEF TypeOK, Task, RegistryMatchesJobs
    <3>6. stage[t.by][f] \in InRegistry
      BY <1>1, <3>1, <3>5 DEF RegistryMatchesJobs
    <3>7. ASSUME NEW r \in Requests, PackageOf(r) = p, stage[r][f] \in InRegistry
          PROVE  r = t.by
      BY <1>1, <3>5, <3>6, <3>7, OneWaiting
    <3> QED
      BY <3>4, <3>5, <3>6, <3>7
  <2> QED
    BY <2>1, <2>2
<1>3. Owner \in [Packages -> [Files -> Requests \cup {None}]]
  BY <1>2 DEF Owner
<1> QED
  BY <1>2, <1>3 DEF OwnersWait

LEMMA ResultsFacts == ResultsUnsaved
  BY DEF ResultsUnsaved, Results

LEMMA OwnerFactsNext == IInv' => OwnersWait'
  BY OwnerFacts, PTL

LEMMA ResultsFactsNext == ResultsUnsaved'
  BY ResultsFacts, PTL

-----------------------------------------------------------------------------
(* What a step leaves as it was                                            *)

LEMMA SameOwner ==
  ASSUME IInv, IInv', UNCHANGED query, NEW p \in Packages, NEW f \in Files,
         \A r \in Requests : PackageOf(r) = p =>
           (stage'[r][f] \in InRegistry <=> stage[r][f] \in InRegistry)
  PROVE  Owner'[p][f] = Owner[p][f]
<1>1. \A r \in Requests : PackageOf(r)' = PackageOf(r)
  BY DEF PackageOf
<1>2. OwnersWait /\ OwnersWait'
  BY OwnerFacts, OwnerFactsNext
<1>3. \A r \in Requests : Owner'[p][f] = r <=> Owner[p][f] = r
  BY <1>1, <1>2 DEF OwnersWait
<1> QED
  BY <1>2, <1>3 DEF OwnersWait

LEMMA SameOwners ==
  ASSUME IInv, IInv', UNCHANGED query,
         \A r \in Requests, f \in Files :
           stage'[r][f] \in InRegistry <=> stage[r][f] \in InRegistry
  PROVE  UNCHANGED Owner
<1>1. OwnersWait /\ OwnersWait'
  BY OwnerFacts, OwnerFactsNext
<1>2. \A p \in Packages, f \in Files : Owner'[p][f] = Owner[p][f]
  BY SameOwner
<1> QED
  BY <1>1, <1>2, TableEqual DEF OwnersWait

LEMMA SameResults ==
  ASSUME UNCHANGED query,
         \A r \in Requests, f \in Files : stage'[r][f] \in Unstored <=> stage[r][f] \in Unstored
  PROVE  UNCHANGED Results
<1>1. \A r \in Requests : PackageOf(r)' = PackageOf(r)
  BY DEF PackageOf
<1>2. ResultsUnsaved /\ ResultsUnsaved'
  BY ResultsFacts, ResultsFactsNext
<1>3. ASSUME NEW p \in Packages, NEW f \in Files, NEW r \in Requests
      PROVE  <<p, f, r>> \in Results' <=> <<p, f, r>> \in Results
  <2>1. <<p, f, r>> \in Results <=> p = PackageOf(r) /\ stage[r][f] \in Unstored
    BY <1>2 DEF ResultsUnsaved
  <2>2. <<p, f, r>> \in Results' <=> p = PackageOf(r)' /\ stage'[r][f] \in Unstored
    BY <1>2 DEF ResultsUnsaved
  <2> QED
    BY <1>1, <2>1, <2>2
<1>4. /\ Results \in SUBSET (Packages \X Files \X Requests)
      /\ Results' \in SUBSET (Packages \X Files \X Requests)
  BY <1>2 DEF ResultsUnsaved
<1> QED
  BY <1>3, <1>4, TriplesEqual

LEMMA SameStored ==
  ASSUME UNCHANGED entries
  PROVE  UNCHANGED [p \in Packages |-> Stored(p)]
  BY DEF Stored

(* A step that no future notices, or only within "in the registry".        *)
LEMMA Stutter ==
  ASSUME IInv, IInv', UNCHANGED <<query, entries>>,
         \A r \in Requests, f \in Files :
           /\ stage'[r][f] \in InRegistry <=> stage[r][f] \in InRegistry
           /\ stage'[r][f] \in Unstored <=> stage[r][f] \in Unstored
  PROVE  UNCHANGED Ledger!vars
  BY SameOwners, SameResults, SameStored DEF Ledger!vars

-----------------------------------------------------------------------------
(* The steps the ledger sees                                               *)

(* A handler that records tasks claims their files.                        *)
LEMMA BuildTasksClaims ==
  ASSUME IInv, IInv', NEW r \in Requests, BuildTasks(r)
  PROVE  \E S \in SUBSET Files : Ledger!Claim(r, PackageOf(r), S)
<1>1. PICK new \in WithSha(r) : RecordNewTasks(r, new)
  BY DEF BuildTasks
<1>2. PICK p : p = PackageOf(r)
  OBVIOUS
<1> DEFINE names == {x.file : x \in new}
<1>3. /\ TypeOK /\ p \in Packages /\ pc[r] = "shas"
      /\ names \in SUBSET Files
      /\ \A f \in names : f \notin InProgress(p)
  <2>1. TypeOK /\ pc[r] = "shas"
    BY DEF IInv, BuildTasks
  <2>2. \A x \in new : x \in files[r] /\ x \in File
    BY <1>1, <2>1 DEF WithSha, TypeOK
  <2>3. \A f \in names : f \in Files /\ f \notin InProgress(p)
    BY <1>2, <2>1, <2>2 DEF IInv, FilterStillValid, File
  <2> QED
    BY <1>2, <2>1, <2>3, QueryFacts
<1>4. stage' = [stage EXCEPT ![r] =
                  [f \in Files |-> IF f \in names THEN "fetching" ELSE "none"]]
  BY <1>1 DEF RecordNewTasks
<1> HIDE DEF names
<1>5. /\ \A q \in Requests : q # r => stage'[q] = stage[q]
      /\ \A f \in Files : stage[r][f] = "none"
      /\ UNCHANGED <<query, entries>>
  BY BuildTasksFacts
<1>6. \A f \in Files :
        /\ stage[r][f] \notin InRegistry
        /\ stage'[r][f] \in InRegistry <=> f \in names
        /\ stage[r][f] \notin Unstored /\ stage'[r][f] \notin Unstored
  BY <1>3, <1>4, <1>5 DEF TypeOK, InRegistry, Waiting, Unstored
<1>7. OwnersWait /\ OwnersWait'
  BY OwnerFacts, OwnerFactsNext
<1>8. \A f \in names : Owner[p][f] = None
  <2> SUFFICES ASSUME NEW f \in names, Owner[p][f] # None
               PROVE  FALSE
    OBVIOUS
  <2>1. f \in Files
    BY <1>3
  <2>2. PICK q \in Requests : q = Owner[p][f] /\ PackageOf(q) = p /\ stage[q][f] \in InRegistry
    BY <1>3, <1>7, <2>1 DEF OwnersWait
  <2>3. JobsInProgress
    BY JobsAreInProgress DEF IInv
  <2> QED
    BY <1>3, <2>1, <2>2, <2>3 DEF JobsInProgress
<1>9. \A f \in Files : Owner[p][f] # r
  BY <1>3, <1>6, <1>7 DEF OwnersWait
<1> DEFINE next == [Owner EXCEPT ![p] = [f \in Files |-> IF f \in names THEN r ELSE Owner[p][f]]]
<1>10. Owner' = next
  <2>1. /\ next \in [Packages -> [Files -> Requests \cup {None}]]
        /\ \A q \in Packages, f \in Files :
             next[q][f] = IF q = p /\ f \in names THEN r ELSE Owner[q][f]
    BY <1>3, <1>7, RowUpdated DEF OwnersWait
  <2> HIDE DEF next
  <2>2. ASSUME NEW q \in Packages, NEW f \in Files
        PROVE  Owner'[q][f] = next[q][f]
    <3>1. CASE q = p /\ f \in names
      <4>1. PackageOf(r)' = p /\ stage'[r][f] \in InRegistry
        BY <1>2, <1>5, <1>6, <3>1 DEF PackageOf
      <4>2. Owner'[q][f] = r
        BY <1>7, <3>1, <4>1 DEF OwnersWait
      <4> QED
        BY <2>1, <3>1, <4>2
    <3>2. CASE ~(q = p /\ f \in names)
      <4>1. \A s \in Requests : PackageOf(s) = q =>
              (stage'[s][f] \in InRegistry <=> stage[s][f] \in InRegistry)
        BY <1>2, <1>5, <1>6, <3>2
      <4>2. Owner'[q][f] = Owner[q][f]
        BY <1>5, <4>1, SameOwner
      <4> QED
        BY <2>1, <3>2, <4>2
    <3> QED
      BY <3>1, <3>2
  <2>3. Owner' \in [Packages -> [Files -> Requests \cup {None}]]
    BY <1>7 DEF OwnersWait
  <2> QED
    BY <2>1, <2>2, <2>3, TableEqual
<1>11. UNCHANGED Results /\ UNCHANGED [q \in Packages |-> Stored(q)]
  <2>1. \A q \in Requests, f \in Files : stage'[q][f] \in Unstored <=> stage[q][f] \in Unstored
    BY <1>5, <1>6
  <2> QED
    BY <1>5, <2>1, SameResults, SameStored
<1>12. Ledger!Claim(r, p, names)
  BY <1>8, <1>9, <1>10, <1>11 DEF Ledger!Claim
<1> QED
  BY <1>2, <1>3, <1>12

(* What the ledger sees of one future: its owner is gone, its result comes *)
(* or goes.                                                                *)
LEMMA OwnerGone ==
  ASSUME IInv, IInv', NEW r \in Requests, NEW f \in Files, NEW p, p = PackageOf(r),
         UNCHANGED query, stage[r][f] \in InRegistry, stage'[r][f] \notin InRegistry,
         \A q \in Requests, g \in Files : q # r \/ g # f =>
           (stage'[q][g] \in InRegistry <=> stage[q][g] \in InRegistry)
  PROVE  /\ Owner[p][f] = r
         /\ Owner' = [Owner EXCEPT ![p][f] = None]
<1>1. p \in Packages /\ OwnersWait /\ OwnersWait'
  BY OwnerFacts, OwnerFactsNext, QueryFacts DEF IInv
<1>2. Owner[p][f] = r
  BY <1>1 DEF OwnersWait
<1> DEFINE next == [Owner EXCEPT ![p][f] = None]
<1>3. /\ next \in [Packages -> [Files -> Requests \cup {None}]]
      /\ \A q \in Packages, g \in Files :
           next[q][g] = IF q = p /\ g = f THEN None ELSE Owner[q][g]
  BY <1>1, PlaceUpdated DEF OwnersWait
<1> HIDE DEF next
<1>4. ASSUME NEW q \in Packages, NEW g \in Files
      PROVE  Owner'[q][g] = next[q][g]
  <2>1. CASE q = p /\ g = f
    <3>1. ASSUME NEW s \in Requests, PackageOf(s)' = p, stage'[s][f] \in InRegistry
          PROVE  FALSE
      <4>1. s # r /\ PackageOf(s) = PackageOf(r) /\ stage[s][f] \in InRegistry
        BY <3>1 DEF PackageOf
      <4> QED
        BY <4>1, OneWaiting
    <3>2. Owner'[p][f] = None
      BY <1>1, <3>1 DEF OwnersWait
    <3> QED
      BY <1>3, <2>1, <3>2
  <2>2. CASE ~(q = p /\ g = f)
    <3>1. \A s \in Requests : PackageOf(s) = q =>
            (stage'[s][g] \in InRegistry <=> stage[s][g] \in InRegistry)
      BY <2>2
    <3> QED
      BY <1>3, <2>2, <3>1, SameOwner
  <2> QED
    BY <2>1, <2>2
<1>5. Owner' \in [Packages -> [Files -> Requests \cup {None}]]
  BY <1>1 DEF OwnersWait
<1>6. Owner' = next
  BY <1>3, <1>4, <1>5, TableEqual
<1> QED
  BY <1>2, <1>6 DEF next

LEMMA ResultsMove ==
  ASSUME NEW r \in Requests, NEW f \in Files, NEW p \in Packages, p = PackageOf(r),
         UNCHANGED query,
         \A q \in Requests, g \in Files : q # r \/ g # f =>
           (stage'[q][g] \in Unstored <=> stage[q][g] \in Unstored)
  PROVE  /\ stage'[r][f] \in Unstored => Results' = Results \cup {<<p, f, r>>}
         /\ stage'[r][f] \notin Unstored => Results' = Results \ {<<p, f, r>>}
<1>1. ResultsUnsaved /\ ResultsUnsaved'
  BY ResultsFacts, ResultsFactsNext
<1>2. /\ Results \in SUBSET (Packages \X Files \X Requests)
      /\ Results' \in SUBSET (Packages \X Files \X Requests)
      /\ <<p, f, r>> \in Packages \X Files \X Requests
  BY <1>1 DEF ResultsUnsaved
<1>3. ASSUME NEW q \in Packages, NEW g \in Files, NEW s \in Requests
      PROVE  /\ <<q, g, s>> \in Results <=> q = PackageOf(s) /\ stage[s][g] \in Unstored
             /\ <<q, g, s>> \in Results' <=> q = PackageOf(s) /\ stage'[s][g] \in Unstored
             /\ <<q, g, s>> = <<p, f, r>> <=> q = p /\ g = f /\ s = r
  <2>1. <<q, g, s>> \in Results <=> q = PackageOf(s) /\ stage[s][g] \in Unstored
    BY <1>1 DEF ResultsUnsaved
  <2>2. <<q, g, s>> \in Results' <=> q = PackageOf(s)' /\ stage'[s][g] \in Unstored
    BY <1>1 DEF ResultsUnsaved
  <2>3. PackageOf(s)' = PackageOf(s)
    BY DEF PackageOf
  <2>4. <<q, g, s>> = <<p, f, r>> <=> q = p /\ g = f /\ s = r
    OBVIOUS
  <2> QED
    BY <2>1, <2>2, <2>3, <2>4
<1>4. ASSUME stage'[r][f] \in Unstored
      PROVE  Results' = Results \cup {<<p, f, r>>}
  <2>1. Results \cup {<<p, f, r>>} \in SUBSET (Packages \X Files \X Requests)
    BY <1>2
  <2>2. \A q \in Packages, g \in Files, s \in Requests :
          <<q, g, s>> \in Results' <=> <<q, g, s>> \in Results \/ <<q, g, s>> = <<p, f, r>>
    <3> SUFFICES ASSUME NEW q \in Packages, NEW g \in Files, NEW s \in Requests
                 PROVE  <<q, g, s>> \in Results' <=>
                          <<q, g, s>> \in Results \/ <<q, g, s>> = <<p, f, r>>
      OBVIOUS
    <3>1. CASE q = p /\ g = f /\ s = r
      BY <1>3, <1>4, <3>1
    <3>2. CASE ~(q = p /\ g = f /\ s = r)
      BY <1>3, <3>2
    <3> QED
      BY <3>1, <3>2
  <2> QED
    BY <1>2, <2>1, <2>2, TriplesEqual
<1>5. ASSUME stage'[r][f] \notin Unstored
      PROVE  Results' = Results \ {<<p, f, r>>}
  <2>1. Results \ {<<p, f, r>>} \in SUBSET (Packages \X Files \X Requests)
    BY <1>2
  <2>2. \A q \in Packages, g \in Files, s \in Requests :
          <<q, g, s>> \in Results' <=> <<q, g, s>> \in Results \ {<<p, f, r>>}
    BY <1>3, <1>5
  <2> QED
    BY <1>2, <2>1, <2>2, TriplesEqual
<1> QED
  BY <1>4, <1>5

-----------------------------------------------------------------------------
(* One step of the service, one step of the ledger or none                 *)

(* A completion gives the file up, with a result if there is one; that the *)
(* result is stamped later the ledger does not see.                        *)
LEMMA CompletionReleases ==
  ASSUME IInv, IInv', NEW r \in Requests, RecordCompletion(r)
  PROVE  \E p \in Packages, f \in Files : Ledger!Release(r, p, f)
<1>1. PICK p : p = PackageOf(r)
  OBVIOUS
<1>2. PICK f : f = active[r]
  OBVIOUS
<1>3. /\ f \in Files
      /\ \/ stage[r][f] = "fetched" /\ stage'[r][f] = "unstamped"
         \/ stage[r][f] = "failed" /\ stage'[r][f] = "error"
      /\ \A q \in Requests, g \in Files : q # r \/ g # f => stage'[q][g] = stage[q][g]
      /\ UNCHANGED <<query, entries>>
  BY <1>2, CompletionFacts DEF handler
<1>4. /\ stage[r][f] \in InRegistry /\ stage'[r][f] \notin InRegistry
      /\ stage[r][f] \notin Unstored
      /\ \A q \in Requests, g \in Files : q # r \/ g # f =>
           (stage'[q][g] \in InRegistry <=> stage[q][g] \in InRegistry)
      /\ \A q \in Requests, g \in Files : q # r \/ g # f =>
           (stage'[q][g] \in Unstored <=> stage[q][g] \in Unstored)
  BY <1>3 DEF InRegistry, Waiting, Unstored
<1>5. p \in Packages
  BY <1>1, QueryFacts DEF IInv
<1>6. Owner[p][f] = r /\ Owner' = [Owner EXCEPT ![p][f] = None]
  BY <1>1, <1>3, <1>4, OwnerGone
<1>7. Results' = Results \/ Results' = Results \cup {<<p, f, r>>}
  <2>1. CASE stage'[r][f] \in Unstored
    BY <1>1, <1>3, <1>4, <1>5, <2>1, ResultsMove
  <2>2. CASE stage'[r][f] \notin Unstored
    <3>1. \A q \in Requests, g \in Files : stage'[q][g] \in Unstored <=> stage[q][g] \in Unstored
      BY <1>4, <2>2
    <3> QED
      BY <1>3, <3>1, SameResults
  <2> QED
    BY <2>1, <2>2
<1>8. UNCHANGED [q \in Packages |-> Stored(q)]
  BY <1>3, SameStored
<1>9. Ledger!Release(r, p, f)
  BY <1>6, <1>7, <1>8 DEF Ledger!Release
<1> QED
  BY <1>3, <1>5, <1>9

(* A result that stops being one, while everything else stays as it was.   *)
LEMMA ResultGoes ==
  ASSUME IInv, IInv', NEW r \in Requests, NEW f \in Files, NEW p, p = PackageOf(r),
         UNCHANGED query, stage[r][f] \in Unstored,
         stage'[r][f] \in {"saved", "lost", "dropped"},
         \A q \in Requests, g \in Files : q # r \/ g # f =>
           /\ stage'[q][g] \in InRegistry <=> stage[q][g] \in InRegistry
           /\ stage'[q][g] \in Unstored <=> stage[q][g] \in Unstored
  PROVE  /\ p \in Packages
         /\ <<p, f, r>> \in Results
         /\ Results' = Results \ {<<p, f, r>>}
         /\ UNCHANGED Owner
<1>1. p \in Packages
  BY QueryFacts DEF IInv
<1>2. <<p, f, r>> \in Results
  BY <1>1, ResultsFacts DEF ResultsUnsaved
<1>3. \A q \in Requests, g \in Files :
        stage'[q][g] \in InRegistry <=> stage[q][g] \in InRegistry
  BY DEF InRegistry, Waiting, Unstored
<1>4. UNCHANGED Owner
  BY <1>3, SameOwners
<1>5. stage'[r][f] \notin Unstored
  BY DEF Unstored
<1>6. Results' = Results \ {<<p, f, r>>}
  BY <1>1, <1>5, ResultsMove
<1> QED
  BY <1>1, <1>2, <1>4, <1>6

(* The insert stores the result; without a connection it is lost.          *)
LEMMA PersistStores ==
  ASSUME IInv, IInv', NEW r \in Requests, Persist(r) \/ PersistTimeout(r)
  PROVE  \E p \in Packages, f \in Files : Ledger!Store(r, p, f) \/ Ledger!Lose(r, p, f)
<1>1. PICK p : p = PackageOf(r)
  OBVIOUS
<1>2. PICK f : f = active[r]
  OBVIOUS
<1>3. /\ f \in Files /\ stage[r][f] = "unsaved"
      /\ \/ /\ stage'[r][f] = "saved"
            /\ entries' = [entries EXCEPT ![p] = @ \cup {RowOf(r, f)}]
         \/ stage'[r][f] = "lost" /\ UNCHANGED entries
      /\ \A q \in Requests, g \in Files : q # r \/ g # f => stage'[q][g] = stage[q][g]
      /\ UNCHANGED query
  BY <1>1, <1>2, PersistFacts DEF handler
<1>4. /\ p \in Packages
      /\ <<p, f, r>> \in Results
      /\ Results' = Results \ {<<p, f, r>>}
      /\ UNCHANGED Owner
  BY <1>1, <1>3, ResultGoes DEF Unstored
<1>5. CASE entries' = [entries EXCEPT ![p] = @ \cup {RowOf(r, f)}]
  <2> DEFINE stored == [q \in Packages |-> Stored(q)]
  <2>1. RowOf(r, f).file = f
    BY DEF RowOf
  <2>2. /\ entries'[p] = entries[p] \cup {RowOf(r, f)}
        /\ \A q \in Packages : q # p => entries'[q] = entries[q]
    BY <1>4, <1>5 DEF IInv, TypeOK
  <2>3. \A q \in Packages : Stored(q)' = IF q = p THEN Stored(q) \cup {f} ELSE Stored(q)
    BY <2>1, <2>2 DEF Stored
  <2>4. stored' = [q \in Packages |-> IF q = p THEN Stored(q) \cup {f} ELSE Stored(q)]
    BY <2>3
  <2>5. stored' = [stored EXCEPT ![p] = @ \cup {f}]
    BY <1>4, <2>4
  <2>6. Ledger!Store(r, p, f)
    BY <1>4, <2>5 DEF Ledger!Store
  <2> QED
    BY <1>3, <1>4, <2>6
<1>6. CASE UNCHANGED entries
  <2>1. Ledger!Lose(r, p, f)
    BY <1>4, <1>6, SameStored DEF Ledger!Lose
  <2> QED
    BY <1>3, <1>4, <2>1
<1> QED
  BY <1>3, <1>5, <1>6

(* A panic loses the result the job is about to store, if there is one; the*)
(* files it was still computing keep their owner.                          *)
LEMMA FailureLoses ==
  ASSUME IInv, IInv', RowInv, NEW r \in Requests, Failure(r)
  PROVE  \/ \E p \in Packages, f \in Files : Ledger!Lose(r, p, f)
         \/ UNCHANGED Ledger!vars
<1>1. /\ \A q \in Requests : q # r => stage'[q] = stage[q]
      /\ \A f \in Files :
           stage'[r][f] = IF stage[r][f] \in Waiting THEN "leaked"
                          ELSE IF stage[r][f] \in Unstored THEN "dropped" ELSE stage[r][f]
      /\ UNCHANGED <<query, entries>>
  BY FailureFacts
<1>2. \A q \in Requests, g \in Files :
        stage'[q][g] \in InRegistry <=> stage[q][g] \in InRegistry
  BY <1>1 DEF InRegistry, Waiting, Unstored
<1>3. CASE \E f \in Files : stage[r][f] \in Unstored
  <2>1. PICK f \in Files : stage[r][f] \in Unstored
    BY <1>3
  <2>2. PICK p : p = PackageOf(r)
    OBVIOUS
  <2>3. \A g \in Files : g # f => stage[r][g] \notin Unstored
    BY <2>1 DEF RowInv, OneUnsavedResult
  <2>4. \A q \in Requests, g \in Files : q # r \/ g # f =>
          (stage'[q][g] \in Unstored <=> stage[q][g] \in Unstored)
    BY <1>1, <2>3 DEF Waiting, Unstored
  <2>5. stage'[r][f] = "dropped"
    BY <1>1, <2>1 DEF Waiting, Unstored
  <2>6. /\ p \in Packages
        /\ <<p, f, r>> \in Results
        /\ Results' = Results \ {<<p, f, r>>}
        /\ UNCHANGED Owner
    BY <1>1, <1>2, <2>1, <2>2, <2>4, <2>5, ResultGoes
  <2>7. Ledger!Lose(r, p, f)
    BY <1>1, <2>6, SameStored DEF Ledger!Lose
  <2> QED
    BY <2>1, <2>6, <2>7
<1>4. CASE \A f \in Files : stage[r][f] \notin Unstored
  <2>1. \A q \in Requests, g \in Files : stage'[q][g] \in Unstored <=> stage[q][g] \in Unstored
    BY <1>1, <1>4 DEF Waiting, Unstored
  <2> QED
    BY <1>1, <1>2, <2>1, Stutter
<1> QED
  BY <1>3, <1>4

(* With the process go its claims and its results.                         *)
LEMMA CrashRestarts ==
  ASSUME IInv, IInv', Crash
  PROVE  Ledger!Restart
<1>1. /\ \A r \in Requests, f \in Files :
           stage'[r][f] = IF stage[r][f] \in Pending \cup {"leaked"} THEN "dropped"
                          ELSE stage[r][f]
      /\ UNCHANGED <<query, entries>>
  BY CrashFacts DEF IInv
<1>2. \A r \in Requests, f \in Files :
        stage'[r][f] \notin InRegistry /\ stage'[r][f] \notin Unstored
  BY <1>1 DEF Pending, InRegistry, Waiting, Unstored
<1> DEFINE free == [p \in Packages |-> [f \in Files |-> None]]
<1>3. OwnersWait' /\ ResultsUnsaved'
  BY OwnerFactsNext, ResultsFactsNext
<1>4. Owner' \in [Packages -> [Files -> Requests \cup {None}]]
  BY <1>3 DEF OwnersWait
<1>5. \A p \in Packages, f \in Files : Owner'[p][f] = None
  BY <1>2, <1>3, <1>4 DEF OwnersWait
<1>6. free \in [Packages -> [Files -> Requests \cup {None}]]
  OBVIOUS
<1>7. \A p \in Packages, f \in Files : Owner'[p][f] = free[p][f]
  BY <1>5
<1>8. Owner' = free
  <2> HIDE DEF free
  <2> QED
    BY <1>4, <1>6, <1>7, TableEqual
<1>9. Results' = {}
  <2>1. \A p \in Packages, f \in Files, r \in Requests : <<p, f, r>> \notin Results'
    BY <1>2, <1>3 DEF ResultsUnsaved
  <2>2. Results' \in SUBSET (Packages \X Files \X Requests)
    BY <1>3 DEF ResultsUnsaved
  <2> QED
    BY <2>1, <2>2, TriplesEqual
<1> QED
  BY <1>1, <1>8, <1>9, SameStored DEF Ledger!Restart

LEMMA LedgerStep ==
  IInv /\ IInv' /\ RowInv /\ [Next]_vars => [Ledger!Next]_(Ledger!vars)
<1> SUFFICES ASSUME IInv, IInv', RowInv, [Next]_vars
             PROVE  [Ledger!Next]_(Ledger!vars)
  OBVIOUS
<1> USE DEF handler, registry, job
<1>1. CASE UNCHANGED <<query, stage, entries>>
  BY <1>1, Stutter
<1>2. ASSUME NEW r \in Requests, ListFiles(r) \/ LockRegistry(r)
      PROVE  [Ledger!Next]_(Ledger!vars)
  BY <1>1, <1>2 DEF ListFiles, LockRegistry
<1>3. ASSUME NEW r \in Requests, BuildTasks(r)
      PROVE  [Ledger!Next]_(Ledger!vars)
  <2>1. PICK S \in SUBSET Files : Ledger!Claim(r, PackageOf(r), S)
    BY <1>3, BuildTasksClaims
  <2>2. PackageOf(r) \in Packages
    BY QueryFacts DEF IInv
  <2> QED
    BY <2>1, <2>2 DEF Ledger!Next
<1>4. ASSUME NEW r \in Requests, NEW f \in Files, Fetch(r, f)
      PROVE  [Ledger!Next]_(Ledger!vars)
  <2>1. /\ stage[r][f] = "fetching" /\ stage'[r][f] \in {"fetched", "failed"}
        /\ \A q \in Requests, g \in Files : q # r \/ g # f => stage'[q][g] = stage[q][g]
        /\ UNCHANGED <<query, entries>>
    BY <1>4, FetchFacts
  <2>2. \A q \in Requests, g \in Files :
          /\ stage'[q][g] \in InRegistry <=> stage[q][g] \in InRegistry
          /\ stage'[q][g] \in Unstored <=> stage[q][g] \in Unstored
    BY <2>1 DEF InRegistry, Waiting, Unstored
  <2> QED
    BY <2>1, <2>2, Stutter
<1>5. ASSUME NEW r \in Requests, NEW f \in Files, Poll(r, f)
      PROVE  [Ledger!Next]_(Ledger!vars)
  BY <1>1, <1>5 DEF Poll
<1>6. ASSUME NEW r \in Requests, RecordCompletion(r)
      PROVE  [Ledger!Next]_(Ledger!vars)
  BY <1>6, CompletionReleases DEF Ledger!Next
<1>11. ASSUME NEW r \in Requests, Stamp(r)
      PROVE  [Ledger!Next]_(Ledger!vars)
  <2>1. PICK f : f = active[r]
    OBVIOUS
  <2>2. /\ stage[r][f] = "unstamped" /\ stage'[r][f] = "unsaved"
        /\ \A q \in Requests, g \in Files : q # r \/ g # f => stage'[q][g] = stage[q][g]
        /\ UNCHANGED <<query, entries>>
    BY <1>11, <2>1, StampFacts
  <2>3. \A q \in Requests, g \in Files :
          /\ stage'[q][g] \in InRegistry <=> stage[q][g] \in InRegistry
          /\ stage'[q][g] \in Unstored <=> stage[q][g] \in Unstored
    BY <2>2 DEF InRegistry, Waiting, Unstored
  <2> QED
    BY <2>2, <2>3, Stutter
<1>7. ASSUME NEW r \in Requests, Persist(r) \/ PersistTimeout(r)
      PROVE  [Ledger!Next]_(Ledger!vars)
  BY <1>7, PersistStores DEF Ledger!Next
<1>8. ASSUME NEW r \in Requests, Failure(r)
      PROVE  [Ledger!Next]_(Ledger!vars)
  BY <1>8, FailureLoses DEF Ledger!Next
<1>9. ASSUME NEW p \in Packages, NEW S \in SUBSET Files, NEW n \in 1..MaxRevision,
             Commit(p, S, n)
      PROVE  [Ledger!Next]_(Ledger!vars)
  BY <1>1, <1>9 DEF Commit
<1>10. CASE Crash
  BY <1>10, CrashRestarts DEF Ledger!Next
<1> QED
  BY <1>1, <1>2, <1>3, <1>4, <1>5, <1>6, <1>7, <1>8, <1>9, <1>10, <1>11, Steps

LEMMA LedgerInit == Init => Ledger!Init
<1> SUFFICES ASSUME Init PROVE Ledger!Init
  OBVIOUS
<1>1. Owner = [p \in Packages |-> [f \in Files |-> None]]
  BY DEF Init, Owner, InProgress
<1>2. Results = {}
  BY DEF Init, Results, Unstored
<1>3. [p \in Packages |-> Stored(p)] = [p \in Packages |-> {}]
  BY DEF Init, Stored
<1> QED
  BY <1>1, <1>2, <1>3 DEF Ledger!Init

(* StatsService implements TaskLedger: with the registry, the results not  *)
(* yet in the table and the table read as owner, results and stored,       *)
(* every behaviour of the service is one of the ledger, so no file ever    *)
(* has two owners and no claim is ever stored twice.                       *)
THEOREM Implementation == Spec => LedgerSpec
<1>1. IInv /\ IInv' /\ RowInv /\ [Next]_vars => [Ledger!Next]_(Ledger!vars)
  BY LedgerStep
<1> QED
  BY <1>1, LedgerInit, Invariant, RowInvariant, PTL DEF Spec, LedgerSpec, Ledger!Spec
=============================================================================
