---------------------------- MODULE TaskLedger ----------------------------
(***************************************************************************)
(* What the registry of tasks, seen from outside, promises: single flight. *)
(* A file of a package has at most one owner; only the owner's result of a *)
(* claim can reach the table, once for each claim; an owner that is gone   *)
(* has left a result, failed, or died with the process.                    *)
(***************************************************************************)
CONSTANTS
  Requests,   \* who may claim
  Packages,
  Files,
  None        \* no owner

VARIABLES
  owner,      \* the request computing a file of a package, or None
  results,    \* results computed and not stored yet
  stored      \* the files of each package with a row

vars == <<owner, results, stored>>

Init ==
  /\ owner = [p \in Packages |-> [f \in Files |-> None]]
  /\ results = {}
  /\ stored = [p \in Packages |-> {}]

(* One request becomes the owner of files nobody owns, all at once.        *)
Claim(r, p, S) ==
  /\ \A f \in S : owner[p][f] = None
  /\ \A f \in Files : owner[p][f] # r
  /\ owner' = [owner EXCEPT ![p] = [f \in Files |-> IF f \in S THEN r ELSE @[f]]]
  /\ UNCHANGED <<results, stored>>

(* The owner gives a file up, with a result or without.                    *)
Release(r, p, f) ==
  /\ owner[p][f] = r
  /\ owner' = [owner EXCEPT ![p][f] = None]
  /\ results' = results \/ results' = results \cup {<<p, f, r>>}
  /\ UNCHANGED stored

(* A result is stored.                                                     *)
Store(r, p, f) ==
  /\ <<p, f, r>> \in results
  /\ results' = results \ {<<p, f, r>>}
  /\ stored' = [stored EXCEPT ![p] = @ \cup {f}]
  /\ UNCHANGED owner

(* A result is not stored and never will be.                               *)
Lose(r, p, f) ==
  /\ <<p, f, r>> \in results
  /\ results' = results \ {<<p, f, r>>}
  /\ UNCHANGED <<owner, stored>>

(* The process starts again with nothing but the table.                    *)
Restart ==
  /\ owner' = [p \in Packages |-> [f \in Files |-> None]]
  /\ results' = {}
  /\ UNCHANGED stored

Next ==
  \/ \E r \in Requests, p \in Packages :
       \/ \E S \in SUBSET Files : Claim(r, p, S)
       \/ \E f \in Files : Release(r, p, f) \/ Store(r, p, f) \/ Lose(r, p, f)
  \/ Restart

Spec == Init /\ [][Next]_vars
=============================================================================
