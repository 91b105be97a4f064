--------------------------- MODULE MCStatsService ---------------------------
(***************************************************************************)
(* Small instances of StatsService: the packages, their files and the      *)
(* queries a run lets its clients make.                                    *)
(***************************************************************************)
EXTENDS StatsService, TLC

CONSTANTS p1, p2, lexc, twol, f1, f2, f3, f4

(* The package p1 has two lexc files, one of them in a subdirectory, and a *)
(* twol file; p2 a lexc file and one no parser recognizes.                 *)
AllKinds  == f1 :> lexc @@ f2 :> lexc @@ f3 :> twol @@ f4 :> Unrecognized
BothTrees == p1 :> {f1, f2, f3} @@ p2 :> {f1, f4}

(* One package with a lexc file, and possibly a twol file.                 *)
FewKinds == [f \in Files |-> IF f = f1 THEN lexc ELSE twol]
FewTrees == [p \in Packages |-> Files]

Subdirectory == Files \cap {f2}

Ask(method, package, kind, async, recursive) ==
  [method |-> method, package |-> package, kind |-> kind,
   async |-> async, recursive |-> recursive]

(* With and without a kind, a waiting client, a listing of the top         *)
(* directory only, another package, a kind that package has not.           *)
RouteQueries ==
  {Ask("GET", p1, AnyKind, TRUE, FALSE), Ask("POST", p1, lexc, TRUE, TRUE),
   Ask("POST", p1, lexc, FALSE, FALSE), Ask("GET", p2, twol, TRUE, TRUE),
   Ask("POST", p2, AnyKind, TRUE, FALSE)}

(* Every failure meets a GET that computes on the handler's own thread and *)
(* a POST whose job runs on the runtime's.                                 *)
MixedQueries ==
  {Ask("GET", p1, AnyKind, FALSE, TRUE), Ask("POST", p1, AnyKind, TRUE, TRUE)}

RequestSymmetry == Permutations(Requests)
=============================================================================
