-------------------------- MODULE MCClientContract --------------------------
(* Instances of ClientContract, with the constants of MCStatsService.      *)
EXTENDS ClientContract, MCStatsService

(* The endpoint wait_for_ok polls.                                         *)
PollQueries == {Ask("GET", p1, AnyKind, TRUE, TRUE)}

(* Requests that share no file.                                            *)
ApartQueries ==
  {Ask("POST", p1, lexc, TRUE, TRUE), Ask("POST", p1, twol, TRUE, TRUE),
   Ask("POST", p2, lexc, TRUE, TRUE)}
=============================================================================
