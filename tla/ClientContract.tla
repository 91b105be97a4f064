--------------------------- MODULE ClientContract ---------------------------
(***************************************************************************)
(* What openapi.yaml and the integration tests tell a client of the        *)
(* service, stated of the requests of StatsService, and the client those   *)
(* tests are: wait_for_ok of tests/common.rs, which repeats one GET, each  *)
(* after the answer to the one before.                                     *)
(***************************************************************************)
EXTENDS StatsService

(* The client has no request under way.                                    *)
BetweenRequests == \A r \in Requests : pc[r] \in {"idle", "replied"}

PollNext ==
  \/ \E r \in Requests :
       \/ BetweenRequests /\ Arrive(r)
       \/ Handler(r) \/ Job(r) \/ Failure(r)
  \/ Environment
  \/ Finished

PollSpec == Init /\ [][PollNext]_vars

-----------------------------------------------------------------------------

Answers(r, status) == pc[r] # "replied" /\ pc'[r] = "replied" /\ reply'[r].status = status

(* The files a request asks for that get statistics when nothing fails.    *)
Wanted(r) == {f \in Listed(r) : KindOf[f] # Unrecognized /\ Matches(r, f)}

(* tests/get.rs, module_stats: an OK with nothing in progress has the      *)
(* statistics of every file.                                               *)
OkIsComplete ==
  \A r \in Requests :
    reply[r].status = 200 /\ reply[r].in_progress = {} => reply[r].stats = Wanted(r)

(* openapi.yaml, StatsAlreadyInProgress, "Package statistics already in    *)
(* progress": when 429 is answered, a job is still computing a file of the *)
(* package.                                                                *)
AlreadyInProgress ==
  [][\A r \in Requests : Answers(r, 429) =>
       \E q \in Requests, f \in Files :
         PackageOf(q) = PackageOf(r) /\ stage[q][f] \in Waiting]_vars
=============================================================================
