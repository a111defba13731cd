-------------------------------- MODULE MCLive ---------------------------------
(***************************************************************************)
(* What must eventually happen, on small instances: a session that waits   *)
(* for its tasks (VoxaSession), the queue that admits builds               *)
(* (BuildAdmission), and the runs that write through one directory         *)
(* (WorkspaceSync), each with the fairness it states.  They share no state *)
(* in these models; a behaviour is of one of them, chosen at its start.    *)
(***************************************************************************)
EXTENDS BuildAdmission, WorkspaceSync

CONSTANTS
    Coroutines, Taskers,    \* requests and workers of the session
    Blueprints, Bots, None,
    MaxCalls                \* bound: API calls about the session

VARIABLES
    part,       \* whose behaviour this is
    physical, status, transcript, edited, blueprint, bots, sessionBot, purges,
    tasks, call, requests, crashes, unmarked

sessionVars == <<physical, status, transcript, edited, blueprint, bots, sessionBot,
                 purges, tasks, call, requests, crashes, unmarked>>

Voxa == INSTANCE VoxaSession WITH
    Requests <- Coroutines, Workers <- Taskers, MaxRequests <- MaxCalls, queue <- tasks,
    GenerateRetries <- 1, ConnectorRetries <- 1, SoftLimit <- FALSE, MaxCrashes <- 1

Of(p, next, its) == IF part = p THEN next ELSE UNCHANGED its

LiveInit ==
    /\ part \in {"session", "admission", "sync"}
    /\ Voxa!Init /\ AdmissionInit /\ SyncInit
    /\ part # "session" => physical

LiveNext ==
    /\ UNCHANGED part
    /\ Of("session", Voxa!Next, sessionVars)
    /\ Of("admission", AdmissionNext, admissionVars)
    /\ Of("sync", SyncNext, syncVars)

LiveSpec ==
    /\ LiveInit /\ [][LiveNext]_<<part, sessionVars, admissionVars, syncVars>>
    /\ Voxa!Fairness /\ AdmissionFairness /\ SyncFairness

\* A queued generation settles (GenerateSettles of VoxaSession).
GenerateSettles == Voxa!GenerateSettles
===============================================================================
