--------------------------- MODULE BuildAdmission ---------------------------
(***************************************************************************)
(* Admission control of the build queue.                                   *)
(*                                                                         *)
(* dispatch() (app/core/dispatch.py) asks ensure_build_capacity()          *)
(* (app/core/backpressure.py) whether the queue is below its maximum       *)
(* depth, and enqueues the task in a later await: between the two, other   *)
(* requests are admitted against the same depth.  Workers enqueue the      *)
(* follow-up of a task, and beat the daily cleanup, with no check at all.  *)
(* A build task is acknowledged when it is taken and has no retries, so    *)
(* the loss of a worker loses its task: Finish stands for both.            *)
(***************************************************************************)
EXTENDS Naturals, Sequences, FiniteSets

CONSTANTS
    Requests,       \* concurrent API coroutines
    Workers,        \* worker processes of the build queue
    MaxDepth,       \* BUILD_QUEUE_MAX_DEPTH; 0 disables the check
    MaxUnchecked    \* bound: unchecked tasks between two successful probes

ASSUME AdmissionAssumption ==
    /\ IsFiniteSet(Requests) /\ IsFiniteSet(Workers)
    /\ MaxDepth \in Nat /\ MaxUnchecked \in Nat

\* What the endpoints dispatch to the queue.
Jobs == {"prompt", "build", "update", "preview", "publish"}
\* What a worker dispatches when the job is done: build_from_prompt starts
\* the build it has designed, apply_update the preview of what it pushed.
Follows == [prompt |-> "build", update |-> "preview"]
Chaining == {"prompt", "update"}

VARIABLES
    queue,     \* the tasks waiting in the broker's list, oldest first
    admitted,  \* per request: the job it is about to enqueue, or "none"
    running,   \* per worker: its job; "closing" after its follow-up, or "idle"
    unchecked  \* tasks enqueued without a probe since one last found room

admissionVars == <<queue, admitted, running, unchecked>>

AdmissionTypeOK ==
    /\ queue \in Seq(Jobs \cup {"cleanup"})
    /\ admitted \in [Requests -> Jobs \cup {"none"}]
    /\ running \in [Workers -> Jobs \cup {"cleanup", "closing", "idle"}]
    /\ unchecked \in Nat

AdmissionInit ==
    /\ queue = <<>>
    /\ admitted = [r \in Requests |-> "none"]
    /\ running = [w \in Workers |-> "idle"]
    /\ unchecked = 0

-----------------------------------------------------------------------------
\* Variant: the depth is probed but the answer is not used.
AdmitAnyway(r, job) ==
    /\ admitted[r] = "none"
    /\ admitted' = [admitted EXCEPT ![r] = job]
    /\ unchecked' = 0
    /\ UNCHANGED <<queue, running>>

\* The probe finds room; a request that finds none is answered with 429.
Admit(r, job) ==
    /\ admitted[r] = "none"
    /\ MaxDepth = 0 \/ Len(queue) < MaxDepth
    /\ admitted' = [admitted EXCEPT ![r] = job]
    /\ unchecked' = 0
    /\ UNCHANGED <<queue, running>>

\* The probe fails and the request goes on as if there were room.
AdmitBlind(r, job) ==
    /\ admitted[r] = "none" /\ MaxDepth > 0 /\ unchecked < MaxUnchecked
    /\ admitted' = [admitted EXCEPT ![r] = job]
    /\ unchecked' = unchecked + 1
    /\ UNCHANGED <<queue, running>>

\* apply_async in a thread: the broker takes the task ...
Enqueue(r) ==
    /\ admitted[r] # "none"
    /\ queue' = Append(queue, admitted[r])
    /\ admitted' = [admitted EXCEPT ![r] = "none"]
    /\ UNCHANGED <<running, unchecked>>

\* ... or cannot be reached, and the request is answered with an error.
EnqueueFails(r) ==
    /\ admitted[r] # "none"
    /\ admitted' = [admitted EXCEPT ![r] = "none"]
    /\ UNCHANGED <<queue, running, unchecked>>

\* beat enqueues cleanup_workspaces once a day.
Beat ==
    /\ unchecked < MaxUnchecked
    /\ queue' = Append(queue, "cleanup")
    /\ unchecked' = unchecked + 1
    /\ UNCHANGED <<admitted, running>>

\* "Take one, finish it, take the next": a prefetch multiplier of 1.
Take(w) ==
    /\ running[w] = "idle" /\ queue # <<>>
    /\ running' = [running EXCEPT ![w] = Head(queue)]
    /\ queue' = Tail(queue)
    /\ UNCHANGED <<admitted, unchecked>>

\* Variant: a follow-up is of the kind of the task that enqueued it.
FollowUpInKind(w) ==
    /\ running[w] \in Chaining
    /\ queue' = Append(queue, running[w])
    /\ running' = [running EXCEPT ![w] = "closing"]
    /\ UNCHANGED <<admitted, unchecked>>

FollowUp(w) ==
    /\ running[w] \in Chaining
    /\ queue' = Append(queue, Follows[running[w]])
    /\ running' = [running EXCEPT ![w] = "closing"]
    /\ UNCHANGED <<admitted, unchecked>>

Finish(w) ==
    /\ running[w] # "idle"
    /\ running' = [running EXCEPT ![w] = "idle"]
    /\ UNCHANGED <<queue, admitted, unchecked>>

AdmissionNext ==
    \/ \E r \in Requests :
         \/ \E job \in Jobs : Admit(r, job) \/ AdmitBlind(r, job)
         \/ Enqueue(r) \/ EnqueueFails(r)
    \/ \E w \in Workers : Take(w) \/ FollowUp(w) \/ Finish(w)
    \/ Beat

AdmissionSpec == AdmissionInit /\ [][AdmissionNext]_admissionVars

\* A worker takes tasks as long as there are any, and every job ends: builds
\* and updates have a bounded number of turns, and every call a timeout.
AdmissionFairness ==
    \A w \in Workers : WF_admissionVars(Take(w)) /\ WF_admissionVars(Finish(w))
FairAdmission == AdmissionSpec /\ AdmissionFairness

-----------------------------------------------------------------------------
Admitting == {r \in Requests : admitted[r] # "none"}
ToFollow == {w \in Workers : running[w] \in Chaining}

\* Everything that is in the queue or may enter it without another probe.
Committed == Len(queue) + Cardinality(Admitting) + Cardinality(ToFollow)

Slack == Cardinality(Requests) + Cardinality(Workers)

\* The check is not atomic with the enqueue and workers bypass it, yet the
\* backlog cannot run away: it exceeds the maximum by at most one task per
\* concurrent request, one follow-up per worker and the unchecked tasks.
BacklogBounded ==
    MaxDepth > 0 => Len(queue) < MaxDepth + Slack + unchecked

\* The inductive form: the tasks already committed count as well.
CommittedBounded ==
    MaxDepth > 0 => Committed < MaxDepth + Slack + unchecked

\* A queue that rejects requests takes them again: what workers add on
\* their own does not keep it full for ever.
Reopens == Len(queue) >= MaxDepth ~> Len(queue) < MaxDepth
=============================================================================
