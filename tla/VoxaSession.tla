----------------------------- MODULE VoxaSession -----------------------------
(***************************************************************************)
(* The life of one meeting session, from its creation to the build that    *)
(* its approved blueprint starts.                                          *)
(*                                                                         *)
(* The session document, its events and its blueprints live in Firestore,  *)
(* the bot mapping in Redis and the tasks in the Celery broker; what runs  *)
(* is a set of API coroutines (Requests) and a set of Celery worker        *)
(* processes (Workers).  Every await of a handler is a step of its own, so *)
(* the steps of two handlers interleave exactly where the code lets them:  *)
(* in particular MeetingStateMachine.transition reads the document in one  *)
(* step (Check) and writes it in a later one (Write).                      *)
(***************************************************************************)
EXTENDS MeetingStates, Naturals, FiniteSets

CONSTANTS
    Requests,         \* concurrent API coroutines
    Workers,          \* concurrent Celery worker processes
    Blueprints,       \* identities of blueprint documents
    Bots,             \* identities of Recall bots
    None,             \* no blueprint, no bot
    GenerateRetries,  \* max_retries of generate_blueprint
    ConnectorRetries, \* max_retries of dispatch_connector
    SoftLimit,        \* TRUE: an aggregation may outlast soft_time_limit
    MaxRequests,      \* bound: API calls taken in one behaviour
    MaxCrashes        \* bound: processes lost in one behaviour

ASSUME ConstantsAssumption ==
    /\ SoftLimit \in BOOLEAN
    /\ GenerateRetries \in Nat /\ ConnectorRetries \in Nat
    /\ MaxRequests \in Nat /\ MaxCrashes \in Nat
    /\ None \notin Blueprints \cup Bots
    /\ Requests \cap Workers = {}

Processes == Requests \cup Workers

\* The document no longer exists: sessions/{id} was deleted.
Gone == "GONE"

\* A task message: the task and the retries it has already had.
TaskNames == {"connect", "remove", "generate", "transcribe", "extract", "build"}
MaxRetries(name) == IF name = "connect" THEN ConnectorRetries
                    ELSE IF name = "generate" THEN GenerateRetries ELSE 0
Tasks == UNION {[name : {t}, retries : 0..MaxRetries(t)] : t \in TaskNames}
Task(name, n) == [name |-> name, retries |-> n]

\* Tasks declared with acks_late: a lost worker puts them back on the queue.
AcksLate == {"connect", "remove", "generate", "extract"}

VARIABLES
    physical,    \* the session's meeting is physical: no bot joins it
    status,      \* sessions/{id}.status, or Gone
    transcript,  \* the events sub-collection holds something to aggregate
    edited,      \* blueprints whose content changed after they were approved
    blueprint,   \* the blueprint documents: absent, draft or approved
    bots,        \* recall:bot:{bot}: see BotStates
    sessionBot,  \* recall:session:{id}
    purges,      \* bots whose media purge has been scheduled
    queue,       \* the tasks waiting in the broker, with their multiplicity
    call,        \* what each process is executing
    requests,    \* API calls taken so far
    crashes,     \* processes lost so far
    unmarked     \* history: a write of FAILED raised and was swallowed

store == <<transcript, edited, blueprint>>
redis == <<bots, sessionBot, purges>>
bounds == <<requests, crashes, unmarked>>
moving == <<status, store, redis, queue, call, bounds>>
vars == <<physical, moving>>

Operations == TaskNames \cup
    {"idle", "join", "startLive", "end", "upload", "regenerate", "delete",
     "approve", "patch", "botStatus", "botEnd"}

\* A bot Recall never created, one that joins but whose key is not stored, one
\* whose key is there, whose key lived out its 24 h, and whose key was deleted.
BotStates == {"unborn", "unstored", "mapped", "lapsed", "forgotten"}

\* Where a call stands: the await it is about to complete.
Points == {"idle", "own", "check", "write", "then", "save", "twin", "mark",
           "store", "map", "purge", "forget", "wipe", "drop", "ack"}

Calls == [op : Operations, at : Points, to : Status,
          arg : Blueprints \cup Bots \cup {None}, retries : Nat]

Begin(op, at, to, arg, n) ==
    [op |-> op, at |-> at, to |-> to, arg |-> arg, retries |-> n]
Idle == Begin("idle", "idle", "WAITING", None, 0)

At(p, point) == call[p].at = point
Running(p, op, point) == call[p].op = op /\ call[p].at = point
Goto(p, point) == call' = [call EXCEPT ![p].at = point]
Finish(p) == call' = [call EXCEPT ![p] = Idle]

With(q, name, n) == [q EXCEPT ![Task(name, n)] = @ + 1]
Enqueue(name) == queue' = With(queue, name, 0)

\* Celery's self.retry: the same task again, one more retry on its count.
Retry(p) == queue' = With(queue, call[p].op, call[p].retries + 1)
CanRetry(p) == call[p].retries < MaxRetries(call[p].op)

HasBlueprint == \E b \in Blueprints : blueprint[b] # "absent"
HasApproved == \E b \in Blueprints : blueprint[b] = "approved"

Typed ==
    /\ status \in Status \cup {Gone}
    /\ transcript \in BOOLEAN
    /\ edited \subseteq Blueprints
    /\ blueprint \in [Blueprints -> {"absent", "draft", "approved"}]
    /\ bots \in [Bots -> BotStates]
    /\ sessionBot \in Bots \cup {None}
    /\ purges \subseteq Bots
    /\ queue \in [Tasks -> Nat]
    /\ call \in [Processes -> Calls]
    /\ requests \in Nat /\ crashes \in Nat /\ unmarked \in BOOLEAN

TypeOK == Typed /\ physical \in BOOLEAN

\* create_session has written the document in WAITING.
Init ==
    /\ physical \in BOOLEAN
    /\ status = "WAITING"
    /\ transcript = FALSE
    /\ edited = {}
    /\ blueprint = [b \in Blueprints |-> "absent"]
    /\ bots = [b \in Bots |-> "unborn"]
    /\ sessionBot = None
    /\ purges = {}
    /\ queue = [t \in Tasks |-> 0]
    /\ call = [p \in Processes |-> Idle]
    /\ requests = 0 /\ crashes = 0 /\ unmarked = FALSE

-----------------------------------------------------------------------------
(***************************************************************************)
(* Requests.  The first read of a handler and the guards it evaluates on   *)
(* it are the step that takes the request; a request whose guards fail is  *)
(* answered with an error and changes nothing.                             *)
(***************************************************************************)
Accept(r, c) ==
    /\ call[r] = Idle /\ requests < MaxRequests
    /\ requests' = requests + 1
    /\ call' = [call EXCEPT ![r] = c]
    /\ UNCHANGED <<status, store, redis, queue, crashes, unmarked>>

Transition(r, op, to) == Accept(r, Begin(op, "check", to, None, 0))

Join(r) == status # Gone /\ Transition(r, "join", "JOINING")

StartLive(r) ==
    physical /\ status = "WAITING" /\ Transition(r, "startLive", "LISTENING")

Upload(r) ==
    physical /\ status = "WAITING" /\ Transition(r, "upload", "PROCESSING")

EndSession(r) == status \in Endable /\ Transition(r, "end", "PROCESSING")

Regenerate(r) == status = "FAILED" /\ Transition(r, "regenerate", "PROCESSING")

DeleteSession(r) ==
    status # Gone /\ Accept(r, Begin("delete", "wipe", "WAITING", None, 0))

\* approve_blueprint skips the transition of a session already APPROVED.
Approve(r) ==
    /\ status # Gone
    /\ \E b \in Blueprints :
         /\ blueprint[b] # "absent"
         /\ Accept(r, Begin("approve",
                            IF status = "APPROVED" THEN "save" ELSE "check",
                            "APPROVED", b, 0))

PatchBlueprint(r) ==
    /\ status # Gone
    /\ \E b \in Blueprints :
         /\ blueprint[b] = "draft"
         /\ Accept(r, Begin("patch", "save", "WAITING", b, 0))

\* A lifecycle webhook of a bot that Redis maps to the session.  Recall may
\* deliver the events late, repeated and out of order.
BotStatus(r) ==
    \E b \in Bots, to \in {"JOINING", "LISTENING"} :
        bots[b] = "mapped" /\ Accept(r, Begin("botStatus", "check", to, b, 0))

BotEnd(r) ==
    \E b \in Bots :
        /\ bots[b] = "mapped"
        /\ Accept(r, Begin("botEnd", "own", "PROCESSING", b, 0))

\* end_session_from_bot reads the session and goes on only if it is endable.
BotEndReads(r) ==
    /\ Running(r, "botEnd", "own")
    /\ Goto(r, IF status \in Endable THEN "check" ELSE "purge")
    /\ UNCHANGED <<status, store, redis, queue, bounds>>

-----------------------------------------------------------------------------
(***************************************************************************)
(* MeetingStateMachine.transition: get() and the test of the graph, then   *)
(* update().  What an exception does depends on who called it.             *)
(***************************************************************************)
\* Variant: the last failed attempt returns without marking the session.
GenerateFailsSilently(p) ==
    IF call[p].op # "transcribe" /\ CanRetry(p) THEN Retry(p) /\ Finish(p)
    ELSE Finish(p) /\ UNCHANGED queue

\* generate_blueprint's handler for any Exception: retry, or mark FAILED when
\* the retries are used up.  transcribe_upload only logs and returns.
GenerateFails(p) ==
    IF call[p].op = "transcribe" THEN Finish(p) /\ UNCHANGED queue
    ELSE IF CanRetry(p) THEN Retry(p) /\ Finish(p)
    ELSE Goto(p, "mark") /\ UNCHANGED queue

\* Outcome of a raised exception in transition: the aggregator's callers
\* handle every exception, the bot's end only an invalid transition (and
\* goes on to purge the media); any other request is answered with an error.
Raises(p) ==
    IF call[p].op \in {"generate", "transcribe"} THEN GenerateFails(p)
    ELSE IF call[p].op = "botEnd" /\ status # Gone
         THEN Goto(p, "purge") /\ UNCHANGED queue
    ELSE Finish(p) /\ UNCHANGED queue

Check(p) ==
    /\ At(p, "check")
    /\ IF status # Gone /\ CanMove(status, call[p].to)
       THEN Goto(p, "write") /\ UNCHANGED queue
       ELSE Raises(p)
    /\ UNCHANGED <<status, store, redis, bounds>>

\* The step a handler goes on with once its transition is written.
AfterWrite(op) ==
    IF op \in {"join", "end", "botEnd", "upload", "regenerate"} THEN "then"
    ELSE IF op = "approve" THEN "save"
    ELSE IF op = "generate" THEN "ack" ELSE "idle"

Write(p) ==
    /\ At(p, "write")
    /\ IF status = Gone THEN Raises(p) /\ UNCHANGED status
       ELSE /\ status' = call[p].to
            /\ IF AfterWrite(call[p].op) = "idle"
               THEN Finish(p) ELSE Goto(p, AfterWrite(call[p].op))
            /\ UNCHANGED queue
    /\ UNCHANGED <<store, redis, bounds>>

-----------------------------------------------------------------------------
(***************************************************************************)
(* What each request does after its transition.  join and end first update *)
(* the session document once more (start_time, end_time), which raises if  *)
(* it was deleted meanwhile.                                               *)
(***************************************************************************)
JoinDispatches(r) ==
    /\ Running(r, "join", "then")
    /\ Finish(r)
    /\ IF status = Gone \/ physical THEN UNCHANGED queue ELSE Enqueue("connect")
    /\ UNCHANGED <<status, store, redis, bounds>>

EndDispatches(r) ==
    /\ Running(r, "end", "then")
    /\ Finish(r)
    /\ queue' = IF status = Gone THEN queue
                ELSE IF physical THEN With(queue, "generate", 0)
                ELSE With(With(queue, "remove", 0), "generate", 0)
    /\ UNCHANGED <<status, store, redis, bounds>>

BotEndDispatches(r) ==
    /\ Running(r, "botEnd", "then")
    /\ IF status = Gone THEN Finish(r) /\ UNCHANGED queue
       ELSE Goto(r, "purge") /\ Enqueue("generate")
    /\ UNCHANGED <<status, store, redis, bounds>>

UploadDispatches(r) ==
    /\ Running(r, "upload", "then")
    /\ Finish(r) /\ Enqueue("transcribe")
    /\ UNCHANGED <<status, store, redis, bounds>>

RegenerateDispatches(r) ==
    /\ Running(r, "regenerate", "then")
    /\ Finish(r) /\ Enqueue("generate")
    /\ UNCHANGED <<status, store, redis, bounds>>

ApproveMarks(r) ==
    /\ Running(r, "approve", "save")
    /\ blueprint' = [blueprint EXCEPT ![call[r].arg] = "approved"]
    /\ Goto(r, "then")
    /\ UNCHANGED <<status, transcript, edited, redis, queue, bounds>>

\* The build is dispatched, unless the database question withholds it or
\* the build queue refuses it.
ApproveDispatches(r) ==
    /\ Running(r, "approve", "then")
    /\ Finish(r)
    /\ Enqueue("build") \/ UNCHANGED queue
    /\ UNCHANGED <<status, store, redis, bounds>>

\* The update of patch_blueprint replaces json_output, whatever the blueprint
\* has become since it was read.
PatchWrites(r) ==
    /\ Running(r, "patch", "save")
    /\ edited' = IF blueprint[call[r].arg] = "approved"
                 THEN edited \cup {call[r].arg} ELSE edited
    /\ Finish(r)
    /\ UNCHANGED <<status, transcript, blueprint, redis, queue, bounds>>

\* delete_session removes the events one by one, then the document.
DeleteEvents(r) ==
    /\ At(r, "wipe")
    /\ transcript' = FALSE
    /\ Goto(r, "drop")
    /\ UNCHANGED <<status, edited, blueprint, redis, queue, bounds>>

DeleteDocument(r) ==
    /\ At(r, "drop")
    /\ status' = Gone
    /\ Finish(r)
    /\ UNCHANGED <<store, redis, queue, bounds>>

-----------------------------------------------------------------------------
(***************************************************************************)
(* Tasks.  A worker takes a message; a task that is not acks_late is       *)
(* acknowledged then, an acks_late one when it returns (Ack).              *)
(***************************************************************************)
\* Variant: a message already handed out is handed out again.
TakeTaskAgain(w, t) ==
    /\ call[w] = Idle
    /\ queue' = [queue EXCEPT ![t] = @ - 1]
    /\ call' = [call EXCEPT ![w] = Begin(t.name, "own", "PROCESSING", None, t.retries)]
    /\ UNCHANGED <<status, store, redis, bounds>>

TakeTask(w, t) ==
    /\ call[w] = Idle /\ queue[t] > 0
    /\ queue' = [queue EXCEPT ![t] = @ - 1]
    /\ call' = [call EXCEPT ![w] =
                   Begin(t.name, "own",
                         IF t.name = "build" THEN "BUILDING" ELSE "BLUEPRINT_READY",
                         None, t.retries)]
    /\ UNCHANGED <<status, store, redis, bounds>>

Ack(w) ==
    /\ At(w, "ack") /\ Finish(w)
    /\ UNCHANGED <<status, store, redis, queue, bounds>>

\* dispatch_connector: Recall creates a bot ...
ConnectorJoins(w) ==
    /\ Running(w, "connect", "own")
    /\ \E b \in Bots :
         /\ bots[b] = "unborn"
         /\ bots' = [bots EXCEPT ![b] = "unstored"]
         /\ call' = [call EXCEPT ![w].at = "store", ![w].arg = b]
    /\ UNCHANGED <<status, store, sessionBot, purges, queue, bounds>>

\* Variant: the bot's own key is not stored before the session's.
StoresSessionOnly(w) ==
    /\ At(w, "store") /\ Goto(w, "map")
    /\ UNCHANGED <<status, store, redis, queue, bounds>>

\* ... and _store_mapping sets its key, then the session's, each for 24 h.
StoresBot(w) ==
    /\ At(w, "store")
    /\ bots' = [bots EXCEPT ![call[w].arg] = "mapped"]
    /\ Goto(w, "map")
    /\ UNCHANGED <<status, store, sessionBot, purges, queue, bounds>>

MapsSession(w) ==
    /\ At(w, "map")
    /\ sessionBot' = call[w].arg
    /\ Goto(w, "ack")
    /\ UNCHANGED <<status, store, bots, purges, queue, bounds>>

\* Recall or Redis refuses: whatever was created and stored so far stays.
Connecting(w) == call[w].op = "connect" /\ call[w].at \in {"own", "store", "map"}

\* The attempt is retried ...
ConnectorTriesAgain(w) ==
    /\ Connecting(w) /\ CanRetry(w)
    /\ Retry(w) /\ Finish(w)
    /\ UNCHANGED <<status, store, redis, bounds>>

\* ... or Recall rejects it for good ...
ConnectorFails(w) ==
    /\ Running(w, "connect", "own") /\ Goto(w, "mark")
    /\ UNCHANGED <<status, store, redis, queue, bounds>>

\* ... or fails on its last retry: retry(exc=...) then raises exc itself, which
\* except MaxRetriesExceededError does not catch, and the task ends.
ConnectorGivesUp(w) ==
    /\ Connecting(w) /\ ~CanRetry(w)
    /\ Goto(w, "ack")
    /\ UNCHANGED <<status, store, redis, queue, bounds>>

\* _fail_session and _mark_session_failed write FAILED without reading the
\* status first; a write that raises is logged and the task ends.
MarkFailed(w) ==
    /\ At(w, "mark")
    /\ \/ status' = (IF status = Gone THEN Gone ELSE "FAILED") /\ UNCHANGED unmarked
       \/ unmarked' = TRUE /\ UNCHANGED status
    /\ Goto(w, "ack")
    /\ UNCHANGED <<store, redis, queue, requests, crashes>>

\* Variant: the mapping is deleted without scheduling the purge.
RemoveBotOnly(w) ==
    /\ Running(w, "remove", "own")
    /\ call' = IF sessionBot = None THEN [call EXCEPT ![w].at = "ack"]
               ELSE [call EXCEPT ![w].at = "forget", ![w].arg = sessionBot]
    /\ UNCHANGED <<status, store, redis, queue, bounds>>

\* recall_remove_bot: a session without a mapping has no bot to remove.
RemoveBot(w) ==
    /\ Running(w, "remove", "own")
    /\ call' = IF sessionBot = None THEN [call EXCEPT ![w].at = "ack"]
               ELSE [call EXCEPT ![w].at = "purge", ![w].arg = sessionBot]
    /\ UNCHANGED <<status, store, redis, queue, bounds>>

\* recall_remove_bot and the terminal webhook schedule recall_delete_media,
\* then delete both keys of the mapping in one DEL.
SchedulePurge(p) ==
    /\ At(p, "purge")
    /\ purges' = purges \cup {call[p].arg}
    /\ Goto(p, "forget")
    /\ UNCHANGED <<status, store, bots, sessionBot, queue, bounds>>

ForgetBot(p) ==
    /\ At(p, "forget")
    /\ bots' = [bots EXCEPT ![call[p].arg] = "forgotten"]
    /\ sessionBot' = None
    /\ IF call[p].op = "remove" THEN Goto(p, "ack") ELSE Finish(p)
    /\ UNCHANGED <<status, store, purges, queue, bounds>>

\* Redis or the broker refuses: neither the task nor the webhook's handler is
\* tried again, and what it had not yet done is left undone.
RemovalErrs(p) ==
    /\ call[p].op \in {"remove", "botEnd"} /\ call[p].at \in {"purge", "forget"}
    /\ Finish(p)
    /\ UNCHANGED <<status, store, redis, queue, bounds>>

\* A key lives 24 h; the session's was stored after its bot's (but two SETs of
\* one call are never a day apart).
BotKeyLapses ==
    /\ \E b \in Bots :
         /\ bots[b] = "mapped" /\ \A p \in Processes : ~(At(p, "map") /\ call[p].arg = b)
         /\ bots' = [bots EXCEPT ![b] = "lapsed"]
    /\ UNCHANGED <<status, store, sessionBot, purges, queue, call, bounds>>

SessionKeyLapses ==
    /\ sessionBot # None /\ bots[sessionBot] # "mapped"
    /\ sessionBot' = None
    /\ UNCHANGED <<status, store, bots, purges, queue, call, bounds>>

-----------------------------------------------------------------------------
(***************************************************************************)
(* The transcript: a bot's webhook or the microphone stream enqueues an    *)
(* extraction, which persists the segment (best effort) before it runs.    *)
(***************************************************************************)
TranscriptArrives ==
    /\ \/ \E b \in Bots : bots[b] = "mapped"
       \/ physical /\ status = "LISTENING"
    /\ ~transcript /\ queue[Task("extract", 0)] = 0
    /\ Enqueue("extract")
    /\ UNCHANGED <<status, store, redis, call, bounds>>

Extract(w) ==
    /\ Running(w, "extract", "own")
    /\ transcript' \in {transcript, TRUE}
    /\ Goto(w, "ack")
    /\ UNCHANGED <<status, edited, blueprint, redis, queue, bounds>>

\* transcribe_upload: a failed or empty transcription is only logged.
Transcribe(w) ==
    /\ Running(w, "transcribe", "own")
    /\ \/ Finish(w) /\ UNCHANGED transcript
       \/ transcript' = TRUE /\ Goto(w, "then")
    /\ UNCHANGED <<status, edited, blueprint, redis, queue, bounds>>

-----------------------------------------------------------------------------
(***************************************************************************)
(* BlueprintAggregator.generate, run by generate_blueprint and at the end  *)
(* of transcribe_upload: read the session and its events, call the model,  *)
(* write one or two blueprints, then move the session.                     *)
(***************************************************************************)
Aggregating(w, point) == call[w].op \in {"generate", "transcribe"} /\ At(w, point)

GenerateReads(w) ==
    /\ Running(w, "generate", "own") \/ Running(w, "transcribe", "then")
    /\ IF status # Gone /\ transcript
       THEN Goto(w, "save") /\ UNCHANGED queue ELSE GenerateFails(w)
    /\ UNCHANGED <<status, store, redis, bounds>>

\* Variant: the blueprint is stored under an identity it may share.
SaveBlueprintInPlace(w, next) ==
    /\ \E b \in Blueprints : blueprint' = [blueprint EXCEPT ![b] = "draft"]
    /\ Goto(w, next)
    /\ UNCHANGED <<status, transcript, edited, redis, queue, bounds>>

SaveBlueprint(w, next) ==
    /\ \E b \in Blueprints :
         /\ blueprint[b] = "absent"
         /\ blueprint' = [blueprint EXCEPT ![b] = "draft"]
    /\ Goto(w, next)
    /\ UNCHANGED <<status, transcript, edited, redis, queue, bounds>>

\* Variant: the session moves before the blueprint is written.
GenerateMovesFirst(w) ==
    /\ Aggregating(w, "save") /\ Goto(w, "check")
    /\ UNCHANGED <<status, store, redis, queue, bounds>>

\* One blueprint, or the first of two when the product is for both platforms.
GenerateSaves(w) ==
    Aggregating(w, "save") /\ \E next \in {"twin", "check"} : SaveBlueprint(w, next)

GenerateSavesTwin(w) == Aggregating(w, "twin") /\ SaveBlueprint(w, "check")

\* The model fails or returns nothing to build from, or a write raises.
GenerateErrors(w) ==
    /\ Aggregating(w, "save") \/ Aggregating(w, "twin")
    /\ GenerateFails(w)
    /\ UNCHANGED <<status, store, redis, bounds>>

\* SoftTimeLimitExceeded: self.retry, which raises once the retries are used
\* up and leaves the session as it is.
GenerateTimesOut(w) ==
    /\ SoftLimit /\ call[w].op = "generate" /\ call[w].at \in {"save", "twin", "check", "write"}
    /\ IF CanRetry(w) THEN Retry(w) ELSE UNCHANGED queue
    /\ Finish(w)
    /\ UNCHANGED <<status, store, redis, bounds>>

\* run_build up to its transition: no approved blueprint, or a user over the
\* usage limit, ends the task.
BuildStarts(w) ==
    /\ Running(w, "build", "own")
    /\ \/ HasApproved /\ Goto(w, "check")
       \/ Finish(w)
    /\ UNCHANGED <<status, store, redis, queue, bounds>>

-----------------------------------------------------------------------------
(* The loss of a process: its call is gone; an acks_late task is delivered
   again, with the retries it had. *)
Crash(p) ==
    /\ call[p] # Idle /\ crashes < MaxCrashes
    /\ crashes' = crashes + 1
    /\ Finish(p)
    /\ IF call[p].op \in AcksLate
       THEN queue' = With(queue, call[p].op, call[p].retries) ELSE UNCHANGED queue
    /\ UNCHANGED <<status, store, redis, requests, unmarked>>

Request(r) ==
    \/ Join(r) \/ StartLive(r) \/ Upload(r) \/ EndSession(r) \/ Regenerate(r)
    \/ DeleteSession(r) \/ Approve(r) \/ PatchBlueprint(r)
    \/ BotStatus(r) \/ BotEnd(r)

RequestStep(r) ==
    \/ BotEndReads(r) \/ JoinDispatches(r) \/ EndDispatches(r)
    \/ BotEndDispatches(r) \/ UploadDispatches(r) \/ RegenerateDispatches(r)
    \/ ApproveMarks(r) \/ ApproveDispatches(r) \/ PatchWrites(r)
    \/ DeleteEvents(r) \/ DeleteDocument(r)

WorkerStep(w) ==
    \/ Ack(w) \/ ConnectorJoins(w) \/ StoresBot(w) \/ MapsSession(w)
    \/ ConnectorTriesAgain(w) \/ ConnectorFails(w) \/ ConnectorGivesUp(w)
    \/ MarkFailed(w) \/ RemoveBot(w) \/ Extract(w) \/ Transcribe(w)
    \/ GenerateReads(w) \/ GenerateSaves(w) \/ GenerateSavesTwin(w)
    \/ GenerateErrors(w) \/ GenerateTimesOut(w) \/ BuildStarts(w)

SharedStep(p) ==
    Check(p) \/ Write(p) \/ SchedulePurge(p) \/ ForgetBot(p) \/ RemovalErrs(p)

Step ==
    \/ \E r \in Requests : Request(r) \/ RequestStep(r)
    \/ \E w \in Workers : WorkerStep(w) \/ \E t \in Tasks : TakeTask(w, t)
    \/ \E p \in Processes : SharedStep(p) \/ Crash(p)
    \/ TranscriptArrives \/ BotKeyLapses \/ SessionKeyLapses

\* The kind of a meeting is chosen when its session is created.
Next == Step /\ UNCHANGED physical

Spec == Init /\ [][Next]_vars

\* A coroutine or a worker that runs keeps running, and the broker hands out
\* waiting tasks to idle workers.  A queue is first in, first out and its
\* workers are never busy for ever: connections and generations are taken
\* although other tasks keep arriving.
Fairness ==
    /\ \A r \in Requests : WF_moving(RequestStep(r))
    /\ \A w \in Workers : WF_moving(WorkerStep(w))
    /\ \A p \in Processes : WF_moving(SharedStep(p))
    /\ WF_moving(\E w \in Workers, t \in Tasks : TakeTask(w, t))
    /\ \A name \in {"connect", "generate"} :
         SF_moving(\E w \in Workers, n \in 0..MaxRetries(name) : TakeTask(w, Task(name, n)))

FairSpec == Spec /\ Fairness

-----------------------------------------------------------------------------
(***************************************************************************)
(* Properties.                                                             *)
(***************************************************************************)
\* A session the application presents as ready, approved or being built has
\* a blueprint: generate writes the document before it moves the session, and
\* no retry, crash, late write or direct FAILED write undoes that order.
BlueprintBacked == status \in Backed => HasBlueprint

\* A session is BUILDING only once a blueprint of it was approved: run_build
\* loads the approved blueprint before its transition, and approve_blueprint
\* never leaves the order open to a task delivered early or twice.
BuildingApproved == status = "BUILDING" => HasApproved

\* The bot the session key names is still mapped, so that the API acts on its
\* webhooks, or its purge has been scheduled, or its own key, stored a moment
\* earlier, has just lapsed: recall_remove_bot never acts on a bot the API was
\* not told of, although the two keys are stored one after the other, either
\* store may fail, and a webhook may clear both in between.
BotAccounted ==
    sessionBot # None =>
        bots[sessionBot] \in {"mapped", "lapsed"} \/ sessionBot \in purges

\* A bot that joined and that the API no longer knows was scheduled for the
\* purge of its media, by whichever of the webhook and recall_remove_bot came
\* first, even when the process was lost or refused half-way; but for a bot
\* whose key was never stored, and one whose key lived out its 24 h (a meeting
\* that long, or a removal that failed): their media nobody deletes.
PurgedBeforeForgotten ==
    \A b \in Bots :
        bots[b] \in {"unborn", "mapped", "unstored", "lapsed"} \/ b \in purges

\* A session whose connector task is queued does not wait for ever on a bot
\* that never arrives: a bot is mapped, or the session fails or is deleted, as
\* dispatch_connector's docstring has it (connector_worker.py:115-118); but for
\* a write of FAILED that is itself refused.
JoinResolves ==
    (\E n \in 0..ConnectorRetries : queue[Task("connect", n)] > 0)
        ~> \/ \E b \in Bots : bots[b] \notin {"unborn", "unstored"}
           \/ status \in {"FAILED", Gone} \/ unmarked

\* A queued generation ends in a blueprint or in FAILED, from which the user
\* can retry, unless the session is deleted or the write of FAILED, made once
\* and last, is refused.
GenerateSettles ==
    (\E n \in 0..GenerateRetries : queue[Task("generate", n)] > 0)
        ~> HasBlueprint \/ status \in {"FAILED", Gone} \/ unmarked
=============================================================================
