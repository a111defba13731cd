------------------------------ MODULE ExtractJobs ------------------------------
(***************************************************************************)
(* An asynchronous extraction that a developer asks for with one           *)
(* Idempotency-Key, perhaps several times at once.  The job's document     *)
(* bears an id derived from the key: creating it decides which call        *)
(* dispatches the run.  The worker acknowledges the task as it takes it,   *)
(* writes the outcome with merging sets, and queues a signed event that is *)
(* delivered with retries; a beat deletes what is thirty days old.         *)
(***************************************************************************)
EXTENDS Naturals, FiniteSets

CONSTANTS
    Posters,      \* concurrent POST /extract/jobs with the same key
    HookRetries,  \* max_retries of deliver_extract_webhook
    MaxJobs       \* bound: documents created for the key, one after another

ASSUME ExtractAssumption == HookRetries \in Nat /\ MaxJobs \in Nat

VARIABLES
    doc,        \* extract_jobs/{id}: its status, and whether it is whole
    made,       \* how many times the document has been created
    poster,     \* where each call is and which job it is about
    runs,       \* the state of each job's task, as often as it was dispatched
    dispatched, \* how often each job was put on the queue
    hook,       \* each job's event: which, and where its delivery is
    received,   \* what the caller's receiver got
    doubted,    \* history: jobs marked failed although they were on the queue
    outlived    \* history: a job was cleaned up before its run was over

extractVars == <<doc, made, poster, runs, dispatched, hook, received, doubted, outlived>>

JobIds == 1 .. MaxJobs
Statuses == {"queued", "processing", "done", "failed"}
Outcomes == {"done", "failed"}
NoDoc == [status |-> "absent", whole |-> FALSE, of |-> 0]
NoHook == [is |-> "none", event |-> "none", tries |-> 0]

ExtractTyped ==
    /\ doc \in [status : Statuses \cup {"absent"}, whole : BOOLEAN, of : 0 .. MaxJobs]
    /\ made \in 0 .. MaxJobs
    /\ poster \in [Posters -> [at : {"idle", "create", "dispatch", "mark", "replay"},
                               of : 0 .. MaxJobs]]
    /\ runs \in [JobIds -> {"none", "queued", "start", "extract", "hook", "over"}]
    /\ dispatched \in [JobIds -> 0 .. Cardinality(Posters)]
    /\ hook \in [JobIds -> [is : {"none", "queued", "over"}, event : {"none"} \cup Outcomes,
                            tries : 0 .. HookRetries]]
    /\ received \in [JobIds -> SUBSET Outcomes]
    /\ doubted \subseteq JobIds /\ outlived \in BOOLEAN

ExtractInit ==
    /\ doc = NoDoc /\ made = 0 /\ doubted = {} /\ outlived = FALSE
    /\ poster = [p \in Posters |-> [at |-> "idle", of |-> 0]]
    /\ runs = [j \in JobIds |-> "none"] /\ dispatched = [j \in JobIds |-> 0]
    /\ hook = [j \in JobIds |-> NoHook] /\ received = [j \in JobIds |-> {}]

PosterAt(p, at) == poster[p].at = at
PosterGoes(p, at) == poster' = [poster EXCEPT ![p].at = at]
Answered(p) == poster' = [poster EXCEPT ![p] = [at |-> "idle", of |-> 0]]

\* The quota and the tier are settled; a caller may post again once answered.
Posts(p) ==
    /\ PosterAt(p, "idle") /\ PosterGoes(p, "create")
    /\ UNCHANGED <<doc, made, runs, dispatched, hook, received, doubted, outlived>>

\* Variant: the document is set, not created, so both of two calls go on.
CreatesAnyway(p) ==
    /\ PosterAt(p, "create") /\ (doc.status = "absent" => made < MaxJobs)
    /\ made' = IF doc.status = "absent" THEN made + 1 ELSE made
    /\ doc' = [status |-> "queued", whole |-> TRUE, of |-> made']
    /\ poster' = [poster EXCEPT ![p] = [at |-> "dispatch", of |-> made']]
    /\ UNCHANGED <<runs, dispatched, hook, received, doubted, outlived>>

\* create() makes the document, or finds that it exists.
CreatesJob(p) ==
    /\ PosterAt(p, "create")
    /\ IF doc.status = "absent"
       THEN /\ made < MaxJobs /\ made' = made + 1
            /\ doc' = [status |-> "queued", whole |-> TRUE, of |-> made']
            /\ poster' = [poster EXCEPT ![p] = [at |-> "dispatch", of |-> made']]
       ELSE PosterGoes(p, "replay") /\ UNCHANGED <<doc, made>>
    /\ UNCHANGED <<runs, dispatched, hook, received, doubted, outlived>>

\* A replay reads the document again and tells what it says.
Replayed(p) ==
    /\ PosterAt(p, "replay") /\ Answered(p)
    /\ UNCHANGED <<doc, made, runs, dispatched, hook, received, doubted, outlived>>

OnQueue(j) ==
    /\ dispatched' = [dispatched EXCEPT ![j] = @ + 1]
    /\ runs' = [runs EXCEPT ![j] = "queued"]

DispatchesJob(p) ==
    /\ PosterAt(p, "dispatch") /\ OnQueue(poster[p].of) /\ Answered(p)
    /\ UNCHANGED <<doc, made, hook, received, doubted, outlived>>

\* The broker errs, the message sent or not.
DispatchErrs(p) ==
    /\ PosterAt(p, "dispatch") /\ PosterGoes(p, "mark")
    /\ \/ OnQueue(poster[p].of)
       \/ UNCHANGED <<runs, dispatched>>
    /\ UNCHANGED <<doc, made, hook, received, doubted, outlived>>

\* set(merge=True): the fields given, in whatever document is there, or in a
\* new one that has no others.
Merged(j, status) ==
    doc' = IF doc.status = "absent" THEN [status |-> status, whole |-> FALSE, of |-> j]
           ELSE [doc EXCEPT !.status = status]

\* The job is marked failed, which itself may fail, and the call too.
MarksDispatch(p) ==
    /\ PosterAt(p, "mark") /\ Answered(p)
    /\ Merged(poster[p].of, "failed") \/ UNCHANGED doc
    /\ doubted' = doubted \cup {j \in {poster[p].of} : dispatched[j] > 0}
    /\ UNCHANGED <<made, runs, dispatched, hook, received, outlived>>

-----------------------------------------------------------------------------
RunGoes(j, from, to) == runs[j] = from /\ runs' = [runs EXCEPT ![j] = to]
Others == <<made, poster, dispatched, received, doubted, outlived>>

TakesJob(j) == RunGoes(j, "queued", "start") /\ UNCHANGED <<doc, hook, Others>>

MarksProcessing(j) ==
    /\ RunGoes(j, "start", "extract") /\ Merged(j, "processing")
    /\ UNCHANGED <<hook, Others>>

\* The pipeline's outcome is written, ...
Extracts(j) ==
    /\ RunGoes(j, "extract", "hook")
    /\ \E outcome \in Outcomes :
         /\ Merged(j, outcome)
         /\ hook' = [hook EXCEPT ![j].event = outcome]
    /\ UNCHANGED Others

\* ... the tokens are recorded, come what may, and the event is queued if the
\* caller named a receiver.
QueuesHook(j) ==
    /\ RunGoes(j, "hook", "over")
    /\ hook' = [hook EXCEPT ![j].is = "queued"] \/ UNCHANGED hook
    /\ UNCHANGED <<doc, Others>>

\* The worker is lost: the task was acknowledged, nothing redelivers it.
RunLost(j) ==
    /\ runs[j] \in {"start", "extract", "hook"} /\ runs' = [runs EXCEPT ![j] = "over"]
    /\ UNCHANGED <<doc, hook, Others>>

\* The receiver gets the event; its answer may be lost or an error, and then
\* the delivery is tried again.
DeliversHook(j) ==
    /\ hook[j].is = "queued"
    /\ received' = [received EXCEPT ![j] = @ \cup {hook[j].event}]
    /\ \/ hook' = [hook EXCEPT ![j].is = "over"]
       \/ hook[j].tries < HookRetries /\ hook' = [hook EXCEPT ![j].tries = @ + 1]
    /\ UNCHANGED <<doc, made, poster, runs, dispatched, doubted, outlived>>

\* It never arrives, or its host is refused for good.
HookFails(j) ==
    /\ hook[j].is = "queued"
    /\ IF hook[j].tries < HookRetries THEN hook' = [hook EXCEPT ![j].tries = @ + 1]
                                      ELSE hook' = [hook EXCEPT ![j].is = "over"]
    /\ UNCHANGED <<doc, made, poster, runs, dispatched, received, doubted, outlived>>

\* The beat deletes by created_at alone: not what a merge has made.
CleansUp ==
    /\ doc.whole /\ doc' = NoDoc
    /\ outlived' = (outlived \/ runs[doc.of] \notin {"none", "over"}
                             \/ \E p \in Posters : poster[p].at \in {"dispatch", "mark"})
    /\ UNCHANGED <<made, poster, runs, dispatched, hook, received, doubted>>

ExtractNext ==
    \/ \E p \in Posters :
         \/ Posts(p) \/ CreatesJob(p) \/ Replayed(p) \/ DispatchesJob(p)
         \/ DispatchErrs(p) \/ MarksDispatch(p)
    \/ \E j \in JobIds :
         \/ TakesJob(j) \/ MarksProcessing(j) \/ Extracts(j) \/ QueuesHook(j)
         \/ RunLost(j) \/ DeliversHook(j) \/ HookFails(j)
    \/ CleansUp

ExtractSpec == ExtractInit /\ [][ExtractNext]_extractVars
-----------------------------------------------------------------------------
\* One key is one run, whatever calls cross: a job is queued at most once, so
\* its receiver is never told both that it is done and that it has failed; and
\* what the receiver was told is what the document says, unless a dispatch that
\* did put it on the queue was taken for a failure, and the job marked failed
\* whatever its run had come to, or the job was cleaned up under its run.
JobToldOnce ==
    \A j \in JobIds :
        /\ dispatched[j] <= 1
        /\ Cardinality(received[j]) <= 1
        /\ doc.of = j /\ received[j] # {} =>
             doc.status \in received[j] \/ j \in doubted \/ outlived
=============================================================================
