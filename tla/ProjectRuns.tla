----------------------------- MODULE ProjectRuns -----------------------------
(***************************************************************************)
(* One project: the API calls that create it, stop it, delete it, answer   *)
(* its database question and dispatch work for it, and the worker runs     *)
(* that build it (build_worker._run), change it (update_worker._run),      *)
(* deploy it (build_worker._run_preview, for a preview or a publication)   *)
(* or design it from a prompt (prompt_build_worker).                       *)
(*                                                                         *)
(* The project document, the session's status, the cancel flag in Redis    *)
(* and the build queue are shared; every await is a step of its own.       *)
(* Updates and previews work in one directory per project (edit_{id}); the *)
(* first build has a directory of its own.  The cancel flag of a build is  *)
(* keyed by the session's id, which no code ever sets, so builds have none *)
(* here.  Build tasks are acknowledged when taken: a lost worker loses its *)
(* task.  The order of the queue is abstracted to its multiplicities.      *)
(***************************************************************************)
EXTENDS MeetingStates, Naturals, FiniteSets

CONSTANTS
    Requests,      \* concurrent API coroutines
    Workers,       \* worker processes of the build queue
    StopOffered,   \* TRUE: the user may press stop
    QueueMayRefuse,\* TRUE: the build queue may be at capacity
    CallsMayFail,  \* TRUE: a call to Firestore, Redis or the broker may raise
    MaxRequests,   \* bound: API calls taken in one behaviour
    MaxDecisions,  \* bound: approvals and prompts among them
    MaxCrashes     \* bound: processes lost in one behaviour

ASSUME ProjectAssumption ==
    /\ StopOffered \in BOOLEAN /\ QueueMayRefuse \in BOOLEAN /\ CallsMayFail \in BOOLEAN
    /\ MaxRequests \in Nat /\ MaxDecisions \in Nat /\ MaxCrashes \in Nat
    /\ Requests \cap Workers = {}

Processes == Requests \cup Workers
Tasks == {"build", "update", "preview", "prompt"}
Flags == {"exists", "updating", "pending", "repo", "database"}

VARIABLES
    session,    \* sessions/{id}.status
    project,    \* projects/{id}: the flags that are set; "exists" of them all
    cancel,     \* Redis: cancel:{project_id}
    queue,      \* tasks waiting in the build queue, with their multiplicity
    call,       \* what each process is executing
    signalled,  \* runs during which a stop was requested
    answering,  \* calls that hold, or answer, what was decided last
    dispatched, \* one of them has dispatched the build
    requests, decisions, crashes  \* how much of each bound is used

bounds == <<requests, decisions, crashes>>
history == <<signalled, answering, dispatched>>
vars == <<session, project, cancel, queue, call, history, bounds>>

Operations == Tasks \cup {"idle", "approve", "assist", "skip", "connect",
                          "wire", "edit", "deploy", "stop", "delete"}
Points == {"idle", "check", "write", "stub", "record", "unwithhold", "dispatch",
           "unblock", "drop", "forget", "own", "load", "block", "bare", "mark",
           "scaffold", "ensure", "agent", "unflag", "finish", "quit", "fail",
           "chain", "leave", "design", "place"}

\* read: what the call remembers - the pending flag it read, that the repo
\* exists, that the run was stopped.
Calls == [op : Operations, at : Points, to : Status, read : BOOLEAN]
Begin(op, at, to, read) == [op |-> op, at |-> at, to |-> to, read |-> read]
Idle == Begin("idle", "idle", "APPROVED", FALSE)

TypeOK ==
    /\ session \in Status
    /\ project \in SUBSET Flags
    /\ cancel \in BOOLEAN
    /\ queue \in [Tasks -> Nat]
    /\ call \in [Processes -> Calls]
    /\ signalled \subseteq Workers
    /\ answering \subseteq Processes /\ dispatched \in BOOLEAN
    /\ requests \in Nat /\ decisions \in Nat /\ crashes \in Nat

\* The session of a meeting has a blueprint; one made for a prompt has none.
Init ==
    /\ session \in {"BLUEPRINT_READY", "PROCESSING"}
    /\ project = {}
    /\ cancel = FALSE
    /\ queue = [t \in Tasks |-> 0]
    /\ call = [p \in Processes |-> Idle]
    /\ signalled = {} /\ answering = {} /\ dispatched = FALSE
    /\ requests = 0 /\ decisions = 0 /\ crashes = 0

Has(flag) == flag \in project
Running(p, op, at) == call[p].op = op /\ call[p].at = at
Goto(p, at) == call' = [call EXCEPT ![p].at = at] /\ UNCHANGED history
Leave(p) == call' = [call EXCEPT ![p] = Idle] /\ signalled' = signalled \ {p}
Finish(p) == Leave(p) /\ answering' = answering \ {p} /\ UNCHANGED dispatched
Enqueue(task) == queue' = [queue EXCEPT ![task] = @ + 1]

\* DocumentReference.set replaces the whole document.
SetProject(flags) == project' = flags \cup {"exists"}
\* DocumentReference.update raises if the document is gone.
PatchProject(on, off) == project' = (project \cup on) \ off

-----------------------------------------------------------------------------
(***************************************************************************)
(* API calls.  The guards are those of the handlers, evaluated on the      *)
(* document _get_owned read.                                               *)
(***************************************************************************)
Accept(r, c) ==
    /\ call[r] = Idle /\ requests < MaxRequests
    /\ requests' = requests + 1
    /\ call' = [call EXCEPT ![r] = c]
    /\ UNCHANGED <<session, project, cancel, queue, signalled, dispatched, crashes>>

Decide(r, c) ==
    /\ decisions < MaxDecisions /\ decisions' = decisions + 1
    /\ Accept(r, c) /\ UNCHANGED answering

\* What reads an open question answers that one.
Ask(r, c) ==
    /\ Has("exists") /\ Accept(r, c) /\ UNCHANGED decisions
    /\ answering' = IF c.read THEN answering \cup {r} ELSE answering \ {r}

\* The first approval of a meeting's blueprint records the project's id in it.
MakesProject(q) == call[q].op = "approve" /\ call[q].at \in {"check", "write"}

\* approve_blueprint, once there is a blueprint: a session that is already
\* APPROVED skips the transition.  One that finds no id recorded makes another
\* project, which is not this one.
Approve(r) ==
    /\ session # "PROCESSING"
    /\ Has("exists") \/ ~\E q \in Requests : MakesProject(q)
    /\ Decide(r, Begin("approve", IF session = "APPROVED" THEN "stub" ELSE "check",
                       "APPROVED", FALSE))

\* assistant_build creates session and project, then dispatches the design.
Assist(r) ==
    /\ ~Has("exists") /\ session = "PROCESSING" /\ decisions = 0
    /\ Decide(r, Begin("assist", "stub", "APPROVED", FALSE))

SkipDatabase(r) ==
    Has("pending") /\ Ask(r, Begin("skip", "unwithhold", "APPROVED", TRUE))

\* connect_*: the database is provisioned before anything is written.
ConnectDatabase(r) ==
    Ask(r, Begin("connect", "record", "APPROVED", Has("pending")))

\* wire_database, update and chat, build-preview and publish dispatch work
\* for a project that is not being updated.
WireDatabase(r) ==
    ~Has("updating") /\ Has("database") /\ Ask(r, Begin("wire", "dispatch", "APPROVED", FALSE))
Update(r) == ~Has("updating") /\ Ask(r, Begin("edit", "dispatch", "APPROVED", FALSE))
Deploy(r) ==
    ~Has("updating") /\ Has("repo") /\ Ask(r, Begin("deploy", "dispatch", "APPROVED", FALSE))

\* stop_project sets the cancel flag of every run in flight.
Stop(r) ==
    /\ StopOffered /\ Has("exists") /\ call[r] = Idle /\ requests < MaxRequests
    /\ requests' = requests + 1
    /\ call' = [call EXCEPT ![r] = Begin("stop", "unblock", "APPROVED", FALSE)]
    /\ cancel' = TRUE
    /\ signalled' = signalled \cup {w \in Workers : call[w].at \notin {"idle", "own"}}
    /\ UNCHANGED <<session, project, queue, answering, dispatched, decisions, crashes>>

Delete(r) == ~Has("updating") /\ Ask(r, Begin("delete", "drop", "APPROVED", FALSE))

-----------------------------------------------------------------------------
(* What the calls do next. *)
Step(p, op, at) == Running(p, op, at) /\ UNCHANGED bounds

\* MeetingStateMachine.transition: of approve_blueprint and of a build, which
\* end when it raises, and of build_from_prompt, which catches it.
Check(p) ==
    /\ call[p].at = "check"
    /\ \/ CanMove(session, call[p].to) /\ Goto(p, "write")
       \/ /\ ~CanMove(session, call[p].to)
          /\ IF call[p].op = "prompt" THEN Goto(p, "fail") ELSE Finish(p)
    /\ UNCHANGED <<session, project, cancel, queue, bounds>>

\* The prompt's session walks through BLUEPRINT_READY to APPROVED.
Write(p) ==
    /\ call[p].at = "write"
    /\ session' = call[p].to
    /\ IF call[p].op # "prompt" THEN Goto(p, "stub")
       ELSE IF call[p].to = "APPROVED" THEN Goto(p, "place")
       ELSE /\ call' = [call EXCEPT ![p].at = "check", ![p].to = "APPROVED"]
            /\ UNCHANGED history
    /\ UNCHANGED <<project, cancel, queue, bounds>>

\* What is decided replaces what was: calls that answer an earlier question
\* do not hold this one.
Places(p) == answering' = {p} /\ dispatched' = FALSE
Withholds(p) == Leave(p) /\ answering' = {} /\ dispatched' = FALSE

\* approve_blueprint writes the stub and withholds the build if the
\* classifier thinks that the app needs a database.
ApproveStub(r) ==
    /\ Step(r, "approve", "stub")
    /\ \/ SetProject({"pending"}) /\ Withholds(r)
       \/ /\ SetProject({"updating"}) /\ Places(r)
          /\ call' = [call EXCEPT ![r].at = "dispatch"] /\ UNCHANGED signalled
    /\ UNCHANGED <<session, cancel, queue>>

AssistStub(r) ==
    /\ Step(r, "assist", "stub")
    /\ SetProject({"updating"}) /\ Goto(r, "dispatch")
    /\ UNCHANGED <<session, cancel, queue>>

\* connect_*: the connection is recorded; a withheld build goes on.
RecordDatabase(r) ==
    /\ Step(r, "connect", "record")
    /\ IF Has("exists") THEN PatchProject({"database"}, {}) ELSE UNCHANGED project
    /\ IF Has("exists") /\ call[r].read THEN Goto(r, "unwithhold") ELSE Finish(r)
    /\ UNCHANGED <<session, cancel, queue>>

\* Variant: the build is dispatched before the flag is cleared.
UnwithholdLater(r) ==
    /\ call[r].at = "unwithhold" /\ Goto(r, "dispatch")
    /\ UNCHANGED <<session, project, cancel, queue, bounds>>

\* skip_database and _finalize_db_connect clear the flag, then dispatch.
Unwithhold(r) ==
    /\ call[r].at = "unwithhold"
    /\ IF Has("exists")
       THEN PatchProject({"updating"}, {"pending"}) /\ Goto(r, "dispatch")
       ELSE Finish(r) /\ UNCHANGED project
    /\ UNCHANGED <<session, cancel, queue, bounds>>

\* The task each call dispatches.
TaskOf(op) == IF op \in {"approve", "skip", "connect"} THEN "build"
              ELSE IF op \in {"wire", "edit"} THEN "update"
              ELSE IF op = "deploy" THEN "preview" ELSE "prompt"

\* The build that is sent may be the one that was decided on.
Releases(p) ==
    /\ Leave(p) /\ answering' = answering \ {p}
    /\ dispatched' = (dispatched \/ p \in answering)

Dispatch(r) ==
    /\ call[r].at = "dispatch"
    /\ Enqueue(TaskOf(call[r].op)) /\ Releases(r)
    /\ UNCHANGED <<session, project, cancel, bounds>>

\* The queue is at capacity: 429.
Refuse(r) ==
    /\ QueueMayRefuse /\ call[r].at = "dispatch" /\ Finish(r)
    /\ UNCHANGED <<session, project, cancel, queue, bounds>>

StopUnblocks(r) ==
    /\ Step(r, "stop", "unblock") /\ Finish(r)
    /\ PatchProject({}, {"updating"})
    /\ UNCHANGED <<session, cancel, queue>>

DeleteDrops(r) ==
    /\ Step(r, "delete", "drop") /\ Goto(r, "forget")
    /\ project' = {}
    /\ UNCHANGED <<session, cancel, queue>>

DeleteForgets(r) ==
    /\ Step(r, "delete", "forget") /\ Finish(r)
    /\ cancel' = FALSE
    /\ UNCHANGED <<session, project, queue>>

\* The flag expires ten minutes after it was set.
CancelExpires ==
    /\ cancel /\ cancel' = FALSE
    /\ UNCHANGED <<session, project, queue, call, history, bounds>>

-----------------------------------------------------------------------------
(* Worker runs. *)
TakeTask(w, task) ==
    /\ call[w] = Idle /\ queue[task] > 0
    /\ queue' = [queue EXCEPT ![task] = @ - 1]
    /\ call' = [call EXCEPT ![w] =
                   IF task = "prompt" THEN Begin(task, "design", "BLUEPRINT_READY", FALSE)
                   ELSE Begin(task, "own", "BUILDING", FALSE)]
    /\ UNCHANGED <<session, project, cancel, history, bounds>>

\* _run of a build: over the quota it writes the error, else it moves the
\* session; what raises up to the stub, the transition included, ends the run
\* outside its try.
BuildStarts(w) ==
    /\ Step(w, "build", "own")
    /\ Goto(w, "check") \/ Goto(w, "block")
    /\ UNCHANGED <<session, project, cancel, queue>>

BuildBlocked(w) ==
    /\ Step(w, "build", "block") /\ SetProject({}) /\ Finish(w)
    /\ UNCHANGED <<session, cancel, queue>>

BuildStub(w) ==
    /\ Step(w, "build", "stub") /\ SetProject({"updating"}) /\ Goto(w, "scaffold")
    /\ UNCHANGED <<session, cancel, queue>>

\* The template is cloned, the repository created and recorded, or not.
BuildScaffolds(w) ==
    /\ Step(w, "build", "scaffold")
    /\ \/ Goto(w, "fail") /\ UNCHANGED project
       \/ /\ call' = [call EXCEPT ![w].at = IF Has("exists") THEN "agent" ELSE "fail",
                                  ![w].read = TRUE]
          /\ IF Has("exists") THEN PatchProject({"repo"}, {}) ELSE UNCHANGED project
          /\ UNCHANGED history
    /\ UNCHANGED <<session, cancel, queue>>

BuildAgentEnds(w) ==
    /\ Step(w, "build", "agent")
    /\ Goto(w, "finish") \/ Goto(w, "fail")
    /\ UNCHANGED <<session, project, cancel, queue>>

\* The success and the failure path of every run end the update.
Settle(w) ==
    IF Has("exists")
    THEN PatchProject(IF call[w].op = "build" /\ call[w].read THEN {"repo"} ELSE {},
                      {"updating"})
    ELSE UNCHANGED project

BuildEnds(w) ==
    /\ Step(w, "build", "finish") \/ Step(w, "build", "fail")
    /\ Settle(w) /\ Finish(w)
    /\ UNCHANGED <<session, cancel, queue>>

-----------------------------------------------------------------------------
\* Variant: a run does not clear the flag an earlier one left behind.
RunKeepsFlag(w) ==
    /\ call[w].op \in {"update", "preview"} /\ call[w].at = "own"
    /\ Goto(w, "load")
    /\ UNCHANGED <<session, project, cancel, queue, bounds>>

\* Updates and previews first wipe a stale cancel flag.
RunClearsFlag(w) ==
    /\ call[w].op \in {"update", "preview"} /\ call[w].at = "own"
    /\ cancel' = FALSE /\ Goto(w, "load")
    /\ UNCHANGED <<session, project, queue, bounds>>

\* A project that is gone ends the run, one without a repository is told so;
\* an update over the quota writes the error only.
RunLoads(w) ==
    /\ call[w].op \in {"update", "preview"} /\ call[w].at = "load"
    /\ \/ ~Has("exists") /\ Finish(w)
       \/ Has("exists") /\ ~Has("repo") /\ Goto(w, "bare")
       \/ Has("repo") /\ Goto(w, "mark")
       \/ Has("repo") /\ call[w].op = "update" /\ Finish(w)
    /\ UNCHANGED <<session, project, cancel, queue, bounds>>

RunIsBare(w) ==
    /\ call[w].at = "bare" /\ Settle(w) /\ Finish(w)
    /\ UNCHANGED <<session, cancel, queue, bounds>>

RunMarks(w) ==
    /\ call[w].at = "mark"
    /\ IF Has("exists") THEN PatchProject({"updating"}, {}) /\ Goto(w, "ensure")
       ELSE UNCHANGED project /\ Finish(w)
    /\ UNCHANGED <<session, cancel, queue, bounds>>

\* EditWorkspace.ensure: clone, or pull into the directory that is there.
RunEnsures(w) ==
    /\ call[w].at = "ensure"
    /\ Goto(w, "agent") \/ Goto(w, "fail")
    /\ UNCHANGED <<session, project, cancel, queue, bounds>>

\* The update agent ends, having seen the flag or not; then the run reads
\* the flag, and clears it.
UpdateAgentEnds(w) ==
    /\ Step(w, "update", "agent")
    /\ \/ call' = [call EXCEPT ![w].at = "unflag", ![w].read = cancel] /\ UNCHANGED history
       \/ Goto(w, "fail")
    /\ UNCHANGED <<session, project, cancel, queue>>

UpdateUnflags(w) ==
    /\ Step(w, "update", "unflag")
    /\ cancel' = FALSE /\ Goto(w, "finish")
    /\ UNCHANGED <<session, project, queue>>

\* The compile-and-fix loop sees the flag and returns, or ends.
PreviewCancelled(w) ==
    /\ Step(w, "preview", "agent") /\ cancel
    /\ cancel' = FALSE /\ Goto(w, "quit")
    /\ UNCHANGED <<session, project, queue>>

PreviewEnds(w) ==
    /\ Step(w, "preview", "agent")
    /\ Goto(w, "finish") \/ Goto(w, "fail")
    /\ UNCHANGED <<session, project, cancel, queue>>

PreviewQuits(w) ==
    /\ Step(w, "preview", "quit") /\ Goto(w, "leave")
    /\ UNCHANGED <<session, project, cancel, queue>>

\* The final patch; on success, an update that was neither stopped nor cut
\* short and pushed something queues a preview.  A project that was deleted
\* meanwhile makes the patch raise, on either path.
RunSettles(w) ==
    /\ call[w].op \in {"update", "preview"} /\ call[w].at \in {"finish", "fail"}
    /\ Settle(w)
    /\ \/ Goto(w, "leave")
       \/ /\ Running(w, "update", "finish") /\ ~call[w].read /\ Has("exists")
          /\ Goto(w, "chain")
    /\ UNCHANGED <<session, cancel, queue, bounds>>

\* A broker that refuses the preview costs a warning.
UpdateChains(w) ==
    /\ Step(w, "update", "chain") /\ Goto(w, "leave")
    /\ Enqueue("preview") \/ (CallsMayFail /\ UNCHANGED queue)
    /\ UNCHANGED <<session, project, cancel>>

\* finally: the directory is deleted.
RunLeaves(w) ==
    /\ call[w].at = "leave" /\ Finish(w)
    /\ UNCHANGED <<session, project, cancel, queue, bounds>>

-----------------------------------------------------------------------------
\* build_from_prompt: design the blueprint, move the session, ...
PromptDesigns(w) ==
    /\ Step(w, "prompt", "design")
    /\ Goto(w, "check") \/ Goto(w, "fail")
    /\ UNCHANGED <<session, project, cancel, queue>>

\* ... and dispatch the build, unless it is withheld.
PromptPlaces(w) ==
    /\ Step(w, "prompt", "place")
    /\ \/ /\ Has("exists") /\ PatchProject({"pending"}, {"updating"}) /\ Withholds(w)
       \/ /\ Has("exists") /\ PatchProject({"updating"}, {"pending"}) /\ Places(w)
          /\ call' = [call EXCEPT ![w].at = "chain"] /\ UNCHANGED signalled
       \/ ~Has("exists") /\ Goto(w, "fail") /\ UNCHANGED project
    /\ UNCHANGED <<session, cancel, queue>>

PromptChains(w) ==
    /\ Step(w, "prompt", "chain") /\ Enqueue("build") /\ Releases(w)
    /\ UNCHANGED <<session, project, cancel>>

PromptFails(w) ==
    /\ Step(w, "prompt", "fail") /\ Settle(w) /\ Finish(w)
    /\ UNCHANGED <<session, cancel, queue>>

-----------------------------------------------------------------------------
(***************************************************************************)
(* Failures.                                                               *)
(***************************************************************************)
\* Where no handler catches what a call raises: the checks and loads before a
\* run's try, the patches of its failure path, and every step of an API call.
Unguarded(c) ==
    CASE c.op = "build" -> {"own", "check", "write", "block", "stub", "fail"}
      [] c.op \in {"update", "preview"} -> {"own", "load", "bare", "mark"}
      [] c.op = "prompt" -> {"fail"}
      [] OTHER -> Points \ {"idle"}

\* A run inside its try goes on in its failure path ...
Guarded(c) ==
    CASE c.op = "build" -> {"finish"}
      [] c.op \in {"update", "preview"} -> {"unflag", "finish"}
      [] c.op = "prompt" -> {"check", "write", "place", "chain"}
      [] OTHER -> {}

\* ... and one whose failure path raises still deletes the directory.
Raises(p) ==
    /\ CallsMayFail
    /\ \/ call[p].at \in Unguarded(call[p]) /\ Finish(p)
       \/ call[p].at \in Guarded(call[p]) /\ Goto(p, "fail")
       \/ call[p].op \in {"update", "preview"} /\ call[p].at = "fail" /\ Goto(p, "leave")
    /\ UNCHANGED <<session, project, cancel, queue, bounds>>

\* The loss of a process.
Crash(p) ==
    /\ call[p] # Idle /\ crashes < MaxCrashes
    /\ crashes' = crashes + 1
    /\ Finish(p)
    /\ UNCHANGED <<session, project, cancel, queue, requests, decisions>>

Request(r) ==
    \/ Approve(r) \/ Assist(r) \/ SkipDatabase(r) \/ ConnectDatabase(r)
    \/ WireDatabase(r) \/ Update(r) \/ Deploy(r) \/ Stop(r) \/ Delete(r)

RequestStep(r) ==
    \/ ApproveStub(r) \/ AssistStub(r) \/ RecordDatabase(r) \/ Unwithhold(r)
    \/ Dispatch(r) \/ Refuse(r) \/ StopUnblocks(r) \/ DeleteDrops(r) \/ DeleteForgets(r)

BuildStep(w) ==
    \/ BuildStarts(w) \/ BuildBlocked(w) \/ BuildStub(w) \/ BuildScaffolds(w)
    \/ BuildAgentEnds(w) \/ BuildEnds(w)

RunStep(w) ==
    \/ RunClearsFlag(w) \/ RunLoads(w) \/ RunIsBare(w) \/ RunMarks(w)
    \/ RunEnsures(w) \/ UpdateAgentEnds(w) \/ UpdateUnflags(w)
    \/ PreviewCancelled(w) \/ PreviewEnds(w) \/ PreviewQuits(w)
    \/ RunSettles(w) \/ UpdateChains(w) \/ RunLeaves(w)

PromptStep(w) ==
    PromptDesigns(w) \/ PromptPlaces(w) \/ PromptChains(w) \/ PromptFails(w)

ProcessStep(p) ==
    \/ Check(p) \/ Write(p)
    \/ p \in Requests /\ RequestStep(p)
    \/ p \in Workers /\ (BuildStep(p) \/ RunStep(p) \/ PromptStep(p))

Next ==
    \/ \E r \in Requests : Request(r)
    \/ \E p \in Processes : ProcessStep(p) \/ Raises(p) \/ Crash(p)
    \/ \E w \in Workers, task \in Tasks : TakeTask(w, task)
    \/ CancelExpires

Spec == Init /\ [][Next]_vars

\* Coroutines and runs go on (every agent loop and every call it makes is
\* bounded), and the queue is first in, first out: a waiting task is taken.
Fairness ==
    /\ \A p \in Processes : WF_vars(ProcessStep(p))
    /\ \A task \in Tasks : SF_vars(\E w \in Workers : TakeTask(w, task))

FairSpec == Spec /\ Fairness

-----------------------------------------------------------------------------
(***************************************************************************)
(* Properties.                                                             *)
(***************************************************************************)
\* The call is past the question: it is about to dispatch.
Sending(p) == call[p].at = "dispatch" \/ Running(p, "prompt", "chain")

\* "Never provision/wire a database on our own initiative - ask first": while
\* the question of the last approval or prompt is open, its build has not been
\* dispatched and no call that holds or answers it is about to, however many
\* approvals, answers, runs and failures overlap.
WithheldIsIdle ==
    Has("pending") => ~dispatched /\ \A p \in answering : ~Sending(p)

\* The run has seen the flag and ends early.
Stopped(w) ==
    \/ Running(w, "preview", "quit")
    \/ call[w].op = "update" /\ call[w].read

\* A run stops only because a stop was requested while it ran: the flag of an
\* earlier run never cancels a later one, although both share one key, the
\* flag outlives the run it was meant for and runs overlap.
OnlySignalledStop == \A w \in Workers : Stopped(w) => w \in signalled

-----------------------------------------------------------------------------
(***************************************************************************)
(* What the code says of itself and its interleavings refute.              *)
(***************************************************************************)
InEditTree(w) ==
    /\ call[w].op \in {"update", "preview"}
    /\ call[w].at \in {"agent", "unflag", "finish", "quit", "fail", "chain", "leave"}

\* "A build or update is already in progress.": one run at a time works in
\* the project's directory.
OneEditor == \A v, w \in Workers : InEditTree(v) /\ InEditTree(w) => v = w

\* "If a database is already connected for this project": a connection that
\* was recorded stays recorded.
DatabaseKept == [][Has("database") /\ Has("exists")' => Has("database")']_vars

\* "if the session is already APPROVED (e.g. a previous build task crashed
\* before starting), the state transition is skipped and the build is
\* re-dispatched so the user can retry": a project does not show as updating
\* for ever, where no process is lost and no call fails.
RunsSettle == Has("updating") ~> ~Has("updating")
=============================================================================
