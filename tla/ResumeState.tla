------------------------------ MODULE ResumeState ------------------------------
(***************************************************************************)
(* What a project remembers of a run that stopped with work outstanding:   *)
(* the record unfinished_work of its document, which the build and the     *)
(* updates write and a bare "continue" turns into the task of a new run.   *)
(* A record is kept as the request it names (its first 500 characters).    *)
(***************************************************************************)
CONSTANT Updates    \* update tasks; each has a request of its own

Nothing == "nothing"        \* no record
Finishing == "finish build" \* build_request: to finish the build
Continue == "continue"      \* a prompt without a task of its own

Overtaken == "overtaken"    \* another run settled before the continue was read

ASSUME ResumeAssumption == Updates \cap {Nothing, Finishing, Continue, Overtaken} = {}

\* What a record can name.
Requested == Updates \cup {Finishing, Continue}

VARIABLES
    unfinished,  \* the request that unfinished_work names
    published,   \* TRUE: repo_full_name is set
    updating,    \* is_updating
    build,       \* how far the build is
    update,      \* per update: how far it is, what was sent, what it works on
    interrupted, \* history: what was left unfinished last, and not finished since
    meant        \* history: what a continue was sent for, as long as it stands

resumeVars == <<unfinished, published, updating, build, update, interrupted, meant>>

NotSent == [at |-> "idle", says |-> Nothing, task |-> Nothing]

ResumeTyped ==
    /\ unfinished \in Requested \cup {Nothing} /\ interrupted \in Requested \cup {Nothing}
    /\ published \in BOOLEAN /\ updating \in BOOLEAN
    /\ build \in {"none", "stubbed", "published", "recorded", "over"}
    /\ update \in [Updates -> [at : {"idle", "queued", "read", "working", "over"},
                               says : Requested \cup {Nothing}, task : Requested \cup {Nothing}]]
    /\ meant \in [Updates -> Requested \cup {Nothing, Overtaken}]

\* The project document, before its build: a prompt's placeholder, or the stub
\* of a build that the quota blocked.
ResumeInit ==
    /\ unfinished = Nothing /\ published = FALSE /\ updating \in BOOLEAN
    /\ build = "none" /\ update = [u \in Updates |-> NotSent]
    /\ interrupted = Nothing /\ meant = [u \in Updates |-> Nothing]

\* History: task is what the run that settles leaves unfinished.
Leaves(task) ==
    /\ interrupted' = task
    /\ meant' = [u \in Updates |->
                   IF update[u].at = "queued" /\ update[u].says = Continue THEN Overtaken
                   ELSE IF update'[u].at = "over" THEN Nothing ELSE meant[u]]

\* A build over its quota leaves a document without repository and no update.
BuildOverQuota ==
    /\ build = "none"
    /\ unfinished' = Nothing /\ published' = FALSE /\ updating' = FALSE
    /\ UNCHANGED <<build, update, interrupted, meant>>

\* The stub replaces the whole document.
BuildStubs ==
    /\ build = "none"
    /\ build' = "stubbed" /\ unfinished' = Nothing /\ published' = FALSE /\ updating' = TRUE
    /\ UNCHANGED update
    /\ Leaves(Nothing)

BuildPublishes ==
    /\ build = "stubbed"
    /\ build' = "published" /\ published' = TRUE
    /\ UNCHANGED <<unfinished, updating, update, interrupted, meant>>

\* The record is written before the agent starts, so that a lost worker
\* leaves one too.
BuildRecords ==
    /\ build = "published"
    /\ build' = "recorded" /\ unfinished' = Finishing
    /\ UNCHANGED <<published, updating, update>>
    /\ Leaves(Finishing)

\* The build's end, whatever its agent and its compilations came to.
BuildCompletes ==
    /\ build = "recorded"
    /\ build' = "over" /\ unfinished' = Nothing /\ published' = TRUE /\ updating' = FALSE
    /\ UNCHANGED update
    /\ Leaves(Nothing)

\* An exception: the record is left as it is.
BuildFails ==
    /\ build \in {"stubbed", "published", "recorded"}
    /\ build' = "over" /\ updating' = FALSE
    /\ published' \in IF build = "stubbed" THEN {published, TRUE} ELSE {TRUE}
    /\ UNCHANGED <<unfinished, update, interrupted, meant>>

BuildLost ==
    /\ build \in {"stubbed", "published", "recorded"}
    /\ build' = "over"
    /\ UNCHANGED <<unfinished, published, updating, update, interrupted, meant>>

\* An endpoint queues an update unless one is going on.  A continue that comes
\* by the chat may reach the worker as the model put it, a request like others.
SendsUpdate(u) ==
    /\ update[u].at = "idle" /\ ~updating
    /\ \E says \in {u, Continue} :
         /\ update' = [update EXCEPT ![u].at = "queued", ![u].says = says]
         /\ meant' = [meant EXCEPT ![u] = IF says = Continue THEN interrupted ELSE Nothing]
    /\ UNCHANGED <<unfinished, published, updating, build, interrupted>>

\* resolve_request of what pending returns: a bare continue stands for what was
\* interrupted, anything else for itself.
Resolved(says) == IF says = Continue /\ unfinished # Nothing THEN unfinished ELSE says

\* Without a repository there is nothing to change; otherwise the task is
\* resolved, on the document that the run read.
ResolvesTask(u) ==
    /\ update[u].at = "queued"
    /\ IF published
       THEN /\ update' = [update EXCEPT ![u].at = "read", ![u].task = Resolved(update[u].says)]
            /\ UNCHANGED <<updating, meant>>
       ELSE /\ update' = [update EXCEPT ![u] = [NotSent EXCEPT !.at = "over"]]
            /\ updating' = FALSE /\ meant' = [meant EXCEPT ![u] = Nothing]
    /\ UNCHANGED <<unfinished, published, build, interrupted>>

Ends(u) == update' = [update EXCEPT ![u] = [NotSent EXCEPT !.at = "over"]]

\* Over the quota: an error is shown, the record stays.
UpdateBlocked(u) ==
    /\ update[u].at = "read"
    /\ Ends(u)
    /\ UNCHANGED <<unfinished, published, updating, build, interrupted>>
    /\ meant' = [meant EXCEPT ![u] = Nothing]

MarksUpdating(u) ==
    /\ update[u].at = "read"
    /\ update' = [update EXCEPT ![u].at = "working"] /\ updating' = TRUE
    /\ UNCHANGED <<unfinished, published, build, interrupted, meant>>

\* A clean finish has nothing outstanding.
UpdateFinishes(u) ==
    /\ update[u].at = "working"
    /\ Ends(u) /\ unfinished' = Nothing /\ updating' = FALSE
    /\ Leaves(Nothing)
    /\ UNCHANGED <<published, build>>

\* History: what the user takes u to work on.
Understood(u) ==
    IF update[u].says = Continue /\ meant[u] \in Requested THEN meant[u] ELSE update[u].task

\* Variant: the prompt is recorded as it was sent.
RecordsPrompt(u) == unfinished' = update[u].says

\* The task, not the prompt, so that a continue may be continued.
RecordsTask(u) == unfinished' = update[u].task

\* The step limit, a stop, or an exception.
UpdateInterrupted(u) ==
    /\ update[u].at = "working"
    /\ Ends(u) /\ RecordsTask(u) /\ updating' = FALSE
    /\ Leaves(Understood(u))
    /\ UNCHANGED <<published, build>>

\* A worker that is lost writes nothing; neither does an exception before the
\* work has begun.
UpdateLost(u) ==
    /\ update[u].at \in {"queued", "read", "working"}
    /\ Ends(u)
    /\ UNCHANGED <<unfinished, published, updating, build, interrupted>>
    /\ meant' = [meant EXCEPT ![u] = Nothing]

\* stop_project lets the user send the next one while a run goes on.
StopLetsGo ==
    /\ updating' = FALSE
    /\ UNCHANGED <<unfinished, published, build, update, interrupted, meant>>

ResumeNext ==
    \/ BuildOverQuota \/ BuildStubs \/ BuildPublishes \/ BuildRecords
    \/ BuildCompletes \/ BuildFails \/ BuildLost \/ StopLetsGo
    \/ \E u \in Updates :
         \/ SendsUpdate(u) \/ ResolvesTask(u) \/ UpdateBlocked(u) \/ MarksUpdating(u)
         \/ UpdateFinishes(u) \/ UpdateInterrupted(u) \/ UpdateLost(u)

ResumeSpec == ResumeInit /\ [][ResumeNext]_resumeVars
-----------------------------------------------------------------------------
\* A "continue" works on what the user saw interrupted when she sent it, however
\* many runs it took: through further interruptions, lost workers, blocked and
\* stopped runs, and a build that never said how it ended.  If nothing was
\* outstanding, no finished work is taken up again.  Only another run that
\* settles before it is read comes in between (resolve_request, record, clear).
ContinueResumes ==
    \A u \in Updates :
      update[u].at \in {"read", "working"} /\ update[u].says = Continue /\ meant[u] # Overtaken
        => update[u].task = IF meant[u] = Nothing THEN Continue ELSE meant[u]
===============================================================================
