# Forgefy backend: a TLA+ verification project

Forgefy turns a meeting, or a prompt, into a running application: a meeting is recorded, its
transcript becomes a blueprint, the user approves the blueprint, a worker lets a coding agent build
the application, and the user then changes it by further prompts. The modules here model the parts
of the backend that decide, remember and interleave. TLC checks them on small instances, and TLAPS
proves the main invariants for every value of the constants.

Contents: 1 the system, 2 the modules and how they correspond to the code, 3 the runs, 4 bounds and
fairness, 5 what is proved, 6 what the code does and its documentation does not say, 7 what is not
modelled, 8 the plan, 9 how to run it.

## 1. The system

### Components

| component | state it keeps | operations | what must hold |
|---|---|---|---|
| Meeting session (`modules/voxa/`, `api/v1/sessions.py`, `blueprints.py`) | `sessions/{id}` in Firestore: a status of eight, transcript events, blueprints | create, join, live start, upload, end (by the user, by the bot), regenerate, approve, patch, delete | what is shown as ready has a blueprint; what is built was approved; nobody waits for ever |
| Meeting bots (`connectors/recall.py`, `connector_worker.py`, `webhooks.py`) | two Redis keys per bot, the bot at Recall, scheduled purges | dispatch with retries, lifecycle webhooks, removal, media purge | media is purged before the bot is forgotten |
| Self-hosted bot (`connectors/zoom_selfhosted.py`, `zoom_bot.py`, `zoom_oauth.py`) | a container, its mapping and secret in Redis; a grant on the user document and a lock | start, report, end, clean up; link, refresh, unlink | the meeting's end is the bot's end; a working grant is not lost |
| Live audio (`api/ws/voxa.py`, `transcription/`) | a registry of streams in the process, their buffers | join, send, flush, end, leave | every piece is kept or given up for a named reason |
| Blueprint generation (`blueprint_worker.py`, `blueprint_generator.py`, `upload_worker.py`) | blueprint documents | generate, retry, soft time limit, transcribe an upload | settles in a blueprint or in FAILED |
| Build queue (`core/dispatch.py`, `backpressure.py`, `celery_app.py`) | the broker's list | probe, enqueue, follow-up, take | bounded backlog that reopens |
| Project (`api/v1/projects.py`, `assistant.py`, `build/cancel.py`) | `projects/{id}`: `is_updating`, `db_decision_pending`, repository, database, links, `unfinished_work`; a cancel flag in Redis | approve, skip or connect a database, chat, update, publish, stop, delete | no build while the database question is open; a stop stops what it was meant for; an update ends; what the user is told was done |
| Build, update, preview and prompt workers (`build_worker.py`, `update_worker.py`, `prompt_build_worker.py`) | the run in progress | the whole run with its compile-and-repair loop, its failure paths | as above; what a link shows was saved; a continue resumes what was interrupted |
| Databases (`integrations/*_management.py`, `db_migrations.py`) | projects at a provider, tables, a status | provision, migrate, record | what the document says of its database is so |
| Workspace and auto-sync (`build/auto_sync.py`, `build/workspace.py`, `cleanup_worker.py`) | the directory `edit_{id}`, GitHub, a thread and a lock per run | ensure, checkpoint, stop, final sync, cleanup, eviction | work is not lost; what was pushed is reported |
| Agent loop and jobs (`build/provider_loop.py`, `build_agent.py`, `agent_tools.py`, `jobs.py`) | a conversation per phase and its counters, a report and a table of processes per workspace | phases, turns, tool calls, nudges, start and kill of jobs, cleanup | requests stay well formed; a loop that writes nothing stops; only a run's own validator signs it off; jobs end with their run |
| Build log (`build/build_logger.py`, `api/ws/build_logs.py`) | a channel and a bounded history in Redis | publish, replay, forward | a browser is shown the events in order, none twice |
| Usage, tiers, billing (`core/usage.py`, `tiers.py`, `billing.py`, the payment webhook) | counters per period, tier and expiry per user | evaluate, record, downgrade, extend | time that was paid for is served; consumption beyond the budget is bounded |
| Accounts (`auth.py`, `account.py`, `login_guard.py`, linked accounts in `build/*_token.py`) | credentials at Firebase, documents, counters with expiry, tokens | register, sign in, lock out, link, refresh, delete | an account can be signed in to; it is erased for good; a link stays |
| Devices and keys (`device_auth.py`, `keys.py`, `deps.py`) | device codes, keys, caches of every process | start, poll, approve, create, revoke, resolve | a key is handed over once, and dies out after its revocation |
| Extraction API (`extract.py`, `extract_api_worker.py`) | jobs and their callbacks | submit, run, call back, clean up | one Idempotency-Key is one run and one outcome |
| Assistant (`assistant.py`, `api/ws/assistant.py`) | threads and a memory per user | ask, remember, delete | a turn stays unless another overlapped it |
| Administration (`admin.py`) | the catalogue of models | add, remove, choose | requests one after another lose nothing |

`PROJECT.json` lists every component with its files, the ones that are left out too.

### How they interact

API coroutines, Celery workers and threads share Firestore documents, Redis keys, a directory and
the broker. There are no transactions: a handler reads a document in one await and writes it in a
later one. `set()` replaces a document, `update()` patches one and raises if it is gone.
Connector, generation and extraction tasks are acknowledged late and redelivered when their worker
is lost; build tasks are acknowledged when they are taken, and a lost worker loses them. A run stops
when it polls a flag that an API call set in Redis. Webhooks come late, twice and out of order.

### What is hard

Two calls between read and write of one status; a task that ends after the world moved on; a mapping
stored in two steps while a webhook clears it; a flag shared by all runs of a project that outlives
the run it was meant for; a question withheld while five endpoints may start work; an admission test
that is not atomic with the enqueue; two threads with one git directory; a join that times out; a
process lost in any of these; a conversation cut to a window; a store under a key that the next run has too. `PROJECT.json` lists them as hazards, at their lines.

## 2. The modules

| module | models | is extended by |
|---|---|---|
| `MeetingStates` | `SessionStatus`, `_TRANSITIONS`, `_ENDABLE` | `VoxaSession`, `ProjectRuns` |
| `VoxaSession` | session, bots, generation, up to the start of the build | `MCVoxaSession`, `VoxaSessionProofs`; instantiated by `MCLive` |
| `BuildAdmission` | dispatch and admission of build tasks | `MCLive`, `ProjectPartProofs` |
| `ProjectRuns` | the project's endpoints and the four worker runs | `MCProject`, `MCProjectRuns`, `ProjectRunsProofs` |
| `AutoFix` | compiling, repairing, deploying and reporting, of builds, previews and publications | `MCProject`, `ProjectPartProofs` |
| `Databases` | a project's database: provisioning, migration, what is recorded of them | `MCProject`, `ProjectPartProofs` |
| `ProjectChat` | a project's chat and the chain of models that answers it | `MCProject`, `ProjectPartProofs` |
| `ResumeState` | `unfinished_work`, by which a later run takes up what was interrupted | `MCProject`, `ProjectPartProofs` |
| `WorkspaceSync` | what becomes of an agent's work in a run's directory | `MCProject`, `MCLive`, `WorkspaceSyncProofs` |
| `JobTable` | the background jobs of a workspace | `AgentLoop` |
| `AgentLoop` | the phases of an update run and their turns, over a `JobTable` | `MCAgentLoop`, `AgentLoopProofs` |
| `LogFeed` | the build log: publisher, history, the two subscriptions of a browser | `MCServices`, `LogFeedProofs` |
| `OrderedFeed` | what the build log promises, abstractly; `LogFeed` implements it | `LogFeedProofs`; instantiated by `LogFeed` |
| `Subscription`, `TokenBucket` | tier, payments and lapse; the monthly budget | `MCServices`, `AccountProofs` |
| `SignIn`, `LoginGuard`, `AccountLink`, `Erasure` | credentials and accounts; the lockout; linked providers; deletion | `MCServices`, `AccountProofs` |
| `DeviceLogin`, `KeyCache` | the device flow and the minting of keys; their caches | `MCServices`, `AccountProofs` |
| `ZoomGrant`, `MeetingBot`, `LiveAudio` | the self-hosted bot's grant, its container; the microphone | `MCServices`, `ServiceProofs` |
| `ExtractJobs`, `ChatThread`, `Catalogue` | extraction jobs; the assistant's threads; the administrators' array of models | `MCServices`, `ServiceProofs` |

A definition whose comment begins with "Variant:" is a plausible bug of the definition after it. No
specification uses it; it shows that the properties notice.

**VoxaSession.** `status`, `blueprint` and `transcript` are the Firestore documents, `bots` and
`sessionBot` the two Redis keys of `_store_mapping`, `queue` the broker, `call` what each coroutine
and worker is in the midst of. One action is the code between two awaits. `Check` and `Write` are
`MeetingStateMachine.transition`, whose read and write are separate awaits; they serve every caller,
and `Raises` says what the exception does to each. `MarkFailed` is the write of FAILED that two
workers make without reading, and which may raise and be swallowed (`unmarked`). `ConnectorJoins`, `StoresBot` and
`MapsSession` are the bot's creation and the two keys of its mapping; either store may fail (`ConnectorTriesAgain`, or
`ConnectorGivesUp` on the last retry), either key lapses after its 24 h (`BotKeyLapses`, `SessionKeyLapses`), and what removes
a bot may be refused half-way (`RemovalErrs`). `TakeTask`, `Ack`, `Retry` and `Crash` are Celery's delivery. What the
language model answers, what a webhook says and whether Recall creates the bot are choices.

**BuildAdmission.** `Admit` is the probe, `Enqueue` the later await; `AdmitBlind` is a probe that
fails and lets the request pass; `FollowUp` and `Beat` enqueue without a probe.

**ProjectRuns.** `project` is the set of flags that are set in the document, `SetProject` the
`set()` that replaces it, `PatchProject` the `update()`. A run is a sequence of places
(`own`, `load`, `mark`, `ensure`, `agent`, ...), each of which ends in a write or in a decision.
Agents, compilers and deployments end well or badly. Any call may raise (`Raises`): where no handler catches it the run ends as
it is (`Unguarded`: what precedes the `try` of each worker, and every step of an API call), inside the `try` it goes on in the failure
path (`Guarded`). `signalled` is history: the runs during which a stop was requested; so are `answering`, the calls that hold or
answer what was decided last, and `dispatched`, that one of them has sent its build. A blueprint may be approved again: the second
approval has the same project and, while the session is APPROVED, no transition to make. The session starts with a blueprint (a
meeting) or in PROCESSING (a prompt).

**WorkspaceSync.** The work of an agent is a set of pieces in the working tree, in unpushed commits
or on GitHub. Actor 0 is the run, actor n the checkpoint thread of run n, with one lock per run
(`Lock`); `NothingStaged`, `Commit`, `Push`, `SyncFails`, `Flag` are `sync_to_github` and
`sync_now`. `Join` is `thread.join` with its timeout, which can pass only while a git command runs; a run that
it left so is in `outran`, which is history. `excused` is history: the pieces that a failing command, a lost process, an eviction or another
run's thread has handled. Runs of one project follow each other here; that two can meet is shown by
`ProjectRuns` (`ProjectEditors`). The database settings that a preview writes into `.env` are
derived again by every run and are no work. Rebase conflicts are resolved by pushing the agent's
version, so a push is one step; commits a user pushed in between are outside this model.

**JobTable.** `registered` is the workspace's entry of `_REGISTRY`; `leaders` and `children` are the processes,
which live on when the table does not. `KillJob` is `Popen.kill` and its wait, `KillAllJobs` the cleanup.

**AgentLoop.** `phase` and `at` say where `_run_update_sequence` stands: at the top of an iteration, in the calls
of an answer, at the return of a loop, done (the sequence ran to its end) or over (it was stopped or raised).
`messages` is the conversation after the seed, by the kind of each message, kept to the part that can still be sent;
`loop` holds the locals of `run_agent_loop`. An iteration is a request and its answer (`AnswersCalls`,
`AnswersText`, `AnswersNothing`, `SendFails`), then one action per call, then `TurnEnds` with the exploration
breaker. `stale`, `verdict` and `loop.idle` are history. What the model answers and what a tool changes are choices; a
tool that fails is one that changed nothing. `report` is the store `_REPORTS`, which outlives a phase that raised and a run.

**AutoFix.** `run` state (`purpose`, `stage`, `version`, the counters of the loop) is one run at a time, `shown` and
`released` say what the links of the project show; code is a number that grows with each fix. `Compiles`, `CompileFails`,
`Repairs`, `Deploys` and the four ways to report are the two loops of `build_worker.py`, which are written twice and
differ in the key they poll and in what their handlers catch. The guard against demo content is left out (it raises, see 6).

**Databases.** `base` is what exists at providers, step by step (`SupabaseSteps` and its like), `named`, `status` and `blueprint`
what the project document says. A call succeeds, fails with a text, or fails without one, which is recorded differently (`StatusOf`).

**ProjectChat.** `message` is a request's progress with what it read; what the model answered is a `Text`, or no JSON, or one of
another shape. `AsksModel` walks the chain of `chat_openrouter`. `answer` is what the user was told and `queuedFor` how often an update was
queued for the message: two things that the code keeps nowhere together.

**ResumeState.** A record is kept as the request it names, a request as the update that brought it. `interrupted` and `meant` are
history: what a user would say was interrupted, when she sends "continue".

**The services.** Each of the fifteen modules has one action per await of its handlers, with an actor per request, socket or task in
flight, and history variables, named as such, for what the property excuses. `MCServices` runs them side by side: a behaviour takes
the steps of one of them. **LogFeed** states its property as a refinement: `Promise` is `OrderedFeed` with `due`, the
event a browser will be sent next, `joinedAt`, the length of the log when it read the history, and `live`, the browsers of the second
subscription, as its refinement mapping. **Erasure** has every kind of document that names the user: those the deletion comes to, what it never
comes to and nothing else deletes (`Lasting`: the assistant's memory, the API keys) and what is deleted one by one in other ways
(`Loose`); and the two deletions a user makes alone, of a session and of a project. **MeetingBot** lets Redis refuse each call and forget
each key, before the mapping is stored (`LeftUnmapped`), after it (`SecretLapses`, `MappingLapses`) and in the cleanup (`ReaperErrs`).

## 3. The runs

Passing runs:

| run | asks | states |
|---|---|---|
| `Voxa` | a remote or a physical meeting, two calls at a time, a redelivered connector, two bots, failing stores, keys that lapse, a lost process: is a session ever presented without blueprint (`BlueprintBacked`), built unapproved (`BuildingApproved`), is the session key ever a bot that the API knows nothing of (`BotAccounted`), a bot forgotten unpurged (`PurgedBeforeForgotten`) | 1,970,000 |
| `Live` | three instances with their fairness: does a queued generation settle (`GenerateSettles`), is the build queue's backlog bounded (`BacklogBounded`) and does a full queue reopen (`Reopens`), is a run held for ever by its lock or join (`RunEnds`) | 46,300 |
| `Project` | six instances: runs - is the build of an open database question on its way (`WithheldIsIdle`), does a stop reach a run it was not meant for (`OnlySignalledStop`); the directory - is work lost without a cause (`LostOnlyExcused`), a push unreported (`PushReported`); the repair loop - was what a link shows saved (`ShownIsSaved`), how long does a loop go on after a stop (`StopEndsFixing`); databases - is what the document says so (`ConnectedIsReal`); chat - what becomes of a message after its answer (`AnswersAreFinal`); resuming - does a continue work on what was interrupted (`ContinueResumes`) | 809,000 |
| `Agent` | two runs, an optional test phase, a job, a lost worker: is a request ever malformed (`RequestsWellFormed`), a repeated read refused after the agent changed it (`NoticeIsHonest`), how long does a loop go on without a write (`StallBounded`), can another's report sign a run off (`SignedOff`), does a job outlive its run (`JobsEndWithRun`) | 3,530,000 |
| `Services` | fifteen instances, one property each: `PaidTimeServed`, `FullPriceBounded`, `AccountReachable`, `LockoutHolds`, `DeliveredOnce`, `RevocationTakesHold`, `CatalogueKept`, `ErasedForGood`, `GrantKept`, `BotEndsWithMeeting`, `AudioAccounted`, `JobToldOnce`, `TurnsKept`, `LinkKept`, and the refinement `FeedKept` | 935,000 |

Violation runs, each a disagreement between the code and a sentence of its own, which `findings` quotes:

| run | shows |
|---|---|
| `VoxaSoftLimit` | a generation that always meets its soft time limit leaves the session in PROCESSING, where it cannot be regenerated |
| `VoxaGivesUp` | a connector that fails on its last retry leaves the session waiting for a bot: `retry(exc=exc)` raises `exc`, and the handler that would mark the session FAILED waits for `MaxRetriesExceededError` (`JoinResolves`) |
| `ProjectEditors` | two updates are accepted before either worker sets `is_updating`, and work in one directory |
| `ProjectDatabase` | the build's stub replaces the document on which a database connection was recorded |
| `ProjectStuck` | a second approval, which found the session APPROVED, dispatches a build of a session that is BUILDING: the transition raises outside the `try` and `is_updating` stays set (`RunsSettle`) |
| `SyncLost` | a checkpoint commits and fails to push; the final sync finds nothing staged, pushes nothing, and the directory is deleted |
| `AgentOrphans` | killing a job ends the process that was started, not the ones it forked |

Four properties of passing runs state what the code does where a sentence of the repository says more; `findings` quotes the sentence:

| property | says | the repository says |
|---|---|---|
| `PushReported` | what a run pushed is reported, *but for a run whose thread outlasted the join*: it pushes, and sets the flag in a later step | a checkpoint's push is never read as "no changes" (update_worker.py:253-256) |
| `AnswersAreFinal` | a message answered with a promise to queue it *is never queued* | "I'll queue this as soon as it finishes" (projects.py:821, 863; 506 likewise) |
| `ErasedForGood` | memory and API keys *are still there* after the account's deletion, and so is what lost its parent before | "all associated data" (account.py:184) |
| `FeedKept` | between the history and the second subscription there *is a gap* | "the client never misses earlier entries" (build_logs.py:44-47) |

Every property of a passing run is broken by a variant of a definition, listed under `mutants`. For
instance `BlueprintBacked` by moving the session before the blueprint is saved, `OnlySignalledStop`
by a run that does not wipe the old flag, `LostOnlyExcused` by a sync without lock, `SignedOff` by a review that keeps an
earlier report, `ContinueResumes` by a record of the prompt in place of the task, `ErasedForGood` by a deletion that begins with
the user document, `FeedKept` by a first subscription that is kept.

## 4. Bounds and fairness

Bounds: `MaxRequests`, `MaxDecisions`, `MaxCrashes`, `MaxUnchecked`, `MaxRuns`, `MaxCalls`,
`MaxFixes` and those of the services are guards, each named and each a CONSTANT. Two coroutines are the least that interleave between read and
write, and one worker with a queue that remembers retries is enough to deliver late, twice and out of
order; `Project` has two workers since runs overlap there. Four API calls (`MaxRequests`), two of them
decisions to build (`MaxDecisions`), are the longest story these properties need: approve, approve again, answer the question of the
first, and a stop or an update. In the directory two runs are enough for a thread that outlives its run, and two
pieces of work let one fail and the other not; `Live` has one piece, since liveness does not tell pieces apart. The retry limits are lowered
from 2 and 3 to 0, 1 or 2, the fix attempts from 10 to 1 or 2: the code treats all but the last alike. `Voxa` has no retry of
the connector and a redelivery instead, which repeats the task the same way; the retry fires in `Live` and `VoxaGivesUp`. `Live` has
no bots, which do not matter to a generation. In `Agent` a
window of one pair, one nudge, a streak of two and five iterations (20 pairs, 2, 12 and up to 80 in the code) let the window cut
every conversation, the breaker fire twice and the limit be reached; two calls per turn are enough for a read after a write in one answer;
two runs for a report that is left behind. `Unplanned` names the optional phases no plan asks for: the schema,
design and security phases run like the execution and test phases do. A run is stopped at its first phase, at an iteration or between phases. The proofs below lift the
bounds for the invariants they cover. `Symmetry` permutes coroutines, workers, blueprints and bots in runs without
liveness properties only.

The instances of one run that share no state (`MCLive`, `MCProject`, `MCServices`) are chosen between at the start, so that a run checks
what a run of each would. In `Services` two actors per handler let each pair of reads and writes interleave; where the property excuses
one overlap, a third (`Meetings`, `Turns`, `Keys`) shows that the rest holds after it. Terms, windows and times to live are two or
three units, enough for an actor that is slower than they are; caps (`HistoryMax`, `HistoryCap`, `MaxActive`) are reached and passed.
`Updates` are three: one that is interrupted, a continue that is interrupted again, a continue of that.

Fairness: a coroutine or worker that has begun goes on (weak fairness of its steps), since each call
it makes has a timeout and each agent loop a limit of turns. A waiting task is taken: in `VoxaSession` weak fairness of taking any, and
strong fairness of taking the connector's and the generation's, whose queue the other tasks of a session cannot keep busy for ever;
in `ProjectRuns` strong fairness per kind of task, which only `ProjectStuck` uses. The queue of `BuildAdmission` is served in order of arrival.
In `WorkspaceSync` the lock is taken by the run that waits for it (strong fairness: a checkpoint thread holds it once in ninety
seconds). Users, webhooks, crashes, failing calls, agents' edits, lapses and evictions are never assumed. `Live` has the three fairness
conditions of its modules side by side: a part that was not chosen has no step to be fair to. A run in which the system
may stop - all users done, all bounds used - has `CHECK_DEADLOCK FALSE`. The services, the repair loop, the database, the chat and
the record of a project have safety properties only: what they wait for is a user, a provider or a timer that nobody promises.

## 5. What is proved

| theorem | for every |
|---|---|
| `VoxaSessionProofs!TypeCorrect`, `ReadyHasBlueprint`, `BuildingHasApproved`, `BotIsAccounted`, `PurgeIsNeverLost` | number of coroutines, workers, blueprints, bots, retries, requests and crashes |
| `ProjectRunsProofs!TypeCorrect`, `OnlySignalledRunsStop`, `OpenQuestionHoldsTheBuild` | number of coroutines and workers, requests, decisions to build and crashes, with and without failing calls |
| `WorkspaceSyncProofs!TypeCorrect`, `LossIsExcused`, `PushesAreReported` | number of runs, fixes and pieces of work |
| `LogFeedProofs!FeedImplements` | number of browsers and events, length of the history |
| `LogFeedProofs!Ordered` | number of readers and events of the abstract feed |
| `AgentLoopProofs!TypeCorrect`, `RequestsStayWellFormed`, `StallIsBounded`, `NoticeHonest`, `OnlySignedOffEnds`, `JobsEnd` | window, iteration, nudge and streak limit, set of reads, of jobs and of planned phases, number of runs, calls and crashes |
| `AccountProofs!AccountStaysReachable` | number of requests at once, number of ids |
| `AccountProofs!LockoutHoldsForAll` | finite set of logins at once, limit of attempts |
| `AccountProofs!KeyIsDeliveredOnce` | number of polls; finite sets of approvals, requests of the dashboard and keys; any cap |
| `AccountProofs!RevokedKeysDieOut` | number of requests and processes, time to live, duration of a query |
| `AccountProofs!LinkIsKept` | number of flows, callbacks, calls for a token and grants; each provider |
| `AccountProofs!ErasureIsFinal` | number of sessions and projects, of failures and repetitions |
| `AccountProofs!PaidTimeIsServed` | number of requests, payments and deliveries, length of a term |
| `AccountProofs!FullPriceIsBounded` | finite sets of callers and tiers, budgets, size of a call, number of months |
| `ServiceProofs!GrantIsKept` | number of meetings that share a grant |
| `ServiceProofs!BotEndsWithItsMeeting` | number of cleanups, retries and lost workers |
| `ServiceProofs!AudioIsAccounted` | number of sockets, streams and pieces of audio |
| `ServiceProofs!TurnStaysKept` | number of turns and threads, caps of history and memory |
| `ServiceProofs!JobIsToldOnce` | number of requests, of documents made anew and of retries |
| `ServiceProofs!CatalogueIsKept` | number of administrators and models |
| `ProjectPartProofs!BacklogIsBounded` | finite sets of requests and workers, any depth |
| `ProjectPartProofs!ContinueIsFaithful` | number of updates |
| `ProjectPartProofs!ShownStaysSaved`, `StopEndsAllFixing` | limits of fixes, errors and runs |
| `ProjectPartProofs!ConnectedDatabaseIsReal` | number of connects, migrations and databases, blueprints, tables |
| `ProjectPartProofs!AnswersStayFinal` | number of messages, lengths of the chain of models |

They assume only the named assumptions of the modules they are about (`ConstantsAssumption` of `VoxaSession`, `AdmissionAssumption` of
`BuildAdmission`, and so on; a module that gathers the proofs of several components cites in each part those of its own): that bounds are
natural numbers; that the window, the history, the caps of a thread and of a memory, the streak limit, a time to live, a term, a budget and
a limit of attempts are positive; that requests and workers of the build queue, logins, callers, tiers, jobs, keys and their minters are
finitely many; that coroutines are not workers, nor sessions projects; that the default models are models, and a blueprint a sequence
of the entities that have a table; and that names which stand for "nobody" or "nothing" name nobody. The arguments:

* **VoxaSession.** `BlueprintBacked` is not inductive: a call past its `Check` will write whatever the
  document says. `Promises` adds what each call in flight has already established - one about to present the
  session as ready has a blueprint, one about to mark BUILDING an approved blueprint, one about
  to forget a bot has scheduled its purge. It follows a bot between the two stores of its mapping,
  where a webhook may forget it and its key may lapse: who is about to store the session's key has a bot that is still mapped or scheduled. Blueprints are never deleted, so promises are kept by the
  others' steps; `QuietStep` proves once what most steps need.
* **BuildAdmission.** The queue's length alone is not inductive. `CommittedBounded` counts what is
  committed to enter it: admitted requests and workers that may still enqueue a follow-up. A probe
  commits one more only below the maximum, and a follow-up does not itself chain.
* **ProjectRuns.** `FlagIsMeant`: when the flag is set, every run past its first step has been
  signalled - it wiped the flag in that step, so whoever set it did so since. `OneMoves` proves
  the steps that move one process.
* **ProjectRuns, the open question.** `WithheldIsIdle` speaks of the decision made last, and is inductive as it stands: a new decision
  forgets the calls that answer an earlier one (`answering`) and whether these sent a build (`dispatched`), and a call that answers it is
  about to send its build only once the question is closed. `Keeps` proves the steps of one process to a call that sends nothing or answers
  nothing, `KeepsIdle` and `KeepsGoing` its two common cases, `Sent` the dispatch. Nothing bounds the decisions: that a later question
  can be open while the build of an earlier decision runs is in the model, and the property speaks of the later one.
* **WorkspaceSync.** `Exclusive` is the lock. `CommitsHeld` says that a commit is excused or someone of
  the current run is about to push it. `NothingAtRisk` names the places of a run (before its work, after its
  final sync, a preview between two fixes) in which the directory holds nothing unexcused; leaving is one. `ReportHeld` keeps
  `PushReported` from the start of a run on, together with `Joined`: where the join did not time out, no thread of the run is left that
  could push once its final sync began. It needs that the thread of a run does not exist before its directory (`NotYetStarted`).
* **AgentLoop.** The invariant is a conjunction of parts that are kept separately. `StallInv` relates the history to
  the counters: the turns since the last write are at most the streak plus one full streak per nudge spent.
  `ConversationInv`: every two adjacent kept messages are a call and its results or neither, and the last is a call exactly
  while its tools run; cutting at the front keeps this, and so only the first message of a window can be results that lost
  their call (`WindowWellFormed`). `ReportIsOurs`: a report there is during a validation is what this validation filed, since
  it began by dropping any other. `TableIsEmptied`: between runs no job is registered.

* **LogFeed implements OrderedFeed.** `FeedImplements` has the shape of every refinement: the initial states map to initial states
  (`StartsOrdered`), and each action maps to an action of the abstract feed or to a stutter. The invariant it needs, `FeedRuns`, says that
  what a browser has yet to be sent is two runs of consecutive numbers: the rest of its replay, which ends where it read the history, and
  its inbox, which ends with the last event published. The event that is `Due` is then at each step the next one, but at the one step that
  is the abstract feed's `GoesLive`: the second subscription, which skips what was published since the history was read.
  Facts about runs of numbers (`AppendIs`, `TailIs`) are stated once. `Ordered` is what the abstraction gives: what a browser was shown is
  increasing.
* **KeyCache.** An entry is stamped no later than the query it came from ended and is used for less than a time to live; so every entry,
  and every request that carries an answer from before the revocation, is stamped before it.
* **LoginGuard.** The counter alone is not inductive, since a login that passed the check is not yet counted. The invariant counts
  passwords: each wrong one tried has been counted, is about to be (`Counting`) or was skipped; and those tried together with the logins
  let in that may still try one (`Trying`) stay below the limit plus the number of logins, because none is let in at the limit.
* **ZoomGrant.** Who holds the lock presents what is stored, and while it waits for Zoom's answer nobody writes the stored token - unless
  something came between (`strayed`).
* **ResumeState.** The record is what was interrupted last (`RecordIsLast`), and a continue that waits was sent for that or has been
  overtaken (`WaitsForLast`); what it resolves to is therefore what it was sent for. `Settles` and `Proceeds` prove the two kinds of
  step, a run that ends and one that goes on.

* **SignIn.** Each request carries what it read, and the address has one credential. The invariant `SignInInv` says that a request knows only
  ids that were given out, so that a new credential is nobody's (`FreshLogin`); that, unless requests crossed, there is one account at
  most; and that a request about to delete the credential leaves none (`DeletesSafely`). An account without a credential must be the one
  from before Firebase: which id that is is fixed from the start and stored nowhere, and so the invariant quantifies it.
* **DeviceLogin.** Only a start dates a document, and it forgets what was delivered: once a key was handed over no document is dated, and
  no poll takes an undated one for current.
* **AccountLink.** Per provider, what the calls for a token hold: GitHub's is never replaced, Google's stays good beside its successor, and of
  Supabase's calls only one has been given a successor, since the token it presented was spent (`SupabaseSound`).
* **Erasure.** `Rooted`: a document the deletion is meant for has its parent, unless it was written late or lost its parent by another
  deletion (`astray`). `Covered`: the deletion has yet to come to it. When the account goes nothing of it is ahead. What the deletion never
  comes to (`Lasting`) is in the property as what stays.
* **Subscription.** `NoLonger` counts the redeliveries under way in advance, as each has been counted when it began; so the one that ends
  adds a term that was allowed for.
* **TokenBucket.** A caller that was let in reserves the largest call: consumption and reservations together stay below the
  largest budget and a call per caller. That finitely many tiers have a largest budget is an induction on finite sets; it is made
  through the well-foundedness of the strict subset on finite subsets (`WFMin`), which takes a set where the induction theorems take an operator.
* **MeetingBot.** `BotInv`: a container runs without a mapping only for a reason that is noted (`strays`: its mapping was
  refused or lapsed, no cleanup was dispatched or it was refused, or the container's stop failed). After the meeting's end a cleanup is under way for as long as there is a mapping or one to come
  (`ReaperBusy`), unless something else than a stop went wrong (`Astray`, which `AstrayKeeps` shows stays); so at the end of all of them neither
  is left.
* **LiveAudio.** Streams are disjoint, and what a stream does with its chunk is one of two lemmas: it is taken (`TakenMoves`), or let go
  of with a reason for every piece (`ChunkMoves`).
* **ChatThread.** A turn writes back the list it read, with itself at the end. A list that was read is therefore kept as sound as the one it will
  replace (`TurnSound`, `ThreadSound`, `MemorySound`): a turn missing from it met this one, or was pushed out by later ones. To say
  "later" of a list that is no longer the stored one, `Chain` orders each list by the answers given (`told`), except for turns that met.
  `Advances` names what only grows, and with it what was sound stays so.
* **ExtractJobs.** The call that created a job is the only one that queues it (`PostersSound`), the task has one event (`JobSound`), and unless the
  cleanup crossed a run all under way is about the document there is (`DocSound`).
* **Catalogue.** Who is about to choose a model has seen it offered.
* **AutoFix.** `StopInv`: after a fix under a stop the flag is set and the next place polls it. `LinksInv`: what compiled had been pushed, or
  its push had failed, and a link is of that.
* **Databases.** `Grows`: a database keeps its provider, tables and policies; so what a call found stays true until it writes it down.
  The next database is numbered with the least number that is free, whose existence is `LeastNatural`.
* **ProjectChat.** A message that is unanswered has queued nothing, and each step that answers settles both; nothing is queued for a
  message that was answered, whatever the answer promises.

The type invariants of `ProjectRuns`, `WorkspaceSync` and `AgentLoop` are proved, so no run repeats them. Every invariant and
action property that a passing run checks is proved. Model-checked only: the liveness properties (`GenerateSettles`,
`Reopens`, `RunEnds`), since the prover handles neither ENABLED nor fairness; and the violation runs, which are counterexamples.

## 6. Observed and not listed as a finding

What follows was seen while modelling; the models contain the behaviour and no property contradicts it.

* The status can leave the documented graph: `transition` (state_machine.py:55-111) reads and writes in
  two awaits, and `connector_worker.py:52` and `blueprint_worker.py:35` write FAILED over any status - a meeting
  that has been ended meanwhile, a session that is READY from an earlier generation. That write may itself fail, which
  is swallowed (connector_worker.py:67-71, blueprint_worker.py:112-115): the session stays where it was.
* The user's end and the bot's end can both pass `_finalize_end` and dispatch two generations; the
  second one finds the session READY, is retried and at last marks it FAILED.
* A failed transcription of an upload leaves the session in PROCESSING (upload_worker.py:40).
* `recall_remove_bot` that runs before the connector stored its mapping finds nothing to remove; the bot then
  joins a meeting that has ended and leaves by itself. A bot whose own key was never stored, or lapsed after its 24 h, is
  known to nobody, and its media are not purged; a removal or a webhook that Redis refuses half-way is not tried again.
* Workers enqueue without a probe, so the queue does exceed `BUILD_QUEUE_MAX_DEPTH`; `BacklogBounded` is what holds.
* `stop_project` sets the flag of the project (projects.py:193), the build polls the flag of the session
  (build_worker.py:835): a stop never ends a build. A stop sent to a queued run is wiped when it starts.
* `is_updating` stays set, until the user presses stop, in more ways than the one `ProjectStuck` finds: an approval or an answer writes it
  and is then refused with 429; a preview that honours a stop returns without writing it (build_worker.py:1281), while the comment
  says "Cleared in both the success and failure paths below" (build_worker.py:1227-1228); and what raises before a worker's `try`
  (build_worker.py:583-672, 1180-1206; update_worker.py:78-94).
* With two approvals, the stub of the one or the answer to its question erases the question of the other. Two first approvals that overlap
  find no project id recorded and make two projects (blueprints.py:182).
* A build that waits in the queue creates the document of a deleted project again (build_worker.py:676).
* A database question that is answered and whose dispatch is refused cannot be answered again (projects.py:1162).
* `_BuildFixExhausted` is caught by the inner `except Exception` (build_worker.py:1010), so its own handler
  never runs for a build; the build is recorded as a success, and its record of unfinished work is cleared. The demo guard of the
  same stretch awaits a plain function (build_worker.py:899), a TypeError whenever it finds demo content.
* A failed link is written as it is: a deployment that returns no Expo address overwrites the address there was.
* A worker lost in mid-run leaves `is_updating` set and no task to repeat, since build tasks are acknowledged when taken
  (build_worker.py:1154). Two approved blueprints of a dual product both build the session's latest (build_worker.py:553).
* `patch_blueprint` tests `approved` on the document it read and replaces `json_output` in a later await
  (blueprints.py:136-147), so an edit can change what was approved in between; `edited` in `VoxaSession` records it.
* A repeated read is answered with "the workspace has not changed since" although background jobs may have changed it, and
  although its first answer may have left the window (20 pairs of messages, provider_loop.py:1044; up to 36 tool turns without a write).
  `NoticeIsHonest` therefore speaks of the agent's own changes.
* The window "starts on an assistant turn" (provider_loop.py:1041), but `_trimmed` lets it start with a nudge too: the seed and the
  nudge are then two adjacent user messages, which line 1183 wants to avoid.
* Review phases are nudged to call `write_file` like the others (provider_loop.py:1108-1130).
* A stop requested in the last phase ends its loop and nothing else: the sequence does not look at it again (build_agent.py:3313-3325).
* Jobs are killed in `cleanup()`, after the final sync: what they write between the two is lost with the directory.
* A cancelled preview does not stop its checkpoint thread (build_worker.py:1281). The thread outlives the run, and
  if the next run is in the same directory both use git there, each under its own lock. `LostOnlyExcused` and
  `PushReported` excuse what that thread handles.

The chat, the database and what is resumed:

* A structured message, and an answer of the model that is no JSON, are queued without the question about a database.
  A completion whose body has another shape than the API's would raise outside the chain's `except` and end it early; the
  model assumes that there is none. `save_chat_history` replaces the whole list and is not modelled.
* A migration whose exception has no text - a connection that times out - is recorded as "ready": `status` tests `if self.error`
  (db_migrations.py:51), while the docstring promises that a failure is recorded. `silent` in `Databases` marks it.
* A provisioning that fails midway leaves a project at the provider; two connects make two, and the document keeps the last.
  `db_status` stays "ready" after another database is named. A changed entity's new columns are never added
  (`CREATE TABLE IF NOT EXISTS`), and two entities of one slug share the first one's table.
* A build that stops at its agent's limit, or whose repairs are given up, clears `unfinished_work` like a complete one. The `kind` of a record
  is never read. A request is kept to its first 500 characters, so a long one is resumed in part. A message in chat reaches the
  worker as the classifier words it, so that a "continue" is resumed only if the classifier leaves it alone. A lost update leaves no record
  of its request, and a clean finish of another run clears the one there is.

The services:

* The container of a self-hosted bot whose mapping Redis refused, or forgot after 24 h, runs on, and so does one whose cleanup met a Redis
  error: `zoom_bot_cleanup` does not retry it (zoom_bot_worker.py:24-50).
* A lockout whose `expire` was lost never ends, against the docstring (login_guard.py:67-68).
* Two polls of one device code that overlap may both be handed the key, against the comment at device_auth.py:115-117; two approvals counted
  together pass the cap of keys.
* `delete_session` leaves the session's blueprints, which the account's deletion no longer finds (`astray` in `Erasure`). A payment
  delivered twice extends twice.
* A finish that is cancelled loses the chunk that is being transcribed; live segments may be persisted twice, and a refused dispatch has the chunk
  transcribed again.
* A dispatch taken for a failure may mark a job that is done as failed, and blocks its Idempotency-Key; a merge after the
  cleanup makes a job's document anew, without an owner.
* Turns that overlap overwrite one another's messages and memories.
* `is_token_valid` returns False for any network error, so a good GitHub token is cleared, while its docstring speaks of revoked and
  expired ones. A link stored while the old token is being checked or refreshed is overwritten or cleared; a lost replacement
  of Supabase's refresh token ends the link. Two callbacks of one flow both read its verifier; the provider redeems the code once.
* The disk cap may evict a directory in use (cleanup_worker.py:82); `WorkspaceSync` excuses what is lost so.

## 7. What is not modelled

Agents' prompts, plans and answers, wire formats of the providers, the content of transcripts, blueprints and logs: data the
properties do not tell apart. The build's own agents, which run one loop each, the demo guard, template scaffolding and installation,
compilers and deployments are a choice between success and failure. The Claude Code backend runs another program. The AI extraction
pipeline, the design system, project memory, prompts of the assistant and the voice endpoints compute texts from
texts. Reports of the administration, polling gateways, listings and profile endpoints only read or patch one field.
Signatures and the issue and check of tokens are taken to work. Two deployments beside the backend (`src/cloudflare/`,
`src/gentle-meadow-b376/`), the clients in `src/sdks/`, scripts and tests are no part of it.

Celery, Redis, Firestore, Firebase Auth, git, Recall, Zoom, Deepgram and the other providers are external and modelled by what the code
relies on: a task is delivered at least once (acks_late) or at most once, `set` and `update` are atomic, a key expires, a refresh
token is spent by use, a git command succeeds or fails as a whole. The first build's directory, which belongs to
it alone, is not in `WorkspaceSync`; a build that the quota blocks is in `ResumeState` and not in `AutoFix`.

## 8. Plan

Proofs to come: the abstract meeting below, and that `VoxaSession` implements it.

Models to come: a meeting (waiting, recorded, designed, built, failed) that `VoxaSession` refines, as `LogFeed` does its feed; the session
of a lost worker's project, which nothing settles today; commits that a user pushes while an agent works.

## 9. Running it

    tlc -workers 2 -config Voxa.cfg MCVoxaSession      # and likewise each .cfg with the module its run names
                                                       # (SyncLost.cfg with WorkspaceSync itself)
    tlapm VoxaSessionProofs.tla                        # and the other *Proofs modules
