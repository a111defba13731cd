------------------------------ MODULE AgentLoop ------------------------------
(***************************************************************************)
(* The agent of an update run: the phases of _run_update_sequence, each a  *)
(* run_agent_loop with a conversation of its own, over one workspace with  *)
(* the background jobs the agent starts.                                   *)
(*                                                                         *)
(* What the model answers, which tools it calls and what they change are   *)
(* choices.  A turn is a request, the calls of its answer one by one, and  *)
(* the turn's end; background jobs and the user's stop fall in between.    *)
(***************************************************************************)
EXTENDS JobTable, Sequences

CONSTANTS
    Reads,          \* read-only calls, each a tool with its arguments
    Unplanned,      \* bound: the optional phases that no plan asks for
    HistoryPairs,   \* history_pairs of the adapter
    MaxIterations,  \* max_iterations of a phase
    MaxNudges,      \* _MAX_NUDGES
    MaxStreak,      \* _MAX_EXPLORE_STREAK
    MaxCalls,       \* bound: tool calls in one turn
    MaxRuns,        \* bound: runs of the project
    MaxCrashes      \* bound: worker processes lost

ASSUME LoopAssumption ==
    /\ HistoryPairs \in Nat \ {0} /\ MaxIterations \in Nat
    /\ MaxNudges \in Nat /\ MaxStreak \in Nat \ {0}
    /\ MaxCalls \in Nat /\ MaxRuns \in Nat /\ MaxCrashes \in Nat

VARIABLES
    phase,      \* the phase that runs
    at,         \* where the run stands
    messages,   \* the conversation after the STABLE seed: its last, kept part
    loop,       \* the local counters of run_agent_loop
    seen,       \* seen_reads
    stale,      \* history: reads changed since they were answered, and by whom
    report,     \* _REPORTS[workspace]
    verdict,    \* history: what this run's validator filed, or "fixed"
    cancelled,  \* the user's stop
    runs,       \* runs begun so far
    crashes     \* processes lost so far

talk == <<messages, loop, seen, stale>>
bounds == <<runs, crashes>>
vars == <<phase, at, talk, report, verdict, cancelled, bounds, jobVars>>

\* schema, design, test and security are run when the plan asks for them.
Phases == {"schema", "design", "execute", "validate", "fix", "test", "security"}
Review == {"validate", "test", "security"}

\* user: a nudge; say: an answer without calls; call and results: a tool turn.
MessageKinds == {"user", "say", "call", "results"}
Reports == {"none", "clean", "issues"}
Places == {"idle", "top", "calls", "left", "done", "over"}

\* idle counts, for the properties only, the tool turns since the last write.
FreshLoop == [iteration |-> 0, nudges |-> 0, streak |-> 0, calls |-> 0,
              wrote |-> FALSE, wroteNow |-> FALSE, idle |-> 0]

Loops == [iteration : 0..MaxIterations, nudges : 0..MaxNudges, streak : 0..MaxStreak,
          calls : 0..MaxCalls, wrote : BOOLEAN, wroteNow : BOOLEAN, idle : Nat]

TypeOK ==
    /\ JobsTyped
    /\ phase \in Phases /\ at \in Places
    /\ messages \in Seq(MessageKinds)
    /\ loop \in Loops
    /\ seen \subseteq Reads /\ stale \subseteq Reads \X {"agent", "job"}
    /\ report \in Reports /\ verdict \in Reports \cup {"fixed"}
    /\ cancelled \in BOOLEAN /\ runs \in 0..MaxRuns /\ crashes \in 0..MaxCrashes

Init ==
    /\ JobsInit
    /\ phase = "execute" /\ at = "idle"
    /\ messages = << >> /\ loop = FreshLoop /\ seen = {} /\ stale = {}
    /\ report = "none" /\ verdict = "none" /\ cancelled = FALSE
    /\ runs = 0 /\ crashes = 0

-----------------------------------------------------------------------------
(***************************************************************************)
(* The sequence of phases: the plan skips some, and the validator's report *)
(* decides on the fix pass.                                                *)
(***************************************************************************)
Successors == [
    start    |-> {"schema", "design", "execute"},
    schema   |-> {"design", "execute"},
    design   |-> {"execute"},
    execute  |-> {"validate"},
    validate |-> {"test", "security", "done"},
    fix      |-> {"test", "security", "done"},
    test     |-> {"security", "done"},
    security |-> {"done"}]

\* A review takes its report; one that is missing counts as unresolved.
Taken == IF phase \in Review THEN "none" ELSE report
NeedsFix == phase = "validate" /\ report # "clean"

\* The locals of a loop, and what it knew, go with it.
Forget == messages' = << >> /\ loop' = FreshLoop /\ seen' = {} /\ stale' = {}

\* Variant: a review keeps an earlier report.
EnterPhaseUnreset(p, kept) ==
    /\ phase' = p /\ at' = "top" /\ Forget
    /\ report' = kept
    /\ verdict' = IF p = "fix" THEN "fixed"
                  ELSE IF p \in {"test", "security"} THEN verdict ELSE "none"

\* A phase begins a conversation; a review first drops an earlier report.
EnterPhase(p, kept) ==
    /\ phase' = p /\ at' = "top" /\ Forget
    /\ report' = IF p \in Review THEN "none" ELSE kept
    /\ verdict' = IF p = "fix" THEN "fixed"
                  ELSE IF p \in {"test", "security"} THEN verdict ELSE "none"

\* The worker has cleared an old stop; a new one may come before any phase.
StartRun ==
    /\ at = "idle" /\ runs < MaxRuns
    /\ runs' = runs + 1
    /\ \/ cancelled' = FALSE /\ \E p \in Successors["start"] \ Unplanned : EnterPhase(p, report)
       \/ /\ cancelled' = TRUE /\ at' = "over" /\ Forget
          /\ phase' = "execute" /\ verdict' = "none" /\ UNCHANGED report
    /\ UNCHANGED <<crashes, jobVars>>

\* Nobody asks for a stop after the last phase.
Halted == cancelled /\ phase # "security"

PhaseEnds ==
    /\ at = "left" /\ ~Halted
    /\ \E p \in IF NeedsFix THEN {"fix"} ELSE Successors[phase] \ Unplanned :
         IF p # "done" THEN EnterPhase(p, Taken)
         ELSE at' = "done" /\ Forget /\ report' = Taken /\ UNCHANGED <<phase, verdict>>
    /\ UNCHANGED <<cancelled, bounds, jobVars>>

SequenceStops ==
    /\ at = "left" /\ Halted
    /\ at' = "over" /\ Forget /\ report' = Taken
    /\ UNCHANGED <<phase, verdict, cancelled, bounds, jobVars>>

\* Variant: the directory is removed and the jobs are left.
CleanupLeavesJobs ==
    /\ at \in {"done", "over"}
    /\ at' = "idle"
    /\ UNCHANGED <<phase, talk, report, verdict, cancelled, bounds, jobVars>>

\* The run's cleanup, in whichever way it ended.
Cleanup ==
    /\ at \in {"done", "over"}
    /\ at' = "idle"
    /\ KillAllJobs
    /\ UNCHANGED <<phase, talk, report, verdict, cancelled, bounds>>

-----------------------------------------------------------------------------
(***************************************************************************)
(* One loop.                                                               *)
(***************************************************************************)
\* No more than the last 2 * HistoryPairs messages are ever sent.
Keep(m) == LET n == 2 * HistoryPairs
           IN IF Len(m) <= n THEN m ELSE SubSeq(m, Len(m) - n + 1, Len(m))

\* Variant: the window begins with whatever message it cuts to.
TrimmedBlindly == messages

\* The window skips results that lost their call.
Trimmed ==
    LET starts == {i \in 1..Len(messages) : messages[i] # "results"}
        first == CHOOSE i \in starts : \A j \in starts : i <= j
    IN IF starts = {} THEN << >> ELSE SubSeq(messages, first, Len(messages))

Turning == at = "top" /\ loop.iteration < MaxIterations /\ ~cancelled
NextTurn == [loop EXCEPT !.iteration = @ + 1]

StopsByUser ==
    /\ at = "top" /\ loop.iteration < MaxIterations /\ cancelled
    /\ at' = "left"
    /\ UNCHANGED <<phase, talk, report, verdict, cancelled, bounds, jobVars>>

ReachesLimit ==
    /\ at = "top" /\ loop.iteration = MaxIterations
    /\ at' = "left"
    /\ UNCHANGED <<phase, talk, report, verdict, cancelled, bounds, jobVars>>

\* The answer calls tools.
AnswersCalls ==
    /\ Turning
    /\ messages' = Keep(Append(messages, "call"))
    /\ loop' = [NextTurn EXCEPT !.calls = 0, !.wroteNow = FALSE]
    /\ at' = "calls"
    /\ UNCHANGED <<phase, seen, stale, report, verdict, cancelled, bounds, jobVars>>

\* The answer calls none: DONE or not, it is pushed back while nothing has
\* been written and nudges are left, and else ends the loop.
AnswersText ==
    /\ Turning
    /\ IF ~loop.wrote /\ loop.nudges < MaxNudges
       THEN /\ messages' = Keep(messages \o <<"say", "user">>)
            /\ loop' = [NextTurn EXCEPT !.nudges = @ + 1]
            /\ at' = "top"
       ELSE /\ messages' = Keep(Append(messages, "say"))
            /\ loop' = NextTurn
            /\ at' = "left"
    /\ UNCHANGED <<phase, seen, stale, report, verdict, cancelled, bounds, jobVars>>

\* The answer was cut off before it said anything.
AnswersNothing ==
    /\ Turning
    /\ messages' = Keep(Append(messages, "say"))
    /\ loop' = NextTurn
    /\ at' = "top"
    /\ UNCHANGED <<phase, seen, stale, report, verdict, cancelled, bounds, jobVars>>

\* Neither the backend nor its fallback answers: the exception leaves the loop and the sequence.
SendFails ==
    /\ Turning
    /\ at' = "over" /\ Forget
    /\ UNCHANGED <<phase, report, verdict, cancelled, bounds, jobVars>>

-----------------------------------------------------------------------------
(***************************************************************************)
(* The calls of a turn.  Every call that is not read-only clears the reads *)
(* already answered, whether it changed something or not.                  *)
(***************************************************************************)
Calling == at = "calls" /\ loop.calls < MaxCalls
OneCall == [loop EXCEPT !.calls = @ + 1]
Changes(who) == \E c \in SUBSET Reads : stale' = stale \cup (c \X {who})

\* A read answered since the last clearing is not run again.
Read(r) ==
    /\ Calling /\ loop' = OneCall
    /\ seen' = seen \cup {r}
    /\ stale' = IF r \in seen THEN stale ELSE stale \ ({r} \X {"agent", "job"})
    /\ UNCHANGED <<phase, at, messages, report, verdict, cancelled, bounds, jobVars>>

WriteFile ==
    /\ Calling /\ loop' = [OneCall EXCEPT !.wrote = TRUE, !.wroteNow = TRUE]
    /\ seen' = {} /\ Changes("agent")
    /\ UNCHANGED <<phase, at, messages, report, verdict, cancelled, bounds, jobVars>>

\* Variant: only the write tools clear the reads.
OtherToolKeepsReads ==
    /\ Calling /\ loop' = OneCall
    /\ Changes("agent")
    /\ UNCHANGED <<phase, at, messages, seen, report, verdict, cancelled, bounds, jobVars>>

\* run_command, move_file, delete_file, create_directory; todo_write and
\* job_output, which change nothing; a job tool that is answered with an error.
OtherTool ==
    /\ Calling /\ loop' = OneCall
    /\ seen' = {} /\ Changes("agent")
    /\ UNCHANGED <<phase, at, messages, report, verdict, cancelled, bounds, jobVars>>

JobTool ==
    /\ Calling /\ loop' = OneCall
    /\ seen' = {}
    /\ \E j \in Jobs : StartJob(j) \/ KillJob(j)
    /\ UNCHANGED <<phase, at, messages, stale, report, verdict, cancelled, bounds>>

\* Offered in reviews; the dispatcher does not ask which phase it is.
ReportFindings ==
    /\ Calling /\ loop' = OneCall
    /\ seen' = {}
    /\ report' \in {"clean", "issues"}
    /\ verdict' = IF phase = "validate" THEN report' ELSE verdict
    /\ UNCHANGED <<phase, at, messages, stale, cancelled, bounds, jobVars>>

\* Variant: the breaker's nudge is not counted.
TurnEndsUncounted ==
    /\ at = "calls" /\ loop.calls > 0
    /\ messages' = Keep(Append(messages, "results"))
    /\ LET streak == IF loop.wroteNow THEN 0 ELSE loop.streak + 1
           idle == IF loop.wroteNow THEN 0 ELSE loop.idle + 1
           breaks == streak >= MaxStreak
           pushed == breaks /\ loop.nudges < MaxNudges
       IN /\ loop' = [loop EXCEPT !.streak = IF pushed THEN 0 ELSE streak, !.idle = idle]
          /\ at' = IF breaks /\ ~pushed THEN "left" ELSE "top"
    /\ UNCHANGED <<phase, seen, stale, report, verdict, cancelled, bounds, jobVars>>

\* The turn's results, and the exploration breaker.
TurnEnds ==
    /\ at = "calls" /\ loop.calls > 0
    /\ messages' = Keep(Append(messages, "results"))
    /\ LET streak == IF loop.wroteNow THEN 0 ELSE loop.streak + 1
           idle == IF loop.wroteNow THEN 0 ELSE loop.idle + 1
           breaks == streak >= MaxStreak
           pushed == breaks /\ loop.nudges < MaxNudges
       IN /\ loop' = [loop EXCEPT !.streak = IF pushed THEN 0 ELSE streak,
                                  !.nudges = IF pushed THEN @ + 1 ELSE @,
                                  !.idle = idle]
          /\ at' = IF breaks /\ ~pushed THEN "left" ELSE "top"
    /\ UNCHANGED <<phase, seen, stale, report, verdict, cancelled, bounds, jobVars>>

-----------------------------------------------------------------------------
(***************************************************************************)
(* What happens beside the loop.                                           *)
(***************************************************************************)
JobsRun ==
    /\ JobMoves
    /\ UNCHANGED <<phase, at, talk, report, verdict, cancelled, bounds>>

JobWrites ==
    /\ leaders \cup children # {}
    /\ Changes("job")
    /\ UNCHANGED <<phase, at, messages, loop, seen, report, verdict,
                   cancelled, bounds, jobVars>>

\* The user asks for a stop, or the flag expires unread.
Stop ==
    /\ at # "idle"
    /\ cancelled' \in BOOLEAN
    /\ UNCHANGED <<phase, at, talk, report, verdict, bounds, jobVars>>

\* The worker is lost, and its task and memory with it.
Crash ==
    /\ at # "idle" /\ crashes < MaxCrashes
    /\ crashes' = crashes + 1
    /\ at' = "idle" /\ Forget /\ report' = "none"
    /\ LoseTable
    /\ UNCHANGED <<phase, verdict, cancelled, runs>>

SequenceStep == StartRun \/ PhaseEnds \/ SequenceStops \/ Cleanup
LoopStep ==
    \/ StopsByUser \/ ReachesLimit \/ AnswersCalls \/ AnswersText
    \/ AnswersNothing \/ SendFails \/ TurnEnds
CallStep ==
    \/ \E r \in Reads : Read(r)
    \/ WriteFile \/ OtherTool \/ JobTool \/ ReportFindings

Next == SequenceStep \/ LoopStep \/ CallStep \/ JobsRun \/ JobWrites \/ Stop \/ Crash

Spec == Init /\ [][Next]_vars

-----------------------------------------------------------------------------
(***************************************************************************)
(* Properties.                                                             *)
(***************************************************************************)
\* What a turn sends is a conversation a provider accepts: no result without
\* the call it answers right before it, no call without its results, although
\* the window cuts where it will and cut-off answers shift its parity.
WellFormed(m) ==
    \A i \in 1..Len(m) :
        /\ m[i] = "results" => i > 1 /\ m[i - 1] = "call"
        /\ m[i] = "call" => i < Len(m) /\ m[i + 1] = "results"
RequestsWellFormed == at = "top" => WellFormed(Trimmed)

\* A repeated read is answered with "the workspace has not changed since":
\* whatever order of calls led there, the agent itself has changed nothing
\* that this read shows.  Background jobs may have.
NoticeIsHonest == \A r \in seen : <<r, "agent">> \notin stale

\* Between two writes a loop has no more tool turns than the breaker's streak
\* for each nudge and one streak more: the pushbacks on an answer without
\* calls and those of the breaker share one budget and never renew it.
StallBounded == loop.idle <= MaxStreak * (MaxNudges + 1)

\* A phase after the validation is reached, and a run ends as done, only if
\* its own validator filed a clean report or the fix pass was run: no report
\* of another phase or of a run that failed half-way is taken for it.
SignedOff ==
    at = "done" \/ (at # "idle" /\ phase \in {"test", "security"})
        => verdict \in {"clean", "fixed"}

\* No job's process outlives its run, except one whose kill timed out or
\* whose worker was lost: the table has every job that runs until Cleanup.
JobsEndWithRun ==
    /\ leaders \subseteq registered \cup excused
    /\ at = "idle" => leaders \subseteq excused

\* "Terminate a job's whole process tree": after the cleanup of a run that no
\* crash or timeout disturbed, nothing the jobs forked runs either.
NoSurvivors == at = "idle" => children \subseteq excused
=============================================================================
