-------------------------------- MODULE AutoFix --------------------------------
(***************************************************************************)
(* Compiling, repairing, deploying and reporting: the second half of a     *)
(* build (build_worker._run) and all of a preview or a publication         *)
(* (_run_preview), of one project and one after the other.  The two loops  *)
(* are written twice and differ in what a failure leaves: in a build every *)
(* error of the loop, _BuildFixExhausted too, is taken by the handler that *)
(* reports success without a preview.                                      *)
(*                                                                         *)
(* The code in a run's workspace is a version, numbered from 1, the first  *)
(* it has; a push of one version takes those before it along.  A link      *)
(* (preview_url, published_url) shows the version that was deployed.       *)
(***************************************************************************)
EXTENDS Naturals

CONSTANTS
    CompileErrors, \* the error texts of the compiler
    MaxFix,        \* _MAX_FIX
    MaxSame,       \* _MAX_SAME_STREAK
    MaxHits,       \* _MAX_HIT_LIMIT_STREAK
    LastRun,       \* bound: runs of the project
    MaxStops       \* bound: stops a user sends

ASSUME AutoFixAssumption ==
    /\ {MaxFix, LastRun, MaxStops} \subseteq Nat
    /\ {MaxSame, MaxHits} \subseteq Nat \ {0}

VARIABLES
    framework,  \* template_key: "flutter", "next" or "react_native"
    runNo,      \* how many runs were started
    purpose,    \* of the last: "build", "preview" or "publish"
    stage,      \* where it is
    tries,      \* _fix_attempt
    lastError,  \* _prev_err
    sameStreak, \* _same_err_streak
    hitStreak,  \* _hit_limit_streak
    version,    \* the code in the workspace
    saved,      \* the last of its versions on GitHub
    unsaved,    \* history: its versions whose push failed
    artifact,   \* the version artifact_path was compiled from, 0 for none
    link,       \* the version preview_url of the run shows, 0 for none
    release,    \* the version published_url of the run shows, 0 for none
    shown,      \* what the project's preview_url shows
    released,   \* what its published_url shows
    verdict,    \* the project's build_error: "none", "user_fix" or "failed"
    outcome,    \* the blueprint's build_status
    repo,       \* the project's repository has the app's code
    flags,      \* keys whose cancel flag is set
    stops,      \* stops sent
    sinceStop   \* history: fixes since a stop was sent to the run

loopVars == <<tries, lastError, sameStreak, hitStreak>>
codeVars == <<version, saved, unsaved>>
linkVars == <<artifact, link, release>>
toldVars == <<shown, released, verdict, outcome>>
stopVars == <<flags, stops, sinceStop>>
runVars  == <<framework, runNo, purpose>>
fixVars  == <<runVars, stage, loopVars, codeVars, linkVars, toldVars, repo, stopVars>>

Versions == 0 .. MaxFix + 2
Sights == {"nothing", "sound", "uncompiled", "unsaved", "lost"}

FixTyped ==
    /\ framework \in {"flutter", "next", "react_native"}
    /\ runNo \in 0 .. LastRun /\ purpose \in {"build", "preview", "publish"}
    /\ stage \in {"idle", "agent", "poll", "fix", "deploy", "blueprint", "project",
                  "exhausted", "failed"}
    /\ tries \in 0 .. MaxFix + 1 /\ lastError \in CompileErrors \cup {"none"}
    /\ sameStreak \in 0 .. MaxSame + 1 /\ hitStreak \in 0 .. MaxHits
    /\ {version, saved, artifact, link, release} \cup unsaved \subseteq Versions
    /\ {shown, released} \subseteq Sights
    /\ verdict \in {"none", "user_fix", "failed"}
    /\ outcome \in {"PENDING", "IN_PROGRESS", "SUCCESS", "FAILED"}
    /\ repo \in BOOLEAN /\ flags \subseteq {"session", "project"}
    /\ stops \in 0 .. MaxStops /\ sinceStop \in 0 .. MaxFix

FixInit ==
    /\ framework \in {"flutter", "next", "react_native"}
    /\ runNo = 0 /\ purpose = "build" /\ stage = "idle"
    /\ tries = 0 /\ lastError = "none" /\ sameStreak = 0 /\ hitStreak = 0
    /\ version = 0 /\ saved = 0 /\ unsaved = {} /\ artifact = 0 /\ link = 0 /\ release = 0
    /\ shown = "nothing" /\ released = "nothing" /\ verdict = "none" /\ outcome = "PENDING"
    /\ repo = FALSE /\ flags = {} /\ stops = 0 /\ sinceStop = 0

-----------------------------------------------------------------------------
\* The key a run polls: a build's is its session.
StopKey == IF purpose = "build" THEN "session" ELSE "project"

\* A commit and its push, the workspace holding version v.
Saves(v) == saved' = v /\ repo' = TRUE /\ UNCHANGED unsaved
SaveFails(v) == unsaved' = unsaved \cup {v} /\ UNCHANGED <<saved, repo>>

\* What a host or the Expo service answers for version v: the link to it, or
\* nothing, whatever it was that failed.
Deployed(v) == {v, 0}
SnackOf(v) == {v, 0}

\* What is left of a run, its workspace deleted.
RunGone ==
    /\ stage' = "idle"
    /\ tries' = 0 /\ lastError' = "none" /\ sameStreak' = 0 /\ hitStreak' = 0
    /\ version' = 0 /\ saved' = 0 /\ unsaved' = {}
    /\ artifact' = 0 /\ link' = 0 /\ release' = 0 /\ sinceStop' = 0

\* The session's build, up to the agent.
StartsBuild ==
    /\ stage = "idle" /\ runNo = 0 /\ runNo < LastRun
    /\ runNo' = 1 /\ purpose' = "build" /\ stage' = "agent"
    /\ flags' = flags \ {"session"}
    /\ outcome' = "IN_PROGRESS" /\ verdict' = "none"
    /\ UNCHANGED <<framework, loopVars, codeVars, linkVars, shown, released, repo, stops,
                   sinceStop>>

\* The agent ends and its work is pushed, unless that fails silently; an Expo
\* app is shown before it was compiled.
BuildAgentWrites ==
    /\ stage = "agent" /\ stage' = "poll"
    /\ version' = 1
    /\ Saves(1) \/ SaveFails(1)
    /\ link' \in IF framework = "react_native" THEN SnackOf(1) ELSE {0}
    /\ UNCHANGED <<runVars, loopVars, artifact, release, toldVars, stopVars>>

\* The clone, the repository or the agent fails, or the agent left the
\* template's first page: _run_agent_fix repairs that, and its result, a
\* string, is awaited, which raises.
BuildAgentFails ==
    /\ stage = "agent" /\ stage' = "failed"
    /\ version' \in {0, 1, 2}
    /\ UNCHANGED <<runVars, loopVars, saved, unsaved, linkVars, toldVars, repo, stopVars>>

\* _run_preview clones what GitHub has; without a repository there is no run.
StartsPreview(what) ==
    /\ stage = "idle" /\ runNo \in 1 .. LastRun - 1 /\ repo
    /\ runNo' = runNo + 1 /\ purpose' = what /\ stage' = "poll"
    /\ version' = 1 /\ saved' = 1
    /\ flags' = flags \ {"project"}
    /\ verdict' = "none"
    /\ UNCHANGED <<framework, loopVars, unsaved, linkVars, shown, released, outcome, repo,
                   stops, sinceStop>>

-----------------------------------------------------------------------------
\* stop_project.
UserStops ==
    /\ stops < MaxStops /\ runNo > 0
    /\ stops' = stops + 1
    /\ flags' = flags \cup {"project"}
    /\ sinceStop' = 0
    /\ UNCHANGED <<runVars, stage, loopVars, codeVars, linkVars, toldVars, repo>>

\* The loop's first lines: the run ends with nothing said.
RunStops ==
    /\ stage = "poll" /\ StopKey \in flags
    /\ RunGone
    /\ flags' = flags \ {StopKey}
    /\ UNCHANGED <<runVars, toldVars, repo, stops>>

\* Variant: only the first pass of the loop looks at the flag.
PollsFirst == stage = "poll" /\ (tries > 0 \/ StopKey \notin flags)

Polls == stage = "poll" /\ StopKey \notin flags

\* Where the loop goes on: a build tells its blueprint first.
AfterLoop == IF purpose = "build" THEN "blueprint" ELSE "project"

\* build_artifacts returns the artifact, or nothing.
Compiles ==
    /\ Polls
    /\ \/ artifact' = version /\ stage' = "deploy"
       \/ artifact' = 0 /\ stage' = AfterLoop
    /\ UNCHANGED <<runVars, loopVars, codeVars, link, release, toldVars, repo, stopVars>>

\* Where _BuildFixExhausted and any other error of the loop are handled.
GivenUp == IF purpose = "build" THEN "blueprint" ELSE "exhausted"
Raised  == IF purpose = "build" THEN "blueprint" ELSE "failed"

CompileFails(e) ==
    /\ Polls
    /\ tries' = tries + 1
    /\ IF tries' > MaxFix
       THEN stage' = GivenUp /\ UNCHANGED <<lastError, sameStreak>>
       ELSE /\ lastError' = e
            /\ sameStreak' = IF e = lastError THEN sameStreak + 1 ELSE 0
            /\ stage' = IF sameStreak' >= MaxSame THEN GivenUp ELSE "fix"
    /\ UNCHANGED <<runVars, hitStreak, codeVars, linkVars, toldVars, repo, stopVars>>

-----------------------------------------------------------------------------
AfterFix(hit) == IF hit /\ hitStreak + 1 >= MaxHits THEN GivenUp ELSE "poll"

\* Variant: a fix that reached its step limit is not pushed.
FixPushedUnlessHit(v, hit) ==
    \/ /\ IF hit THEN UNCHANGED <<saved, unsaved, repo>> ELSE Saves(v)
       /\ stage' = AfterFix(hit)
    \/ SaveFails(v) /\ stage' = IF purpose = "build" THEN Raised ELSE AfterFix(hit)

\* The push of a fix: the build's raises, the preview's fails silently.
FixPushed(v, hit) ==
    \/ Saves(v) /\ stage' = AfterFix(hit)
    \/ SaveFails(v) /\ stage' = IF purpose = "build" THEN Raised ELSE AfterFix(hit)

\* The fix agent changes the code or not, and reports its step limit or not.
Repairs(hit) ==
    /\ stage = "fix"
    /\ version' \in {version, version + 1}
    /\ FixPushed(version', hit)
    /\ hitStreak' = IF hit THEN hitStreak + 1 ELSE 0
    /\ sameStreak' = IF hit /\ hitStreak' < MaxHits THEN sameStreak + 1 ELSE sameStreak
    /\ sinceStop' = IF StopKey \in flags THEN sinceStop + 1 ELSE sinceStop
    /\ UNCHANGED <<runVars, tries, lastError, linkVars, toldVars, flags, stops>>

\* The fix agent raises, part of its work in the workspace.
RepairRaises ==
    /\ stage = "fix" /\ stage' = Raised
    /\ version' \in {version, version + 1}
    /\ UNCHANGED <<runVars, loopVars, saved, unsaved, linkVars, toldVars, repo, stopVars>>

\* The deployment returns the link or nothing, or raises, which leaves the
\* link as it was; a publication has its own.
Deploys ==
    /\ stage = "deploy" /\ stage' = AfterLoop
    /\ link' \in Deployed(artifact) \cup {link}
    /\ release' \in IF purpose = "publish" THEN {link', 0} ELSE {0}
    /\ UNCHANGED <<runVars, loopVars, codeVars, artifact, toldVars, repo, stopVars>>

-----------------------------------------------------------------------------
\* The build's first write of its result: build_status of the blueprint.
TellsBlueprint ==
    /\ stage = "blueprint" /\ stage' = "project"
    /\ outcome' = "SUCCESS"
    /\ UNCHANGED <<runVars, loopVars, codeVars, linkVars, shown, released, verdict, repo,
                   stopVars>>

\* What a visitor of a link to version v sees.
Sight(v) ==
    IF v = 0 THEN "nothing"
    ELSE IF v # artifact THEN "uncompiled"
    ELSE IF v <= saved THEN "sound"
    ELSE IF v \in unsaved THEN "unsaved" ELSE "lost"

\* The project document: a build writes its link though it has none, a preview
\* only one it has, after a last push (that turns "unsaved" into "sound", or
\* fails silently).
TellsProject ==
    /\ stage = "project" /\ RunGone
    /\ shown' = IF purpose = "build" \/ link # 0 THEN Sight(link) ELSE shown
    /\ released' = IF release # 0 THEN Sight(release) ELSE released
    /\ verdict' = IF purpose = "build" THEN "none" ELSE verdict
    /\ UNCHANGED <<runVars, outcome, repo, flags, stops>>

\* A write of the result fails.
TellingFails ==
    /\ stage \in {"blueprint", "project"} /\ stage' = "failed"
    /\ UNCHANGED <<runVars, loopVars, codeVars, linkVars, toldVars, repo, stopVars>>

\* The handlers: except _BuildFixExhausted (of a preview) and except Exception,
\* each after a last push.
TellsFailure ==
    /\ stage \in {"exhausted", "failed"} /\ RunGone
    /\ verdict' = IF stage = "exhausted" THEN "user_fix" ELSE "failed"
    /\ outcome' = IF purpose = "build" THEN "FAILED" ELSE outcome
    /\ repo' \in {repo, repo \/ version > 0}
    /\ UNCHANGED <<runVars, shown, released, flags, stops>>

\* The worker is lost, or the handler's own writes fail.
RunIsLost ==
    /\ stage # "idle" /\ RunGone
    /\ UNCHANGED <<runVars, toldVars, repo, flags, stops>>

FixNext ==
    \/ StartsBuild \/ BuildAgentFails \/ BuildAgentWrites
    \/ \E what \in {"preview", "publish"} : StartsPreview(what)
    \/ UserStops \/ RunStops \/ Compiles
    \/ \E e \in CompileErrors : CompileFails(e)
    \/ \E hit \in BOOLEAN : Repairs(hit)
    \/ RepairRaises \/ Deploys
    \/ TellsBlueprint \/ TellsProject \/ TellingFails \/ TellsFailure \/ RunIsLost

FixSpec == FixInit /\ [][FixNext]_fixVars
-----------------------------------------------------------------------------
\* What a link of the project shows compiled and is on GitHub, or its push
\* failed, whatever was fixed, given up, deployed and reported in between; only
\* an Expo preview may show code that was not compiled (_run, _run_preview).
ShownIsSaved ==
    /\ released \in {"nothing", "sound", "unsaved"}
    /\ \/ shown \in {"nothing", "sound", "unsaved"}
       \/ shown = "uncompiled" /\ framework = "react_native"

\* A stop sent to a preview or a publication lets it make one more fix at most;
\* a build polls a key that nobody sets (build_worker:835).
StopEndsFixing == purpose # "build" => sinceStop <= 1
=============================================================================
