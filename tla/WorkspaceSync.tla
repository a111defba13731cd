---------------------------- MODULE WorkspaceSync ----------------------------
(***************************************************************************)
(* What the agent writes and how it reaches GitHub: the directory          *)
(* edit_{project}, the runs that work in it one after the other, and the   *)
(* thread each run starts to commit and push on a timer                    *)
(* (app/build/auto_sync.py, EditWorkspace of app/build/workspace.py, and   *)
(* their callers update_worker._run and build_worker._run_preview).        *)
(*                                                                         *)
(* Actor 0 is the run's own thread; actor n > 0 is the checkpoint thread   *)
(* of run n, which may outlive its run.  A piece of work is the agent's    *)
(* output between two looks at the tree; git is abstracted to the pieces   *)
(* that are in the working tree, committed but not pushed, or on GitHub.   *)
(***************************************************************************)
EXTENDS Naturals, FiniteSets

CONSTANTS Works,      \* pieces of work agents may write
          MaxRuns,    \* bound on runs of the project
          MaxFixes    \* _MAX_FIX of the preview's compile-and-fix loop

ASSUME BoundsAssumption == MaxRuns \in Nat /\ MaxFixes \in Nat

Runs == 1..MaxRuns
Actors == 0..MaxRuns
Kinds == {"update", "preview"}
RunAt == {"idle", "ensure", "work", "join", "lock", "commit", "push", "flag", "leave"}
ThreadAt == {"none", "wait", "lock", "commit", "push", "flag"}

VARIABLES
  dir,       \* edit_{project} exists
  tree,      \* work in the directory that is not committed
  commits,   \* work committed there and not on GitHub
  remote,    \* work on GitHub
  lost,      \* work that was in the directory when it was deleted
  excused,   \* history: work a failed command, a lost process or another thread handled
  run,       \* number of the last run started
  kind,      \* what it is
  before,    \* remote when it started
  fixes,     \* _fix_attempt
  at,        \* where each actor is
  then,      \* where the run goes after its sync
  stopped,   \* runs whose _stop event is set
  pushed,    \* runs whose syncer's pushed_anything is set
  outran     \* history: runs whose join timed out, their thread still in git

disk == <<dir, tree, commits>>
fate == <<lost, excused>>
current == <<run, kind, before, outran>>
syncVars == <<dir, tree, commits, remote, lost, excused, run, kind, before, fixes, at, then,
              stopped, pushed, outran>>

SyncTypeOK ==
  /\ dir \in BOOLEAN
  /\ tree \subseteq Works /\ commits \subseteq Works /\ remote \subseteq Works
  /\ lost \subseteq Works /\ excused \subseteq Works /\ before \subseteq Works
  /\ run \in Actors
  /\ kind \in Kinds
  /\ fixes \in 0..MaxFixes
  /\ at \in [Actors -> RunAt \cup ThreadAt]
  /\ at[0] \in RunAt
  /\ \A n \in Runs : at[n] \in ThreadAt
  /\ then \in {"work", "leave"}
  /\ stopped \subseteq Runs
  /\ pushed \subseteq Runs /\ outran \subseteq Runs

SyncInit ==
  /\ dir = FALSE /\ tree = {} /\ commits = {} /\ remote = {}
  /\ lost = {} /\ excused = {} /\ before = {}
  /\ run = 0 /\ kind = "update" /\ fixes = 0
  /\ at = [a \in Actors |-> IF a = 0 THEN "idle" ELSE "none"]
  /\ then = "work"
  /\ stopped = {} /\ pushed = {} /\ outran = {}

-----------------------------------------------------------------------------
\* The syncer an actor uses, and so the lock it takes.
SyncerOf(a) == IF a = 0 THEN run ELSE a

\* Inside `with self._git_lock`.
InGit(a) == at[a] \in {"commit", "push"}

\* Where an actor goes when its sync_now returns: a checkpoint thread waits again.
Back(a) == IF a = 0 THEN then ELSE "wait"

Unsaved == tree \cup commits

-----------------------------------------------------------------------------
\* A task of the project is taken; no two at once here (ProjectRuns says when they are).
StartRun(k) ==
  /\ at[0] = "idle" /\ run < MaxRuns
  /\ run' = run + 1 /\ kind' = k /\ before' = remote
  /\ fixes' = 0 /\ then' = "work"
  /\ at' = [at EXCEPT ![0] = "ensure"]
  /\ UNCHANGED <<disk, remote, fate, stopped, pushed, outran>>

\* EditWorkspace.ensure clones, or pulls into the directory a lost process left behind
\* (which git does as long as what is uncommitted there is untracked); syncer.start.
Ensures ==
  /\ at[0] = "ensure"
  /\ dir' = TRUE
  /\ at' = [at EXCEPT ![0] = "work", ![run] = "wait"]
  /\ UNCHANGED <<tree, commits, remote, fate, current, fixes, then, stopped, pushed>>

\* The clone, the pull (over uncommitted changes) or the installation fails: the
\* handler stops a syncer that was never started and takes its final sync.
EnsureFails ==
  /\ at[0] = "ensure"
  /\ dir' \in {dir, TRUE}
  /\ stopped' = stopped \cup {run}
  /\ then' = "leave"
  /\ at' = [at EXCEPT ![0] = "join"]
  /\ UNCHANGED <<tree, commits, remote, fate, current, fixes, pushed>>

\* The update agent writes.
Edit(w) ==
  /\ at[0] = "work" /\ kind = "update" /\ dir
  /\ w \notin Unsaved \cup remote \cup lost
  /\ tree' = tree \cup {w}
  /\ UNCHANGED <<dir, commits, remote, fate, current, fixes, at, then, stopped, pushed>>

\* A failed compilation: the fix agent writes something or nothing, then sync_now.
Fix(new) ==
  /\ at[0] = "work" /\ kind = "preview" /\ dir
  /\ fixes < MaxFixes
  /\ new \cap (Unsaved \cup remote \cup lost) = {}
  /\ tree' = tree \cup new
  /\ fixes' = fixes + 1
  /\ at' = [at EXCEPT ![0] = "lock"]
  /\ UNCHANGED <<dir, commits, remote, fate, current, then, stopped, pushed>>

\* The agent raises in the midst of its fix: its output meets the handler's final sync.
FixRaises(new) ==
  /\ at[0] = "work" /\ kind = "preview" /\ dir
  /\ fixes < MaxFixes
  /\ new \cap (Unsaved \cup remote \cup lost) = {}
  /\ tree' = tree \cup new
  /\ stopped' = stopped \cup {run}
  /\ then' = "leave"
  /\ at' = [at EXCEPT ![0] = "join"]
  /\ UNCHANGED <<dir, commits, remote, fate, current, fixes, pushed>>

\* syncer.stop with a message: every end of an update, the failures of a preview.
StopAndSync ==
  /\ at[0] = "work"
  /\ stopped' = stopped \cup {run}
  /\ then' = "leave"
  /\ at' = [at EXCEPT ![0] = "join"]
  /\ UNCHANGED <<disk, remote, fate, current, fixes, pushed>>

\* syncer.stop without one: a preview that compiled.
StopQuietly ==
  /\ at[0] = "work" /\ kind = "preview"
  /\ stopped' = stopped \cup {run}
  /\ at' = [at EXCEPT ![0] = "join"]
  /\ UNCHANGED <<disk, remote, fate, current, fixes, then, pushed>>

\* A cancelled preview returns from its loop and stops nothing.
PreviewAborted ==
  /\ at[0] = "work" /\ kind = "preview"
  /\ at' = [at EXCEPT ![0] = "leave"]
  /\ UNCHANGED <<disk, remote, fate, current, fixes, then, stopped, pushed>>

\* thread.join returns because the thread has ended, or after the interval although a
\* git operation is in flight; stop then syncs if it was given a message.
Join ==
  /\ at[0] = "join"
  /\ at[run] = "none" \/ InGit(run)
  /\ outran' = IF InGit(run) THEN outran \cup {run} ELSE outran
  /\ at' = [at EXCEPT ![0] = IF then = "leave" THEN "lock" ELSE "leave"]
  /\ UNCHANGED <<disk, remote, fate, run, kind, before, fixes, then, stopped, pushed>>

\* workspace.cleanup: the directory goes, with whatever is in it.
RunReturns ==
  /\ at[0] = "leave"
  /\ dir' = FALSE /\ tree' = {} /\ commits' = {}
  /\ lost' = lost \cup Unsaved
  /\ at' = [at EXCEPT ![0] = "idle"]
  /\ UNCHANGED <<remote, excused, current, fixes, then, stopped, pushed>>

-----------------------------------------------------------------------------
\* The checkpoint thread's interval passes without a stop; or it sees the stop.
Wake(n) ==
  /\ at[n] = "wait" /\ n \notin stopped
  /\ at' = [at EXCEPT ![n] = "lock"]
  /\ UNCHANGED <<disk, remote, fate, current, fixes, then, stopped, pushed>>

End(n) ==
  /\ at[n] = "wait" /\ n \in stopped
  /\ at' = [at EXCEPT ![n] = "none"]
  /\ UNCHANGED <<disk, remote, fate, current, fixes, then, stopped, pushed>>

\* Variant: a sync that takes no lock.
LockNothing(a) ==
  /\ at[a] = "lock"
  /\ at' = [at EXCEPT ![a] = "commit"]
  /\ UNCHANGED <<disk, remote, fate, current, fixes, then, stopped, pushed>>

\* sync_now takes the lock of its syncer.
Lock(a) ==
  /\ at[a] = "lock"
  /\ \A b \in Actors : SyncerOf(b) = SyncerOf(a) => ~InGit(b)
  /\ at' = [at EXCEPT ![a] = "commit"]
  /\ UNCHANGED <<disk, remote, fate, current, fixes, then, stopped, pushed>>

\* git add and git diff --cached: nothing staged, and sync_to_github returns False.
NothingStaged(a) ==
  /\ at[a] = "commit" /\ dir /\ tree = {}
  /\ at' = [at EXCEPT ![a] = Back(a)]
  /\ UNCHANGED <<disk, remote, fate, current, fixes, then, stopped, pushed>>

\* What the thread of an earlier run handles is out of this run's hands.
Excuses(a, ws) == IF SyncerOf(a) = run THEN excused ELSE excused \cup ws

\* git commit.
Commit(a) ==
  /\ at[a] = "commit" /\ dir /\ tree # {}
  /\ tree' = {} /\ commits' = commits \cup tree
  /\ excused' = Excuses(a, tree)
  /\ at' = [at EXCEPT ![a] = "push"]
  /\ UNCHANGED <<dir, remote, lost, current, fixes, then, stopped, pushed>>

\* git pull --rebase and git push (or the forced one).
Push(a) ==
  /\ at[a] = "push" /\ dir
  /\ remote' = remote \cup commits /\ commits' = {}
  /\ excused' = Excuses(a, commits)
  /\ at' = [at EXCEPT ![a] = "flag"]
  /\ UNCHANGED <<dir, tree, lost, current, fixes, then, stopped, pushed>>

\* Variant: a failed sync tries again until it succeeds.
SyncRetries(a) ==
  /\ InGit(a)
  /\ excused' = excused \cup Unsaved
  /\ at' = [at EXCEPT ![a] = "lock"]
  /\ UNCHANGED <<disk, remote, lost, current, fixes, then, stopped, pushed>>

\* A git command fails, or the directory is gone: sync_now swallows it, returns False.
SyncFails(a) ==
  /\ InGit(a)
  /\ excused' = excused \cup Unsaved
  /\ at' = [at EXCEPT ![a] = Back(a)]
  /\ UNCHANGED <<disk, remote, lost, current, fixes, then, stopped, pushed>>

\* Variant: only what the run itself pushes is reported.
FlagFinal(a) ==
  /\ at[a] = "flag"
  /\ pushed' = IF a = 0 THEN pushed \cup {run} ELSE pushed
  /\ at' = [at EXCEPT ![a] = Back(a)]
  /\ UNCHANGED <<disk, remote, fate, current, fixes, then, stopped>>

\* pushed_anything is set after the lock was released.
Flag(a) ==
  /\ at[a] = "flag"
  /\ pushed' = pushed \cup {SyncerOf(a)}
  /\ at' = [at EXCEPT ![a] = Back(a)]
  /\ UNCHANGED <<disk, remote, fate, current, fixes, then, stopped>>

-----------------------------------------------------------------------------
\* The worker process is lost: its run and threads end, the directory stays.  Threads of
\* earlier runs may live in other processes of the pool.
ProcessLost(dead) ==
  /\ at[0] # "idle" /\ run \in dead
  /\ excused' = excused \cup Unsaved
  /\ at' = [a \in Actors |-> IF a = 0 THEN "idle" ELSE IF a \in dead THEN "none" ELSE at[a]]
  /\ UNCHANGED <<disk, remote, lost, current, fixes, then, stopped, pushed>>

\* cleanup_workspaces: the directory is too old, or the oldest when the disk is full;
\* nothing asks whether a run is in it.
Evict ==
  /\ dir
  /\ dir' = FALSE /\ tree' = {} /\ commits' = {}
  /\ lost' = lost \cup Unsaved
  /\ excused' = excused \cup Unsaved
  /\ UNCHANGED <<remote, current, fixes, at, then, stopped, pushed>>

-----------------------------------------------------------------------------
Sync(a) == Lock(a) \/ NothingStaged(a) \/ Commit(a) \/ Push(a) \/ SyncFails(a) \/ Flag(a)

RunActs ==
  \/ \E k \in Kinds : StartRun(k)
  \/ Ensures \/ EnsureFails
  \/ \E w \in Works : Edit(w)
  \/ \E new \in {{}} \cup {{w} : w \in Works} : Fix(new) \/ FixRaises(new)
  \/ StopAndSync \/ StopQuietly \/ PreviewAborted \/ Join \/ RunReturns

SyncNext ==
  \/ RunActs
  \/ \E a \in Actors : Sync(a)
  \/ \E n \in Runs : Wake(n) \/ End(n)
  \/ \E dead \in SUBSET Runs : ProcessLost(dead)
  \/ Evict

SyncSpec == SyncInit /\ [][SyncNext]_syncVars

\* A run goes on working and stops in the end; git commands end (they have a timeout), a
\* thread that saw its stop ends.  The lock comes free for 90 seconds between checkpoints,
\* so one who waits for it gets it in the end.
SyncFairness ==
  /\ WF_syncVars(Ensures \/ EnsureFails)
  /\ WF_syncVars(StopAndSync \/ StopQuietly \/ PreviewAborted)
  /\ WF_syncVars(Join) /\ WF_syncVars(RunReturns)
  /\ SF_syncVars(Lock(0))
  /\ \A a \in Actors :
       WF_syncVars(NothingStaged(a) \/ Commit(a) \/ Push(a) \/ SyncFails(a) \/ Flag(a))
  /\ \A n \in Runs : WF_syncVars(End(n)) /\ WF_syncVars(Lock(n))

FairSync == SyncSpec /\ SyncFairness

-----------------------------------------------------------------------------
(* Properties *)

\* What an agent wrote is gone with the directory only if a git command failed on it, its
\* process was lost, the cleanup evicted it, or a thread of an earlier run committed or pushed it:
\* no order of checkpoint, stop, join and final sync loses it (update_worker.py:356-384).
LostOnlyExcused == lost \subseteq excused

\* An update reads pushed_anything when its final sync is done: work of it that came
\* to GitHub is reported then, whichever thread pushed it, and it is not taken for an
\* update that changed nothing (update_worker.py:250-257); but for a run whose join timed
\* out: its thread releases the lock and sets the flag in two steps (auto_sync.py:80-91),
\* and the final sync, with nothing to stage, may fall between them.
PushReported ==
  at[0] = "leave" /\ kind = "update" /\ remote \ (before \cup excused) # {}
    => run \in pushed \cup outran

\* A run that was started leaves: neither the join nor the lock keeps it for ever.
RunEnds == \A n \in Runs : run = n /\ at[0] # "idle" ~> at[0] = "idle"

\* "The final sync ... is complete before this returns - the caller can delete the
\* workspace immediately after" (auto_sync.py:106): a final sync that returns because it
\* found nothing to commit leaves no commit behind that only the directory has.
FinalSyncSaves == [][then = "leave" /\ NothingStaged(0) => commits = {}]_syncVars
=============================================================================
