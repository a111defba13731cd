------------------------ MODULE WorkspaceSyncProofs -------------------------
(***************************************************************************)
(* Proofs about WorkspaceSync: type correctness, that work is lost only by *)
(* a failing command, a lost process, an eviction or the thread of another *)
(* run, and that no push of a run goes unreported.                         *)
(***************************************************************************)
EXTENDS WorkspaceSync, TLAPS

\* A run that is under way is one of the runs.
RunIsKnown == at[0] # "idle" => run \in Runs

\* The run goes back to work after every sync but the one of its end.
ThenFits == at[0] \in {"ensure", "work"} => then = "work"

\* An update goes through stop's final sync; and where a join did not time out, there is
\* no thread of the run any more.
Joined ==
  /\ at[0] \notin {"idle", "ensure", "work"} /\ kind = "update" => then = "leave"
  /\ at[0] \in {"lock", "commit", "push", "flag", "leave"} /\ then = "leave"
        => at[run] = "none" \/ run \in outran

\* The lock: two actors of one syncer are never in git together.
Exclusive ==
  \A a, b \in Actors :
    SyncerOf(a) = SyncerOf(b) /\ InGit(a) /\ InGit(b) => a = b

\* A commit is pushed by whoever made it, or something happened to it.
CommitsHeld == commits \subseteq excused \/ at[0] = "push" \/ at[run] = "push"

\* Where nothing in the directory depends on a sync to come.
Settled ==
  \/ at[0] \in {"idle", "ensure", "flag", "leave"}
  \/ at[0] = "work" /\ kind = "preview"
  \/ at[0] = "join" /\ then = "work"

NothingAtRisk == Settled => Unsaved \subseteq excused

TreeCommitted == at[0] = "push" => tree \subseteq excused

\* The thread of a run does not exist before the run has its directory.
NotYetStarted ==
  /\ \A n \in Runs : n > run => at[n] = "none"
  /\ at[0] = "ensure" => at[run] = "none"

\* What came to GitHub since the run started, and nothing excuses, has been reported, or
\* whoever pushed it is about to.
ReportHeld ==
  at[0] # "idle" /\ remote \ (before \cup excused) # {}
    => run \in pushed \/ at[run] = "flag" \/ at[0] = "flag"

IInv ==
  /\ SyncTypeOK
  /\ RunIsKnown
  /\ ThenFits
  /\ Exclusive
  /\ CommitsHeld
  /\ NothingAtRisk
  /\ TreeCommitted
  /\ NotYetStarted
  /\ ReportHeld
  /\ Joined
  /\ LostOnlyExcused
-----------------------------------------------------------------------------
\* The actors are the run and its threads.
LEMMA ActorsAre ==
  /\ 0 \in Actors /\ 0 \notin Runs
  /\ \A n \in Runs : n \in Actors /\ n # 0
  /\ \A a \in Actors : a # 0 => a \in Runs
  /\ \A n \in Actors : n < MaxRuns => n + 1 \in Runs
BY BoundsAssumption DEF Actors, Runs

\* Every action keeps the types.
LEMMA TypeStep == SyncTypeOK /\ RunIsKnown /\ [SyncNext]_syncVars => SyncTypeOK'
<1> SUFFICES ASSUME SyncTypeOK, RunIsKnown, [SyncNext]_syncVars PROVE SyncTypeOK'
  OBVIOUS
<1> USE ActorsAre DEF SyncTypeOK, disk, fate, current
<1>1. ASSUME NEW k \in Kinds, StartRun(k) PROVE SyncTypeOK'
  BY <1>1, BoundsAssumption DEF StartRun, Kinds, RunAt, ThreadAt
<1>2. CASE Ensures
  <2>1. run \in Runs /\ run \in Actors /\ run # 0
    BY <1>2 DEF Ensures, RunIsKnown
  <2>2. /\ at' \in [Actors -> RunAt \cup ThreadAt]
        /\ at'[0] \in RunAt
        /\ \A n \in Runs : at'[n] \in ThreadAt
    BY <1>2, <2>1 DEF Ensures, RunAt, ThreadAt
  <2> QED
    BY <1>2, <2>2 DEF Ensures
<1>3. CASE EnsureFails
  BY <1>3 DEF EnsureFails, RunIsKnown, RunAt, ThreadAt
<1>4. ASSUME NEW w \in Works, Edit(w) PROVE SyncTypeOK'
  BY <1>4 DEF Edit
<1>5. ASSUME NEW new \in SUBSET Works, Fix(new) PROVE SyncTypeOK'
  BY <1>5, BoundsAssumption DEF Fix, RunAt, ThreadAt
<1>6. ASSUME NEW new \in SUBSET Works, FixRaises(new) PROVE SyncTypeOK'
  BY <1>6 DEF FixRaises, RunIsKnown, RunAt, ThreadAt
<1>7. CASE StopAndSync
  BY <1>7 DEF StopAndSync, RunIsKnown, RunAt, ThreadAt
<1>8. CASE StopQuietly
  BY <1>8 DEF StopQuietly, RunIsKnown, RunAt, ThreadAt
<1>9. CASE PreviewAborted
  BY <1>9 DEF PreviewAborted, RunAt, ThreadAt
<1>10. CASE Join
  BY <1>10 DEF Join, RunIsKnown, RunAt, ThreadAt
<1>11. CASE RunReturns
  BY <1>11 DEF RunReturns, Unsaved, RunAt, ThreadAt
<1>12. ASSUME NEW a \in Actors, Lock(a) PROVE SyncTypeOK'
  BY <1>12 DEF Lock, RunAt, ThreadAt
<1>13. ASSUME NEW a \in Actors, NothingStaged(a) PROVE SyncTypeOK'
  BY <1>13 DEF NothingStaged, Back, RunAt, ThreadAt
<1>14. ASSUME NEW a \in Actors, Commit(a) PROVE SyncTypeOK'
  BY <1>14 DEF Commit, Excuses, RunAt, ThreadAt
<1>15. ASSUME NEW a \in Actors, Push(a) PROVE SyncTypeOK'
  BY <1>15 DEF Push, Excuses, RunAt, ThreadAt
<1>16. ASSUME NEW a \in Actors, SyncFails(a) PROVE SyncTypeOK'
  BY <1>16 DEF SyncFails, Back, InGit, Unsaved, RunAt, ThreadAt
<1>17. ASSUME NEW a \in Actors, Flag(a) PROVE SyncTypeOK'
  BY <1>17 DEF Flag, SyncerOf, Back, RunIsKnown, RunAt, ThreadAt
<1>18. ASSUME NEW n \in Runs, Wake(n) PROVE SyncTypeOK'
  BY <1>18 DEF Wake, RunAt, ThreadAt
<1>19. ASSUME NEW n \in Runs, End(n) PROVE SyncTypeOK'
  BY <1>19 DEF End, RunAt, ThreadAt
<1>20. ASSUME NEW dead \in SUBSET Runs, ProcessLost(dead) PROVE SyncTypeOK'
  BY <1>20 DEF ProcessLost, Unsaved, RunAt, ThreadAt
<1>21. CASE Evict
  BY <1>21 DEF Evict, Unsaved
<1>22. CASE UNCHANGED syncVars
  BY <1>22 DEF syncVars
<1> QED
  BY <1>1, <1>2, <1>3, <1>4, <1>5, <1>6, <1>7, <1>8, <1>9, <1>10, <1>11, <1>12,
     <1>13, <1>14, <1>15, <1>16, <1>17, <1>18, <1>19, <1>20, <1>21, <1>22 DEF SyncNext,
     RunActs, Sync

\* What the run's own place tells: it is a known run, and goes back to work until its end.
LEMMA PlaceStep == IInv /\ [SyncNext]_syncVars => RunIsKnown' /\ ThenFits'
<1> SUFFICES ASSUME IInv, [SyncNext]_syncVars PROVE RunIsKnown' /\ ThenFits'
  OBVIOUS
<1> USE ActorsAre DEF IInv, SyncTypeOK, RunIsKnown, ThenFits, disk, fate, current
<1>1. ASSUME NEW k \in Kinds, StartRun(k) PROVE RunIsKnown' /\ ThenFits'
  BY <1>1 DEF StartRun
<1>2. CASE Ensures
  BY <1>2 DEF Ensures
<1>3. CASE EnsureFails
  BY <1>3 DEF EnsureFails
<1>4. ASSUME NEW w \in Works, Edit(w) PROVE RunIsKnown' /\ ThenFits'
  BY <1>4 DEF Edit
<1>5. ASSUME NEW new \in SUBSET Works, Fix(new) PROVE RunIsKnown' /\ ThenFits'
  BY <1>5 DEF Fix
<1>6. ASSUME NEW new \in SUBSET Works, FixRaises(new) PROVE RunIsKnown' /\ ThenFits'
  BY <1>6 DEF FixRaises
<1>7. CASE StopAndSync
  BY <1>7 DEF StopAndSync
<1>8. CASE StopQuietly
  BY <1>8 DEF StopQuietly
<1>9. CASE PreviewAborted
  BY <1>9 DEF PreviewAborted
<1>10. CASE Join
  BY <1>10 DEF Join
<1>11. CASE RunReturns
  BY <1>11 DEF RunReturns
<1>12. ASSUME NEW a \in Actors, Lock(a) PROVE RunIsKnown' /\ ThenFits'
  BY <1>12 DEF Lock
<1>13. ASSUME NEW a \in Actors, NothingStaged(a) PROVE RunIsKnown' /\ ThenFits'
  BY <1>13 DEF NothingStaged, Back
<1>14. ASSUME NEW a \in Actors, Commit(a) PROVE RunIsKnown' /\ ThenFits'
  BY <1>14 DEF Commit
<1>15. ASSUME NEW a \in Actors, Push(a) PROVE RunIsKnown' /\ ThenFits'
  BY <1>15 DEF Push
<1>16. ASSUME NEW a \in Actors, SyncFails(a) PROVE RunIsKnown' /\ ThenFits'
  BY <1>16 DEF SyncFails, Back, InGit
<1>17. ASSUME NEW a \in Actors, Flag(a) PROVE RunIsKnown' /\ ThenFits'
  BY <1>17 DEF Flag, Back
<1>18. ASSUME NEW n \in Runs, Wake(n) PROVE RunIsKnown' /\ ThenFits'
  BY <1>18 DEF Wake
<1>19. ASSUME NEW n \in Runs, End(n) PROVE RunIsKnown' /\ ThenFits'
  BY <1>19 DEF End
<1>20. ASSUME NEW dead \in SUBSET Runs, ProcessLost(dead) PROVE RunIsKnown' /\ ThenFits'
  BY <1>20 DEF ProcessLost
<1>21. CASE Evict
  BY <1>21 DEF Evict
<1>22. CASE UNCHANGED syncVars
  BY <1>22 DEF syncVars
<1> QED
  BY <1>1, <1>2, <1>3, <1>4, <1>5, <1>6, <1>7, <1>8, <1>9, <1>10, <1>11, <1>12,
     <1>13, <1>14, <1>15, <1>16, <1>17, <1>18, <1>19, <1>20, <1>21, <1>22 DEF SyncNext,
     RunActs, Sync

\* Whoever takes the lock finds nobody of its syncer in git.
LEMMA ExclusiveStep == IInv /\ [SyncNext]_syncVars => Exclusive'
<1> SUFFICES ASSUME IInv, [SyncNext]_syncVars PROVE Exclusive'
  OBVIOUS
<1> USE ActorsAre DEF IInv, SyncTypeOK, Exclusive, SyncerOf, InGit, disk, fate, current
<1>1. ASSUME NEW k \in Kinds, StartRun(k) PROVE Exclusive'
  BY <1>1 DEF StartRun
<1>2. CASE Ensures
  BY <1>2 DEF Ensures, RunIsKnown
<1>3. CASE EnsureFails
  BY <1>3 DEF EnsureFails
<1>4. ASSUME NEW w \in Works, Edit(w) PROVE Exclusive'
  BY <1>4 DEF Edit
<1>5. ASSUME NEW new \in SUBSET Works, Fix(new) PROVE Exclusive'
  BY <1>5 DEF Fix
<1>6. ASSUME NEW new \in SUBSET Works, FixRaises(new) PROVE Exclusive'
  BY <1>6 DEF FixRaises
<1>7. CASE StopAndSync
  BY <1>7 DEF StopAndSync
<1>8. CASE StopQuietly
  BY <1>8 DEF StopQuietly
<1>9. CASE PreviewAborted
  BY <1>9 DEF PreviewAborted
<1>10. CASE Join
  BY <1>10 DEF Join
<1>11. CASE RunReturns
  BY <1>11 DEF RunReturns
<1>12. ASSUME NEW a \in Actors, Lock(a) PROVE Exclusive'
  BY <1>12 DEF Lock
<1>13. ASSUME NEW a \in Actors, NothingStaged(a) PROVE Exclusive'
  BY <1>13 DEF NothingStaged, Back
<1>14. ASSUME NEW a \in Actors, Commit(a) PROVE Exclusive'
  BY <1>14 DEF Commit
<1>15. ASSUME NEW a \in Actors, Push(a) PROVE Exclusive'
  BY <1>15 DEF Push
<1>16. ASSUME NEW a \in Actors, SyncFails(a) PROVE Exclusive'
  BY <1>16 DEF SyncFails, Back
<1>17. ASSUME NEW a \in Actors, Flag(a) PROVE Exclusive'
  BY <1>17 DEF Flag, Back
<1>18. ASSUME NEW n \in Runs, Wake(n) PROVE Exclusive'
  BY <1>18 DEF Wake
<1>19. ASSUME NEW n \in Runs, End(n) PROVE Exclusive'
  BY <1>19 DEF End
<1>20. ASSUME NEW dead \in SUBSET Runs, ProcessLost(dead) PROVE Exclusive'
  BY <1>20 DEF ProcessLost
<1>21. CASE Evict
  BY <1>21 DEF Evict
<1>22. CASE UNCHANGED syncVars
  BY <1>22 DEF syncVars
<1> QED
  BY <1>1, <1>2, <1>3, <1>4, <1>5, <1>6, <1>7, <1>8, <1>9, <1>10, <1>11, <1>12,
     <1>13, <1>14, <1>15, <1>16, <1>17, <1>18, <1>19, <1>20, <1>21, <1>22 DEF SyncNext,
     RunActs, Sync

\* No work in the directory is left to nobody.
LEMMA HeldStep ==
  IInv /\ [SyncNext]_syncVars => CommitsHeld' /\ NothingAtRisk' /\ TreeCommitted'
<1> DEFINE Held == CommitsHeld /\ NothingAtRisk /\ TreeCommitted
<1> SUFFICES ASSUME IInv, [SyncNext]_syncVars PROVE Held'
  OBVIOUS
<1> USE ActorsAre DEF IInv, SyncTypeOK, CommitsHeld, NothingAtRisk, Settled, TreeCommitted,
                     Unsaved, disk, fate, current
<1>1. ASSUME NEW k \in Kinds, StartRun(k) PROVE Held'
  BY <1>1 DEF StartRun
<1>2. CASE Ensures
  BY <1>2 DEF Ensures, RunIsKnown
<1>3. CASE EnsureFails
  BY <1>3 DEF EnsureFails
<1>4. ASSUME NEW w \in Works, Edit(w) PROVE Held'
  BY <1>4 DEF Edit
<1>5. ASSUME NEW new \in SUBSET Works, Fix(new) PROVE Held'
  BY <1>5 DEF Fix
<1>6. ASSUME NEW new \in SUBSET Works, FixRaises(new) PROVE Held'
  BY <1>6 DEF FixRaises
<1>7. CASE StopAndSync
  BY <1>7 DEF StopAndSync
<1>8. CASE StopQuietly
  BY <1>8 DEF StopQuietly
<1>9. CASE PreviewAborted
  BY <1>9 DEF PreviewAborted
<1>10. CASE Join
  BY <1>10 DEF Join, ThenFits
<1>11. CASE RunReturns
  BY <1>11 DEF RunReturns
<1>12. ASSUME NEW a \in Actors, Lock(a) PROVE Held'
  BY <1>12 DEF Lock
<1>13. ASSUME NEW a \in Actors, NothingStaged(a) PROVE Held'
  BY <1>13 DEF NothingStaged, Back, InGit, Exclusive, SyncerOf
<1>14. ASSUME NEW a \in Actors, Commit(a) PROVE Held'
  BY <1>14 DEF Commit, Excuses, SyncerOf
<1>15. ASSUME NEW a \in Actors, Push(a) PROVE Held'
  BY <1>15 DEF Push, Excuses, SyncerOf
<1>16. ASSUME NEW a \in Actors, SyncFails(a) PROVE Held'
  BY <1>16 DEF SyncFails, Back, InGit, Exclusive, SyncerOf
<1>17. ASSUME NEW a \in Actors, Flag(a) PROVE Held'
  BY <1>17 DEF Flag, Back, InGit, Exclusive, SyncerOf
<1>18. ASSUME NEW n \in Runs, Wake(n) PROVE Held'
  BY <1>18 DEF Wake
<1>19. ASSUME NEW n \in Runs, End(n) PROVE Held'
  BY <1>19 DEF End
<1>20. ASSUME NEW dead \in SUBSET Runs, ProcessLost(dead) PROVE Held'
  BY <1>20 DEF ProcessLost
<1>21. CASE Evict
  BY <1>21 DEF Evict
<1>22. CASE UNCHANGED syncVars
  BY <1>22 DEF syncVars
<1> QED
  BY <1>1, <1>2, <1>3, <1>4, <1>5, <1>6, <1>7, <1>8, <1>9, <1>10, <1>11, <1>12,
     <1>13, <1>14, <1>15, <1>16, <1>17, <1>18, <1>19, <1>20, <1>21, <1>22 DEF SyncNext,
     RunActs, Sync

\* Only what is settled is thrown away.
LEMMA LostStep == IInv /\ [SyncNext]_syncVars => LostOnlyExcused'
<1> SUFFICES ASSUME IInv, [SyncNext]_syncVars PROVE LostOnlyExcused'
  OBVIOUS
<1> USE DEF IInv, LostOnlyExcused, disk, fate, current
<1>1. ASSUME NEW k \in Kinds, StartRun(k) PROVE LostOnlyExcused'
  BY <1>1 DEF StartRun
<1>2. CASE Ensures
  BY <1>2 DEF Ensures
<1>3. CASE EnsureFails
  BY <1>3 DEF EnsureFails
<1>4. ASSUME NEW w \in Works, Edit(w) PROVE LostOnlyExcused'
  BY <1>4 DEF Edit
<1>5. ASSUME NEW new \in SUBSET Works, Fix(new) PROVE LostOnlyExcused'
  BY <1>5 DEF Fix
<1>6. ASSUME NEW new \in SUBSET Works, FixRaises(new) PROVE LostOnlyExcused'
  BY <1>6 DEF FixRaises
<1>7. CASE StopAndSync
  BY <1>7 DEF StopAndSync
<1>8. CASE StopQuietly
  BY <1>8 DEF StopQuietly
<1>9. CASE PreviewAborted
  BY <1>9 DEF PreviewAborted
<1>10. CASE Join
  BY <1>10 DEF Join
<1>11. CASE RunReturns
  BY <1>11 DEF RunReturns, NothingAtRisk, Settled
<1>12. ASSUME NEW a \in Actors, Lock(a) PROVE LostOnlyExcused'
  BY <1>12 DEF Lock
<1>13. ASSUME NEW a \in Actors, NothingStaged(a) PROVE LostOnlyExcused'
  BY <1>13 DEF NothingStaged
<1>14. ASSUME NEW a \in Actors, Commit(a) PROVE LostOnlyExcused'
  BY <1>14 DEF Commit, Excuses
<1>15. ASSUME NEW a \in Actors, Push(a) PROVE LostOnlyExcused'
  BY <1>15 DEF Push, Excuses
<1>16. ASSUME NEW a \in Actors, SyncFails(a) PROVE LostOnlyExcused'
  BY <1>16 DEF SyncFails
<1>17. ASSUME NEW a \in Actors, Flag(a) PROVE LostOnlyExcused'
  BY <1>17 DEF Flag
<1>18. ASSUME NEW n \in Runs, Wake(n) PROVE LostOnlyExcused'
  BY <1>18 DEF Wake
<1>19. ASSUME NEW n \in Runs, End(n) PROVE LostOnlyExcused'
  BY <1>19 DEF End
<1>20. ASSUME NEW dead \in SUBSET Runs, ProcessLost(dead) PROVE LostOnlyExcused'
  BY <1>20 DEF ProcessLost
<1>21. CASE Evict
  BY <1>21 DEF Evict
<1>22. CASE UNCHANGED syncVars
  BY <1>22 DEF syncVars
<1> QED
  BY <1>1, <1>2, <1>3, <1>4, <1>5, <1>6, <1>7, <1>8, <1>9, <1>10, <1>11, <1>12,
     <1>13, <1>14, <1>15, <1>16, <1>17, <1>18, <1>19, <1>20, <1>21, <1>22 DEF SyncNext,
     RunActs, Sync

\* A checkpoint thread is started with its run's directory, not before.
LEMMA NotYetStep == IInv /\ [SyncNext]_syncVars => NotYetStarted'
<1> SUFFICES ASSUME IInv, [SyncNext]_syncVars PROVE NotYetStarted'
  OBVIOUS
<1> USE ActorsAre DEF IInv, SyncTypeOK, NotYetStarted, disk, fate, current
<1>1. ASSUME NEW k \in Kinds, StartRun(k) PROVE NotYetStarted'
  <2>1. run' = run + 1 /\ run + 1 \in Runs /\ run < run + 1
    BY <1>1 DEF StartRun, Actors
  <2>2. \A n \in Runs : at'[n] = at[n]
    BY <1>1 DEF StartRun
  <2>3. \A n \in Runs : n > run' => n > run
    BY <2>1 DEF Runs, Actors
  <2> QED
    BY <2>1, <2>2, <2>3 DEF Runs, Actors
<1>2. CASE Ensures
  <2>1. run' = run /\ run \in Runs /\ at' = [at EXCEPT ![0] = "work", ![run] = "wait"]
    BY <1>2 DEF Ensures, RunIsKnown
  <2>2. \A n \in Runs : n > run => n # run
    BY <2>1 DEF Runs
  <2> QED
    BY <2>1, <2>2
<1>3. CASE EnsureFails
  BY <1>3 DEF EnsureFails
<1>4. ASSUME NEW w \in Works, Edit(w) PROVE NotYetStarted'
  BY <1>4 DEF Edit
<1>5. ASSUME NEW new \in SUBSET Works, Fix(new) PROVE NotYetStarted'
  BY <1>5 DEF Fix
<1>6. ASSUME NEW new \in SUBSET Works, FixRaises(new) PROVE NotYetStarted'
  BY <1>6 DEF FixRaises
<1>7. CASE StopAndSync
  BY <1>7 DEF StopAndSync
<1>8. CASE StopQuietly
  BY <1>8 DEF StopQuietly
<1>9. CASE PreviewAborted
  BY <1>9 DEF PreviewAborted
<1>10. CASE Join
  BY <1>10 DEF Join
<1>11. CASE RunReturns
  BY <1>11 DEF RunReturns
<1>12. ASSUME NEW a \in Actors, Lock(a) PROVE NotYetStarted'
  BY <1>12 DEF Lock
<1>13. ASSUME NEW a \in Actors, NothingStaged(a) PROVE NotYetStarted'
  BY <1>13 DEF NothingStaged, Back
<1>14. ASSUME NEW a \in Actors, Commit(a) PROVE NotYetStarted'
  BY <1>14 DEF Commit
<1>15. ASSUME NEW a \in Actors, Push(a) PROVE NotYetStarted'
  BY <1>15 DEF Push
<1>16. ASSUME NEW a \in Actors, SyncFails(a) PROVE NotYetStarted'
  BY <1>16 DEF SyncFails, Back, InGit
<1>17. ASSUME NEW a \in Actors, Flag(a) PROVE NotYetStarted'
  BY <1>17 DEF Flag, Back
<1>18. ASSUME NEW n \in Runs, Wake(n) PROVE NotYetStarted'
  BY <1>18 DEF Wake
<1>19. ASSUME NEW n \in Runs, End(n) PROVE NotYetStarted'
  BY <1>19 DEF End
<1>20. ASSUME NEW dead \in SUBSET Runs, ProcessLost(dead) PROVE NotYetStarted'
  BY <1>20 DEF ProcessLost
<1>21. CASE Evict
  BY <1>21 DEF Evict
<1>22. CASE UNCHANGED syncVars
  BY <1>22 DEF syncVars
<1> QED
  BY <1>1, <1>2, <1>3, <1>4, <1>5, <1>6, <1>7, <1>8, <1>9, <1>10, <1>11, <1>12,
     <1>13, <1>14, <1>15, <1>16, <1>17, <1>18, <1>19, <1>20, <1>21, <1>22 DEF SyncNext,
     RunActs, Sync

\* What is pushed is reported, or about to be.
LEMMA ReportStep == IInv /\ [SyncNext]_syncVars => ReportHeld'
<1> SUFFICES ASSUME IInv, [SyncNext]_syncVars PROVE ReportHeld'
  OBVIOUS
<1> USE ActorsAre DEF IInv, SyncTypeOK, ReportHeld, disk, fate, current
<1>1. ASSUME NEW k \in Kinds, StartRun(k) PROVE ReportHeld'
  BY <1>1 DEF StartRun
<1>2. CASE Ensures
  BY <1>2 DEF Ensures, RunIsKnown, NotYetStarted
<1>3. CASE EnsureFails
  BY <1>3 DEF EnsureFails
<1>4. ASSUME NEW w \in Works, Edit(w) PROVE ReportHeld'
  BY <1>4 DEF Edit
<1>5. ASSUME NEW new \in SUBSET Works, Fix(new) PROVE ReportHeld'
  BY <1>5 DEF Fix
<1>6. ASSUME NEW new \in SUBSET Works, FixRaises(new) PROVE ReportHeld'
  BY <1>6 DEF FixRaises
<1>7. CASE StopAndSync
  BY <1>7 DEF StopAndSync
<1>8. CASE StopQuietly
  BY <1>8 DEF StopQuietly
<1>9. CASE PreviewAborted
  BY <1>9 DEF PreviewAborted
<1>10. CASE Join
  BY <1>10 DEF Join
<1>11. CASE RunReturns
  BY <1>11 DEF RunReturns
<1>12. ASSUME NEW a \in Actors, Lock(a) PROVE ReportHeld'
  BY <1>12 DEF Lock
<1>13. ASSUME NEW a \in Actors, NothingStaged(a) PROVE ReportHeld'
  BY <1>13 DEF NothingStaged, Back
<1>14. ASSUME NEW a \in Actors, Commit(a) PROVE ReportHeld'
  BY <1>14 DEF Commit, Excuses
<1>15. ASSUME NEW a \in Actors, Push(a) PROVE ReportHeld'
  BY <1>15 DEF Push, Excuses, SyncerOf
<1>16. ASSUME NEW a \in Actors, SyncFails(a) PROVE ReportHeld'
  BY <1>16 DEF SyncFails, Back, InGit
<1>17. ASSUME NEW a \in Actors, Flag(a) PROVE ReportHeld'
  BY <1>17 DEF Flag, Back, SyncerOf
<1>18. ASSUME NEW n \in Runs, Wake(n) PROVE ReportHeld'
  BY <1>18 DEF Wake
<1>19. ASSUME NEW n \in Runs, End(n) PROVE ReportHeld'
  BY <1>19 DEF End
<1>20. ASSUME NEW dead \in SUBSET Runs, ProcessLost(dead) PROVE ReportHeld'
  BY <1>20 DEF ProcessLost
<1>21. CASE Evict
  BY <1>21 DEF Evict
<1>22. CASE UNCHANGED syncVars
  BY <1>22 DEF syncVars
<1> QED
  BY <1>1, <1>2, <1>3, <1>4, <1>5, <1>6, <1>7, <1>8, <1>9, <1>10, <1>11, <1>12,
     <1>13, <1>14, <1>15, <1>16, <1>17, <1>18, <1>19, <1>20, <1>21, <1>22 DEF SyncNext,
     RunActs, Sync

\* No thread of a run is left once its join returned, if that did not time out.
LEMMA JoinedStep == IInv /\ [SyncNext]_syncVars => Joined'
<1> SUFFICES ASSUME IInv, [SyncNext]_syncVars PROVE Joined'
  OBVIOUS
<1> USE ActorsAre DEF IInv, SyncTypeOK, Joined, RunIsKnown, ThenFits, disk, fate, current
<1>1. ASSUME NEW k \in Kinds, StartRun(k) PROVE Joined'
  BY <1>1 DEF StartRun
<1>2. CASE Ensures
  BY <1>2 DEF Ensures
<1>3. CASE EnsureFails
  BY <1>3 DEF EnsureFails, NotYetStarted
<1>4. ASSUME NEW w \in Works, Edit(w) PROVE Joined'
  BY <1>4 DEF Edit
<1>5. ASSUME NEW new \in SUBSET Works, Fix(new) PROVE Joined'
  BY <1>5 DEF Fix
<1>6. ASSUME NEW new \in SUBSET Works, FixRaises(new) PROVE Joined'
  BY <1>6 DEF FixRaises
<1>7. CASE StopAndSync
  BY <1>7 DEF StopAndSync
<1>8. CASE StopQuietly
  BY <1>8 DEF StopQuietly
<1>9. CASE PreviewAborted
  BY <1>9 DEF PreviewAborted
<1>10. CASE Join
  BY <1>10 DEF Join, InGit
<1>11. CASE RunReturns
  BY <1>11 DEF RunReturns
<1>12. ASSUME NEW a \in Actors, Lock(a) PROVE Joined'
  BY <1>12 DEF Lock
<1>13. ASSUME NEW a \in Actors, NothingStaged(a) PROVE Joined'
  BY <1>13 DEF NothingStaged, Back
<1>14. ASSUME NEW a \in Actors, Commit(a) PROVE Joined'
  BY <1>14 DEF Commit
<1>15. ASSUME NEW a \in Actors, Push(a) PROVE Joined'
  BY <1>15 DEF Push
<1>16. ASSUME NEW a \in Actors, SyncFails(a) PROVE Joined'
  BY <1>16 DEF SyncFails, Back, InGit
<1>17. ASSUME NEW a \in Actors, Flag(a) PROVE Joined'
  BY <1>17 DEF Flag, Back
<1>18. ASSUME NEW n \in Runs, Wake(n) PROVE Joined'
  BY <1>18 DEF Wake
<1>19. ASSUME NEW n \in Runs, End(n) PROVE Joined'
  BY <1>19 DEF End
<1>20. ASSUME NEW dead \in SUBSET Runs, ProcessLost(dead) PROVE Joined'
  BY <1>20 DEF ProcessLost
<1>21. CASE Evict
  BY <1>21 DEF Evict
<1>22. CASE UNCHANGED syncVars
  BY <1>22 DEF syncVars
<1> QED
  BY <1>1, <1>2, <1>3, <1>4, <1>5, <1>6, <1>7, <1>8, <1>9, <1>10, <1>11, <1>12,
     <1>13, <1>14, <1>15, <1>16, <1>17, <1>18, <1>19, <1>20, <1>21, <1>22 DEF SyncNext,
     RunActs, Sync

\* The inductive invariant holds at the start and is kept by every step.
LEMMA InitInv == SyncInit => IInv
<1> SUFFICES ASSUME SyncInit PROVE IInv
  OBVIOUS
<1>1. SyncTypeOK
  <2>1. /\ at \in [Actors -> RunAt \cup ThreadAt]
        /\ at[0] \in RunAt
        /\ \A n \in Runs : at[n] \in ThreadAt
    BY ActorsAre DEF SyncInit, RunAt, ThreadAt
  <2>2. run \in Actors /\ fixes \in 0..MaxFixes /\ kind \in Kinds
    BY ActorsAre, BoundsAssumption DEF SyncInit, Kinds
  <2> QED
    BY <2>1, <2>2 DEF SyncInit, SyncTypeOK
<1>2. RunIsKnown /\ ThenFits /\ Exclusive
  BY ActorsAre DEF SyncInit, RunIsKnown, ThenFits, Exclusive, InGit
<1>3. CommitsHeld /\ NothingAtRisk /\ TreeCommitted /\ LostOnlyExcused
  BY DEF SyncInit, CommitsHeld, NothingAtRisk, TreeCommitted, LostOnlyExcused, Unsaved
<1>4. NotYetStarted /\ ReportHeld /\ Joined
  BY ActorsAre DEF SyncInit, NotYetStarted, ReportHeld, Joined
<1> QED
  BY <1>1, <1>2, <1>3, <1>4 DEF IInv

LEMMA InvStep == IInv /\ [SyncNext]_syncVars => IInv'
BY TypeStep, PlaceStep, ExclusiveStep, HeldStep, NotYetStep, ReportStep, JoinedStep, LostStep
   DEF IInv

\* The inductive invariant: what the theorems below rest on.
THEOREM Invariance == SyncSpec => []IInv
BY InitInv, InvStep, PTL DEF SyncSpec

\* Every variable of the model keeps its type, for any number of runs, fixes and pieces
\* of work: the fix attempts in particular never exceed their maximum
\* (build_worker.py:1272-1290).
THEOREM TypeCorrect == SyncSpec => []SyncTypeOK
<1>1. IInv => SyncTypeOK
  BY DEF IInv
<1> QED
  BY <1>1, Invariance, PTL

\* Whatever the order of checkpoint, stop, join, final sync and cleanup, and however many
\* runs follow each other in the directory, work is lost only where a git command failed,
\* a process was lost, the directory was evicted or another run's thread had it.
THEOREM LossIsExcused == SyncSpec => []LostOnlyExcused
<1>1. IInv => LostOnlyExcused
  BY DEF IInv
<1> QED
  BY <1>1, Invariance, PTL

\* An update reads pushed_anything when work of it that came to GitHub has set it,
\* however many threads of earlier runs push beside it (auto_sync.py:83-91, read by
\* update_worker.py:250-257), unless the join of its own thread timed out: no order of
\* checkpoint, stop and final sync but that one hides a push.
THEOREM PushesAreReported == SyncSpec => []PushReported
<1>1. IInv => PushReported
  BY DEF IInv, Joined, ReportHeld, PushReported
<1> QED
  BY <1>1, Invariance, PTL
=============================================================================
