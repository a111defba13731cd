------------------------------- MODULE JobTable -------------------------------
(***************************************************************************)
(* The background jobs an agent starts in one workspace.  A job is a       *)
(* process that leads a group of its own, and the descendants it forks.    *)
(* The table is a dictionary of the worker process; the processes live on  *)
(* when that is lost.                                                      *)
(***************************************************************************)
EXTENDS Naturals, FiniteSets

CONSTANTS
    Jobs,     \* identities of jobs
    MaxJobs   \* _MAX_JOBS_PER_WORKSPACE

ASSUME JobsAssumption == IsFiniteSet(Jobs) /\ MaxJobs \in Nat

VARIABLES
    registered,  \* the workspace's entry of _REGISTRY
    leaders,     \* jobs whose own process runs
    children,    \* jobs of which a descendant runs
    excused      \* history: jobs that outlived a kill's wait, or their worker

jobVars == <<registered, leaders, children, excused>>

JobsTyped ==
    /\ registered \subseteq Jobs /\ leaders \subseteq Jobs
    /\ children \subseteq Jobs /\ excused \subseteq Jobs

JobsInit == registered = {} /\ leaders = {} /\ children = {} /\ excused = {}

Live == registered \cap leaders

StartJob(j) ==
    /\ j \notin registered \cup leaders \cup children \cup excused
    /\ Cardinality(Live) < MaxJobs
    /\ registered' = registered \cup {j}
    /\ leaders' = leaders \cup {j}
    /\ UNCHANGED <<children, excused>>

\* Popen.kill ends the process it was asked to start and no other; the wait
\* for it may time out.  A job that has ended is left alone.
KillJob(j) ==
    /\ j \in registered
    /\ \/ leaders' = leaders \ {j} /\ UNCHANGED excused
       \/ j \in leaders /\ UNCHANGED leaders /\ excused' = excused \cup {j}
    /\ UNCHANGED <<registered, children>>

\* The entry is taken out first, then each of its jobs is killed.
KillAllJobs ==
    /\ registered' = {}
    /\ \E stuck \in SUBSET Live :
         /\ leaders' = (leaders \ registered) \cup stuck
         /\ excused' = excused \cup stuck
    /\ UNCHANGED children

\* The table goes with the worker process, the jobs do not.
LoseTable ==
    /\ registered' = {}
    /\ excused' = excused \cup leaders
    /\ UNCHANGED <<leaders, children>>

\* What the processes do: npm forks, a command ends, a descendant ends.
Forks(j) ==
    /\ j \in leaders
    /\ children' = children \cup {j}
    /\ UNCHANGED <<registered, leaders, excused>>
LeaderEnds(j) == leaders' = leaders \ {j} /\ UNCHANGED <<registered, children, excused>>
ChildEnds(j) == children' = children \ {j} /\ UNCHANGED <<registered, leaders, excused>>

JobMoves == \E j \in Jobs : Forks(j) \/ LeaderEnds(j) \/ ChildEnds(j)

=============================================================================
