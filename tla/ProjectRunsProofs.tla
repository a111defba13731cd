-------------------------- MODULE ProjectRunsProofs --------------------------
(***************************************************************************)
(* Type correctness of ProjectRuns, the meaning of its cancel flag and     *)
(* what an open database question holds back, for any number of            *)
(* coroutines and workers, requests, decisions, failures and crashes.      *)
(***************************************************************************)
EXTENDS ProjectRuns, TLAPS

\* A run past its first step that finds the flag set, or acts on it, is one
\* during which a stop was requested: the flag was wiped when the run began.
Heard(w) ==
    /\ Stopped(w) => w \in signalled
    /\ cancel /\ call[w].op \in {"update", "preview"} /\ call[w].at \notin {"idle", "own"}
         => w \in signalled
FlagIsMeant == \A w \in Workers : Heard(w)

IInv == TypeOK /\ FlagIsMeant

LEMMA IdleCall == Idle \in Calls
BY DEF Idle, Begin, Calls, Operations, Tasks, Points, Status

LEMMA InitInv == Init => IInv
<1>. SUFFICES ASSUME Init PROVE IInv
  OBVIOUS
<1>1. TypeOK
  BY IdleCall DEF Init, TypeOK, Status, Flags, Processes
<1>2. FlagIsMeant
  BY DEF Init, FlagIsMeant, Heard, Stopped, Running, Idle, Begin, Processes
<1>. QED BY <1>1, <1>2 DEF IInv

\* A step of one process p, to a call c that is heard, which raises no flag
\* and forgets no signal but p's own.
LEMMA OneMoves ==
    ASSUME IInv, NEW p \in Processes, NEW c \in Calls,
           call' = [call EXCEPT ![p] = c],
           session' \in Status, project' \in SUBSET Flags,
           cancel' \in BOOLEAN, cancel' => cancel, queue' \in [Tasks -> Nat],
           signalled' \subseteq Workers, signalled \ {p} \subseteq signalled',
           answering' \subseteq Processes, dispatched' \in BOOLEAN,
           requests' \in Nat, decisions' \in Nat, crashes' \in Nat,
           p \in Workers => Heard(p)'
    PROVE  IInv'
<1>1. TypeOK'
  BY DEF IInv, TypeOK
<1>2. ASSUME NEW w \in Workers PROVE Heard(w)'
  <2>1. CASE w = p
    BY <2>1
  <2>2. CASE w # p
    <3>1. call'[w] = call[w]
      BY <2>2 DEF IInv, TypeOK, Processes
    <3>2. Heard(w)
      BY DEF IInv, FlagIsMeant
    <3>. QED BY <2>2, <3>1, <3>2 DEF Heard, Stopped, Running
  <2>. QED BY <2>1, <2>2
<1>. QED BY <1>1, <1>2 DEF IInv, FlagIsMeant

\* The end of a call, whatever it settles.
LEMMA Finishes ==
    ASSUME IInv, NEW p \in Processes, Finish(p) \/ Withholds(p) \/ Releases(p),
           session' \in Status, project' \in SUBSET Flags,
           cancel' \in BOOLEAN, cancel' => cancel, queue' \in [Tasks -> Nat],
           requests' \in Nat, decisions' \in Nat, crashes' \in Nat
    PROVE  IInv'
<1>1. call' = [call EXCEPT ![p] = Idle] /\ signalled' = signalled \ {p}
  BY DEF Finish, Withholds, Releases, Leave
<1>2. call'[p] = Idle
  BY <1>1 DEF IInv, TypeOK
<1>3. Heard(p)'
  BY <1>2 DEF Heard, Stopped, Running, Idle, Begin
<1>4. signalled' \subseteq Workers
  BY <1>1 DEF IInv, TypeOK
<1>5. answering \subseteq Processes /\ dispatched \in BOOLEAN
  BY DEF IInv, TypeOK
<1>6. answering' \subseteq Processes
  BY <1>5 DEF Finish, Withholds, Releases
<1>7. dispatched' \in BOOLEAN
  <2>1. (p \in answering) \in BOOLEAN
    OBVIOUS
  <2>. QED BY <1>5, <2>1 DEF Finish, Withholds, Releases
<1>. QED BY <1>1, <1>3, <1>4, <1>6, <1>7, IdleCall, OneMoves

\* A call that goes on: it is past its first step, or has just wiped the
\* flag, and does not quit without having been signalled.
LEMMA GoesOn ==
    ASSUME IInv, NEW p \in Processes, NEW x \in Points,
           \/ Goto(p, x)
           \/ call' = [call EXCEPT ![p].at = x] /\ UNCHANGED signalled /\ Places(p),
           session' \in Status, project' \in SUBSET Flags,
           cancel' \in BOOLEAN, cancel' => cancel, queue' \in [Tasks -> Nat],
           requests' \in Nat, decisions' \in Nat, crashes' \in Nat,
           call[p].at \notin {"idle", "own"} \/ ~cancel'
               \/ call[p].op \notin {"update", "preview"},
           x = "quit" => cancel /\ call[p].at \notin {"idle", "own"}
    PROVE  IInv'
<1>. DEFINE c == [call[p] EXCEPT !.at = x]
<1>1. c \in Calls
  BY DEF IInv, TypeOK, Calls
<1>2. call' = [call EXCEPT ![p] = c] /\ signalled' = signalled
  BY DEF Goto, history, IInv, TypeOK
<1>3. call'[p].op = call[p].op /\ call'[p].at = x /\ call'[p].read = call[p].read
  BY <1>2 DEF IInv, TypeOK, Calls
<1>4. ASSUME p \in Workers PROVE Heard(p)'
  <2>1. Heard(p)
    BY <1>4 DEF IInv, FlagIsMeant
  <2>. QED BY <1>2, <1>3, <2>1 DEF Heard, Stopped, Running
<1>5. signalled' \subseteq Workers
  BY <1>2 DEF IInv, TypeOK
<1>6. answering' \subseteq Processes /\ dispatched' \in BOOLEAN
  BY DEF Goto, Places, history, IInv, TypeOK
<1>. HIDE DEF c
<1>. QED BY <1>1, <1>2, <1>4, <1>5, <1>6, OneMoves

\* What every step leaves alone keeps its type.
LEMMA Unchanged ==
    ASSUME IInv
    PROVE  /\ session \in Status /\ project \in SUBSET Flags /\ cancel \in BOOLEAN
           /\ queue \in [Tasks -> Nat] /\ requests \in Nat /\ decisions \in Nat
           /\ crashes \in Nat
BY DEF IInv, TypeOK

LEMMA Queued ==
    ASSUME IInv, NEW task \in Tasks, Enqueue(task)
    PROVE  queue' \in [Tasks -> Nat]
BY DEF IInv, TypeOK, Enqueue

LEMMA Settled ==
    ASSUME IInv, NEW w, Settle(w)
    PROVE  project' \in SUBSET Flags
BY DEF IInv, TypeOK, Settle, PatchProject, Flags

\* A handler takes a request: requests have no flag to hear.
LEMMA AcceptInv ==
    ASSUME IInv, NEW r \in Requests, NEW c \in Calls, Accept(r, c),
           decisions' \in Nat, answering' \subseteq Processes
    PROVE  IInv'
<1>1. r \in Processes /\ r \notin Workers
  BY ProjectAssumption DEF Processes
<1>2. /\ call' = [call EXCEPT ![r] = c] /\ requests' \in Nat /\ signalled' = signalled
      /\ UNCHANGED <<session, project, cancel, queue, crashes>>
  BY Unchanged DEF Accept
<1>3. signalled' \subseteq Workers
  BY <1>2 DEF IInv, TypeOK
<1>4. dispatched' \in BOOLEAN
  BY DEF Accept, IInv, TypeOK
<1>. QED BY <1>1, <1>2, <1>3, <1>4, Unchanged, OneMoves

LEMMA DecideInv ==
    ASSUME IInv, NEW r \in Requests, NEW c \in Calls, Decide(r, c)
    PROVE  IInv'
<1>1. Accept(r, c) /\ decisions' = decisions + 1 /\ UNCHANGED answering
  BY DEF Decide
<1>2. decisions' \in Nat /\ answering' \subseteq Processes
  BY <1>1, Unchanged DEF IInv, TypeOK
<1>. QED BY <1>1, <1>2, AcceptInv

LEMMA RequestInv ==
    ASSUME IInv, NEW r \in Requests, Request(r)
    PROVE  IInv'
<1>0. ASSUME NEW op \in Operations, NEW x \in Points, NEW d \in BOOLEAN
      PROVE  Begin(op, x, "APPROVED", d) \in Calls
  BY DEF Begin, Calls, Status
<1>1. CASE Approve(r)
  <2>1. Begin("approve", IF session = "APPROVED" THEN "stub" ELSE "check",
              "APPROVED", FALSE) \in Calls
    BY <1>0 DEF Operations, Points
  <2>. DEFINE c == Begin("approve", IF session = "APPROVED" THEN "stub" ELSE "check",
                         "APPROVED", FALSE)
  <2>2. Decide(r, c)
    BY <1>1 DEF Approve
  <2>. HIDE DEF c
  <2>3. c \in Calls
    BY <2>1 DEF c
  <2>. QED BY <2>2, <2>3, DecideInv
<1>2. CASE Assist(r)
  <2>1. Begin("assist", "stub", "APPROVED", FALSE) \in Calls
    BY <1>0 DEF Operations, Points
  <2>. QED BY <1>2, <2>1, DecideInv DEF Assist
<1>3. ASSUME NEW c \in Calls, Ask(r, c) PROVE IInv'
  <2>1. answering' \subseteq Processes /\ decisions' \in Nat
    BY <1>3, Unchanged DEF Ask, IInv, TypeOK, Processes
  <2>. QED BY <1>3, <2>1, AcceptInv DEF Ask
<1>4. CASE SkipDatabase(r) \/ ConnectDatabase(r)
  <2>1. Begin("skip", "unwithhold", "APPROVED", TRUE) \in Calls
    BY <1>0 DEF Operations, Points
  <2>2. Has("pending") \in BOOLEAN
    <3>1. ("pending" \in project) \in BOOLEAN
      OBVIOUS
    <3>. QED BY <3>1 DEF Has
  <2>3. "connect" \in Operations /\ "record" \in Points
    BY DEF Operations, Points
  <2>4. Begin("connect", "record", "APPROVED", Has("pending")) \in Calls
    BY <1>0, <2>2, <2>3, Zenon
  <2>5. CASE SkipDatabase(r)
    BY <1>3, <2>1, <2>5 DEF SkipDatabase
  <2>6. CASE ConnectDatabase(r)
    BY <1>3, <2>4, <2>6, Zenon DEF ConnectDatabase
  <2>. QED BY <1>4, <2>5, <2>6
<1>5. CASE WireDatabase(r) \/ Update(r) \/ Deploy(r) \/ Delete(r)
  <2>1. /\ Begin("wire", "dispatch", "APPROVED", FALSE) \in Calls
        /\ Begin("edit", "dispatch", "APPROVED", FALSE) \in Calls
        /\ Begin("deploy", "dispatch", "APPROVED", FALSE) \in Calls
        /\ Begin("delete", "drop", "APPROVED", FALSE) \in Calls
    BY <1>0 DEF Operations, Points
  <2>. QED BY <1>3, <1>5, <2>1 DEF WireDatabase, Update, Deploy, Delete
<1>6. CASE Stop(r)
  <2>. DEFINE c == Begin("stop", "unblock", "APPROVED", FALSE)
  <2>1. r \in Processes /\ r \notin Workers /\ c \in Calls
    BY <1>0, ProjectAssumption DEF Processes, Operations, Points
  <2>2. call' = [call EXCEPT ![r] = c] /\ cancel' = TRUE
    BY <1>6 DEF Stop
  <2>3. signalled' = signalled \cup {w \in Workers : call[w].at \notin {"idle", "own"}}
    BY <1>6 DEF Stop
  <2>4. /\ UNCHANGED <<session, project, queue, answering, dispatched, decisions, crashes>>
        /\ requests' = requests + 1
    BY <1>6 DEF Stop
  <2>5. TypeOK'
    <3>1. call' \in [Processes -> Calls]
      BY <2>1, <2>2 DEF IInv, TypeOK
    <3>2. signalled' \subseteq Workers
      BY <2>3 DEF IInv, TypeOK
    <3>3. requests' \in Nat
      BY <2>4, Unchanged
    <3>. QED BY <2>2, <2>4, <3>1, <3>2, <3>3 DEF IInv, TypeOK
  <2>6. ASSUME NEW w \in Workers PROVE Heard(w)'
    <3>1. call'[w] = call[w]
      BY <2>1, <2>2 DEF IInv, TypeOK, Processes
    <3>2. Heard(w)
      BY DEF IInv, FlagIsMeant
    <3>. QED BY <2>3, <3>1, <3>2 DEF Heard, Stopped, Running
  <2>. QED BY <2>5, <2>6 DEF IInv, FlagIsMeant
<1>. QED BY <1>1, <1>2, <1>4, <1>5, <1>6 DEF Request

\* Steps of API calls: none of them is at its first step or quits.
LEMMA RequestStepInv ==
    ASSUME IInv, NEW r \in Requests, RequestStep(r)
    PROVE  IInv'
<1>0. r \in Processes
  BY DEF Processes
<1>1. CASE ApproveStub(r)
  <2>1. project' \in SUBSET Flags
    BY <1>1 DEF ApproveStub, SetProject, Flags
  <2>. QED BY <1>0, <1>1, <2>1, Unchanged, Finishes, GoesOn
              DEF ApproveStub, Step, Running, bounds, Points
<1>2. CASE AssistStub(r)
  <2>1. project' \in SUBSET Flags
    BY <1>2 DEF AssistStub, SetProject, Flags
  <2>. QED BY <1>0, <1>2, <2>1, Unchanged, GoesOn
              DEF AssistStub, Step, Running, bounds, Points
<1>3. CASE RecordDatabase(r)
  <2>1. project' \in SUBSET Flags
    BY <1>3, Unchanged DEF RecordDatabase, PatchProject, Flags
  <2>. QED BY <1>0, <1>3, <2>1, Unchanged, Finishes, GoesOn
              DEF RecordDatabase, Step, Running, bounds, Points
<1>4. CASE Unwithhold(r)
  <2>1. project' \in SUBSET Flags
    BY <1>4, Unchanged DEF Unwithhold, PatchProject, Flags
  <2>. QED BY <1>0, <1>4, <2>1, Unchanged, Finishes, GoesOn
              DEF Unwithhold, bounds, Points
<1>5. CASE Dispatch(r)
  <2>1. TaskOf(call[r].op) \in Tasks
    BY DEF TaskOf, Tasks
  <2>2. queue' \in [Tasks -> Nat]
    BY <1>5, <2>1, Queued DEF Dispatch
  <2>. QED BY <1>0, <1>5, <2>2, Unchanged, Finishes DEF Dispatch, bounds
<1>6. CASE Refuse(r)
  BY <1>0, <1>6, Unchanged, Finishes DEF Refuse, bounds
<1>7. CASE StopUnblocks(r)
  <2>1. project' \in SUBSET Flags
    BY <1>7, Unchanged DEF StopUnblocks, PatchProject, Flags
  <2>. QED BY <1>0, <1>7, <2>1, Unchanged, Finishes DEF StopUnblocks, Step, bounds
<1>8. CASE DeleteDrops(r)
  <2>1. project' \in SUBSET Flags
    BY <1>8 DEF DeleteDrops
  <2>. QED BY <1>0, <1>8, <2>1, Unchanged, GoesOn
              DEF DeleteDrops, Step, Running, bounds, Points
<1>9. CASE DeleteForgets(r)
  BY <1>0, <1>9, Unchanged, Finishes DEF DeleteForgets, Step, bounds
<1>. QED BY <1>1, <1>2, <1>3, <1>4, <1>5, <1>6, <1>7, <1>8, <1>9 DEF RequestStep

LEMMA MoveInv ==
    ASSUME IInv, NEW p \in Processes, Check(p) \/ Write(p)
    PROVE  IInv'
<1>1. CASE Check(p)
  BY <1>1, Unchanged, Finishes, GoesOn DEF Check, bounds, Points
<1>2. CASE Write(p)
  <2>1. session' \in Status
    BY <1>2 DEF Write, IInv, TypeOK, Calls
  <2>2. CASE Goto(p, "stub") \/ Goto(p, "place")
    BY <1>2, <2>1, <2>2, Unchanged, GoesOn DEF Write, bounds, Points
  <2>3. CASE ~(Goto(p, "stub") \/ Goto(p, "place"))
    <3>. DEFINE c == [call[p] EXCEPT !.at = "check", !.to = "APPROVED"]
    <3>1. /\ call' = [call EXCEPT ![p].at = "check", ![p].to = "APPROVED"]
          /\ UNCHANGED history /\ call[p].op = "prompt"
      BY <1>2, <2>3 DEF Write
    <3>2. call' = [call EXCEPT ![p] = c]
      BY <3>1 DEF IInv, TypeOK
    <3>3. "check" \in Points /\ "APPROVED" \in Status
      BY DEF Points, Status
    <3>4. c \in Calls /\ c.op = "prompt"
      BY <3>1, <3>3 DEF IInv, TypeOK, Calls
    <3>. HIDE DEF c
    <3>5. p \in Workers => Heard(p)'
      BY <3>2, <3>4 DEF Heard, Stopped, Running, IInv, TypeOK
    <3>6. /\ signalled' = signalled /\ signalled \subseteq Workers
          /\ answering' \subseteq Processes /\ dispatched' \in BOOLEAN
      BY <3>1 DEF history, IInv, TypeOK
    <3>7. UNCHANGED <<project, cancel, queue, bounds>>
      BY <1>2 DEF Write
    <3>. QED BY <2>1, <3>2, <3>4, <3>5, <3>6, <3>7, Unchanged, OneMoves DEF bounds
  <2>. QED BY <2>2, <2>3
<1>. QED BY <1>1, <1>2

\* Steps of a build, which hears no flag.
LEMMA BuildStepInv ==
    ASSUME IInv, NEW w \in Workers, BuildStep(w)
    PROVE  IInv'
<1>0. w \in Processes
  BY DEF Processes
<1>1. CASE BuildStarts(w)
  BY <1>0, <1>1, Unchanged, GoesOn DEF BuildStarts, Step, Running, bounds, Points
<1>2. CASE BuildBlocked(w)
  <2>1. project' \in SUBSET Flags
    BY <1>2 DEF BuildBlocked, SetProject, Flags
  <2>. QED BY <1>0, <1>2, <2>1, Unchanged, Finishes DEF BuildBlocked, Step, bounds
<1>3. CASE BuildStub(w)
  <2>1. project' \in SUBSET Flags
    BY <1>3 DEF BuildStub, SetProject, Flags
  <2>. QED BY <1>0, <1>3, <2>1, Unchanged, GoesOn
              DEF BuildStub, Step, Running, bounds, Points
<1>4. CASE BuildScaffolds(w)
  <2>1. /\ call[w].op = "build" /\ call[w].at = "scaffold" /\ UNCHANGED bounds
        /\ UNCHANGED <<session, cancel, queue>>
    BY <1>4 DEF BuildScaffolds, Step, Running
  <2>2. CASE Goto(w, "fail") /\ UNCHANGED project
    BY <1>0, <2>1, <2>2, Unchanged, GoesOn DEF bounds, Points
  <2>3. CASE ~(Goto(w, "fail") /\ UNCHANGED project)
    <3>. DEFINE x == IF Has("exists") THEN "agent" ELSE "fail"
                c == [call[w] EXCEPT !.at = x, !.read = TRUE]
    <3>1. /\ call' = [call EXCEPT ![w].at = x, ![w].read = TRUE] /\ signalled' = signalled
          /\ answering' = answering /\ dispatched' = dispatched
      BY <1>4, <2>3 DEF BuildScaffolds, history
    <3>2. call' = [call EXCEPT ![w] = c]
      BY <1>0, <3>1 DEF IInv, TypeOK
    <3>3. x \in Points
      BY DEF Points
    <3>4. c \in Calls /\ c.op = "build"
      BY <1>0, <2>1, <3>3 DEF IInv, TypeOK, Calls
    <3>5. project' \in SUBSET Flags
      BY <1>4, <2>3, Unchanged DEF BuildScaffolds, PatchProject, Flags
    <3>. HIDE DEF c
    <3>6. Heard(w)'
      BY <1>0, <3>2, <3>4 DEF Heard, Stopped, Running, IInv, TypeOK
    <3>7. signalled' \subseteq Workers /\ answering' \subseteq Processes /\ dispatched' \in BOOLEAN
      BY <3>1 DEF IInv, TypeOK
    <3>. QED BY <1>0, <2>1, <3>1, <3>2, <3>4, <3>5, <3>6, <3>7, Unchanged, OneMoves
             DEF bounds
  <2>. QED BY <2>2, <2>3
<1>5. CASE BuildAgentEnds(w)
  BY <1>0, <1>5, Unchanged, GoesOn DEF BuildAgentEnds, Step, Running, bounds, Points
<1>6. CASE BuildEnds(w)
  <2>1. project' \in SUBSET Flags
    BY <1>6, Settled DEF BuildEnds
  <2>. QED BY <1>0, <1>6, <2>1, Unchanged, Finishes DEF BuildEnds, Step, bounds
<1>. QED BY <1>1, <1>2, <1>3, <1>4, <1>5, <1>6 DEF BuildStep

\* Steps of an update or a preview: the flag is wiped first, and who sees it
\* set later was signalled.
LEMMA RunStepInv ==
    ASSUME IInv, NEW w \in Workers, RunStep(w)
    PROVE  IInv'
<1>0. w \in Processes
  BY DEF Processes
<1>1. CASE RunClearsFlag(w)
  BY <1>0, <1>1, Unchanged, GoesOn DEF RunClearsFlag, bounds, Points
<1>2. CASE RunLoads(w)
  BY <1>0, <1>2, Unchanged, Finishes, GoesOn DEF RunLoads, bounds, Points
<1>3. CASE RunIsBare(w)
  <2>1. project' \in SUBSET Flags
    BY <1>3, Settled DEF RunIsBare
  <2>. QED BY <1>0, <1>3, <2>1, Unchanged, Finishes DEF RunIsBare, bounds
<1>4. CASE RunMarks(w)
  <2>1. project' \in SUBSET Flags
    BY <1>4, Unchanged DEF RunMarks, PatchProject, Flags
  <2>. QED BY <1>0, <1>4, <2>1, Unchanged, Finishes, GoesOn DEF RunMarks, bounds, Points
<1>5. CASE RunEnsures(w)
  BY <1>0, <1>5, Unchanged, GoesOn DEF RunEnsures, bounds, Points
<1>6. CASE UpdateAgentEnds(w)
  <2>1. /\ call[w].op = "update" /\ call[w].at = "agent" /\ UNCHANGED bounds
        /\ UNCHANGED <<session, project, cancel, queue>>
    BY <1>6 DEF UpdateAgentEnds, Step, Running
  <2>2. CASE Goto(w, "fail")
    BY <1>0, <2>1, <2>2, Unchanged, GoesOn DEF bounds, Points
  <2>3. CASE ~Goto(w, "fail")
    <3>. DEFINE c == [call[w] EXCEPT !.at = "unflag", !.read = cancel]
    <3>1. /\ call' = [call EXCEPT ![w].at = "unflag", ![w].read = cancel]
          /\ signalled' = signalled /\ answering' = answering /\ dispatched' = dispatched
      BY <1>6, <2>3 DEF UpdateAgentEnds, history
    <3>2. call' = [call EXCEPT ![w] = c]
      BY <1>0, <3>1 DEF IInv, TypeOK
    <3>3. "unflag" \in Points
      BY DEF Points
    <3>4. c \in Calls /\ c.op = "update" /\ c.at = "unflag" /\ c.read = cancel
      BY <1>0, <2>1, <3>3 DEF IInv, TypeOK, Calls
    <3>. HIDE DEF c
    <3>5. call'[w] = c
      BY <1>0, <3>2 DEF IInv, TypeOK
    <3>6. Heard(w)
      BY DEF IInv, FlagIsMeant
    <3>7. Heard(w)'
      BY <2>1, <3>1, <3>4, <3>5, <3>6 DEF Heard, Stopped, Running
    <3>8. signalled' \subseteq Workers /\ answering' \subseteq Processes /\ dispatched' \in BOOLEAN
      BY <3>1 DEF IInv, TypeOK
    <3>. QED BY <1>0, <2>1, <3>1, <3>2, <3>4, <3>7, <3>8, Unchanged, OneMoves DEF bounds
  <2>. QED BY <2>2, <2>3
<1>7. CASE UpdateUnflags(w)
  BY <1>0, <1>7, Unchanged, GoesOn DEF UpdateUnflags, Step, Running, bounds, Points
<1>8. CASE PreviewCancelled(w)
  BY <1>0, <1>8, Unchanged, GoesOn DEF PreviewCancelled, Step, Running, bounds, Points
<1>9. CASE PreviewEnds(w)
  BY <1>0, <1>9, Unchanged, GoesOn DEF PreviewEnds, Step, Running, bounds, Points
<1>10. CASE PreviewQuits(w)
  BY <1>0, <1>10, Unchanged, GoesOn DEF PreviewQuits, Step, Running, bounds, Points
<1>11. CASE RunSettles(w)
  <2>1. project' \in SUBSET Flags
    BY <1>11, Settled DEF RunSettles
  <2>2. call[w].at \in {"finish", "fail"} /\ UNCHANGED <<session, cancel, queue, bounds>>
    BY <1>11 DEF RunSettles
  <2>3. Goto(w, "leave") \/ Goto(w, "chain")
    BY <1>11 DEF RunSettles
  <2>. QED BY <1>0, <2>1, <2>2, <2>3, Unchanged, GoesOn DEF bounds, Points
<1>12. CASE UpdateChains(w)
  <2>1. queue' \in [Tasks -> Nat]
    BY <1>12, Queued, Unchanged DEF UpdateChains, Tasks
  <2>. QED BY <1>0, <1>12, <2>1, Unchanged, GoesOn
              DEF UpdateChains, Step, Running, bounds, Points
<1>13. CASE RunLeaves(w)
  BY <1>0, <1>13, Unchanged, Finishes DEF RunLeaves, bounds
<1>. QED BY <1>1, <1>2, <1>3, <1>4, <1>5, <1>6, <1>7, <1>8, <1>9, <1>10, <1>11, <1>12,
            <1>13 DEF RunStep

LEMMA PromptStepInv ==
    ASSUME IInv, NEW w \in Workers, PromptStep(w)
    PROVE  IInv'
<1>0. w \in Processes
  BY DEF Processes
<1>1. CASE PromptDesigns(w)
  BY <1>0, <1>1, Unchanged, GoesOn DEF PromptDesigns, Step, Running, bounds, Points
<1>2. CASE PromptPlaces(w)
  <2>1. project' \in SUBSET Flags
    BY <1>2, Unchanged DEF PromptPlaces, PatchProject, Flags
  <2>. QED BY <1>0, <1>2, <2>1, Unchanged, Finishes, GoesOn
              DEF PromptPlaces, Step, Running, bounds, Points
<1>3. CASE PromptChains(w)
  <2>1. queue' \in [Tasks -> Nat]
    BY <1>3, Queued DEF PromptChains, Tasks
  <2>. QED BY <1>0, <1>3, <2>1, Unchanged, Finishes DEF PromptChains, Step, bounds
<1>4. CASE PromptFails(w)
  <2>1. project' \in SUBSET Flags
    BY <1>4, Settled DEF PromptFails
  <2>. QED BY <1>0, <1>4, <2>1, Unchanged, Finishes DEF PromptFails, Step, bounds
<1>. QED BY <1>1, <1>2, <1>3, <1>4 DEF PromptStep

\* A run begins before its first step.
LEMMA TakeInv ==
    ASSUME IInv, NEW w \in Workers, NEW task \in Tasks, TakeTask(w, task)
    PROVE  IInv'
<1>. DEFINE c == IF task = "prompt" THEN Begin(task, "design", "BLUEPRINT_READY", FALSE)
                 ELSE Begin(task, "own", "BUILDING", FALSE)
<1>0. w \in Processes
  BY DEF Processes
<1>1. /\ call' = [call EXCEPT ![w] = c]
      /\ UNCHANGED <<session, project, cancel, signalled, answering, dispatched, bounds>>
  BY DEF TakeTask, history
<1>2. queue' \in [Tasks -> Nat]
  <2>1. queue[task] > 0 /\ queue' = [queue EXCEPT ![task] = @ - 1]
    BY DEF TakeTask
  <2>2. queue \in [Tasks -> Nat]
    BY Unchanged
  <2>3. queue[task] - 1 \in Nat
    BY <2>1, <2>2
  <2>. QED BY <2>1, <2>2, <2>3
<1>3. c \in Calls
  BY DEF Begin, Calls, Operations, Points, Status, Tasks
<1>4. c.read = FALSE /\ c.at \in {"design", "own"} /\ c.op = task
  BY DEF Begin
<1>5. task = "prompt" \/ c.at = "own"
  BY DEF Begin
<1>. HIDE DEF c
<1>6. call'[w] = c
  BY <1>0, <1>1 DEF IInv, TypeOK
<1>7. Heard(w)'
  BY <1>4, <1>5, <1>6 DEF Heard, Stopped, Running
<1>8. signalled' \subseteq Workers /\ answering' \subseteq Processes /\ dispatched' \in BOOLEAN
  BY <1>1 DEF IInv, TypeOK
<1>. QED BY <1>0, <1>1, <1>2, <1>3, <1>7, <1>8, Unchanged, OneMoves DEF bounds

LEMMA RaisesInv ==
    ASSUME IInv, NEW p \in Processes, Raises(p)
    PROVE  IInv'
<1>1. UNCHANGED <<session, project, cancel, queue, bounds>>
  BY DEF Raises
<1>2. CASE Finish(p)
  BY <1>1, <1>2, Unchanged, Finishes DEF bounds
<1>3. CASE call[p].at \in Guarded(call[p]) /\ Goto(p, "fail")
  <2>1. call[p].at \notin {"idle", "own"}
    BY <1>3 DEF Guarded
  <2>. QED BY <1>1, <1>3, <2>1, Unchanged, GoesOn DEF bounds, Points
<1>4. CASE call[p].at = "fail" /\ Goto(p, "leave")
  BY <1>1, <1>4, Unchanged, GoesOn DEF bounds, Points
<1>. QED BY <1>2, <1>3, <1>4 DEF Raises

LEMMA CrashInv ==
    ASSUME IInv, NEW p \in Processes, Crash(p)
    PROVE  IInv'
<1>1. crashes' \in Nat
  BY Unchanged DEF Crash
<1>. QED BY <1>1, Unchanged, Finishes DEF Crash

LEMMA NextInv == IInv /\ [Next]_vars => IInv'
<1>. SUFFICES ASSUME IInv, [Next]_vars PROVE IInv'
  OBVIOUS
<1>1. CASE UNCHANGED vars
  BY <1>1 DEF vars, bounds, history, IInv, TypeOK, FlagIsMeant, Heard, Stopped, Running
<1>2. ASSUME NEW r \in Requests, Request(r) PROVE IInv'
  BY <1>2, RequestInv
<1>3. ASSUME NEW p \in Processes, ProcessStep(p) PROVE IInv'
  BY <1>3, MoveInv, RequestStepInv, BuildStepInv, RunStepInv, PromptStepInv
     DEF ProcessStep
<1>4. ASSUME NEW p \in Processes, Crash(p) PROVE IInv'
  BY <1>4, CrashInv
<1>5. ASSUME NEW w \in Workers, NEW task \in Tasks, TakeTask(w, task) PROVE IInv'
  BY <1>5, TakeInv
<1>6. CASE CancelExpires
  BY <1>6 DEF CancelExpires, bounds, history, IInv, TypeOK, FlagIsMeant, Heard, Stopped, Running
<1>7. ASSUME NEW p \in Processes, Raises(p) PROVE IInv'
  BY <1>7, RaisesInv
<1>. QED BY <1>1, <1>2, <1>3, <1>4, <1>5, <1>6, <1>7 DEF Next

\* Every variable keeps its type, for any number of coroutines and workers.
THEOREM TypeCorrect == Spec => []TypeOK
<1>1. IInv => TypeOK
  BY DEF IInv
<1>. QED BY <1>1, InitInv, NextInv, PTL DEF Spec

\* An update or a preview stops only because a stop was requested while it
\* ran: the key that all the runs of a project share carries no stop from
\* one to the next.
THEOREM OnlySignalledRunsStop == Spec => []OnlySignalledStop
<1>1. IInv => OnlySignalledStop
  BY DEF IInv, FlagIsMeant, Heard, Stopped, OnlySignalledStop
<1>. QED BY <1>1, InitInv, NextInv, PTL DEF Spec
-----------------------------------------------------------------------------
(***************************************************************************)
(* While a project's database question is open its build is held back.     *)
(* What is decided anew forgets the calls that answer what was decided     *)
(* before, and no call gets to its dispatch but by closing the question;   *)
(* so the property is inductive as it stands.                              *)
(***************************************************************************)
Sender(c) == c.at = "dispatch" \/ (c.op = "prompt" /\ c.at = "chain")

\* The question is closed.
LEMMA Closed == ~Has("pending")' => WithheldIsIdle'
BY DEF WithheldIsIdle

\* A step of one process to a call that sends nothing, or that answers nothing.
LEMMA Keeps ==
    ASSUME TypeOK, WithheldIsIdle, NEW p \in Processes, NEW c,
           call' = [call EXCEPT ![p] = c], Has("pending")' => Has("pending"),
           dispatched' = dispatched, answering' \subseteq answering \cup {p},
           p \in answering' => ~Sender(c)
    PROVE  WithheldIsIdle'
<1>1. \A q \in Processes : call'[q] = IF q = p THEN c ELSE call[q]
  BY DEF TypeOK
<1>2. answering \subseteq Processes
  BY DEF TypeOK
<1>3. ASSUME Has("pending")' PROVE ~dispatched' /\ \A q \in answering : ~Sending(q)
  BY <1>3 DEF WithheldIsIdle
<1>4. ASSUME Has("pending")', NEW q \in answering' PROVE ~Sending(q)'
  <2>1. CASE q = p
    <3>1. call'[q] = c /\ q \in answering'
      BY <1>1, <1>4, <2>1
    <3>2. ~Sender(c)
      BY <2>1, <3>1
    <3>. QED BY <3>1, <3>2 DEF Sending, Sender, Running
  <2>2. CASE q # p
    <3>1. q \in answering /\ q \in Processes
      BY <1>2, <1>4, <2>2
    <3>2. call'[q] = call[q] /\ ~Sending(q)
      BY <1>1, <1>3, <1>4, <2>2, <3>1
    <3>. QED BY <3>2 DEF Sending, Running
  <2>. QED BY <2>1, <2>2
<1>. QED BY <1>3, <1>4 DEF WithheldIsIdle

LEMMA KeepsIdle ==
    ASSUME TypeOK, WithheldIsIdle, NEW p \in Processes, Finish(p),
           Has("pending")' => Has("pending")
    PROVE  WithheldIsIdle'
<1>1. ~Sender(Idle)
  BY DEF Sender, Idle, Begin
<1>. QED BY <1>1, IdleCall, Keeps DEF Finish, Leave

LEMMA KeepsGoing ==
    ASSUME TypeOK, WithheldIsIdle, NEW p \in Processes, NEW x \in Points, Goto(p, x),
           Has("pending")' => Has("pending"),
           x # "dispatch", x = "chain" => call[p].op # "prompt"
    PROVE  WithheldIsIdle'
<1>. DEFINE c == [call[p] EXCEPT !.at = x]
<1>1. call[p] \in Calls
  BY DEF TypeOK
<1>2. c \in Calls /\ c.at = x /\ c.op = call[p].op
  BY <1>1 DEF Calls
<1>3. call' = [call EXCEPT ![p] = c] /\ answering' = answering /\ dispatched' = dispatched
  BY DEF Goto, history, TypeOK
<1>. HIDE DEF c
<1>4. ~Sender(c)
  BY <1>2 DEF Sender
<1>. QED BY <1>2, <1>3, <1>4, Keeps

\* A call that sends a build while the question is open does not answer it.
LEMMA Sent ==
    ASSUME TypeOK, WithheldIsIdle, NEW p \in Processes, Releases(p), Sending(p),
           UNCHANGED project
    PROVE  WithheldIsIdle'
<1>1. CASE ~Has("pending")'
  BY <1>1, Closed
<1>2. CASE Has("pending")'
  <2>1. p \notin answering
    BY <1>2 DEF WithheldIsIdle, Has
  <2>2. dispatched' = dispatched /\ answering' = answering \ {p}
    BY <2>1 DEF Releases, TypeOK
  <2>3. ~Sender(Idle)
    BY DEF Sender, Idle, Begin
  <2>. QED BY <2>2, <2>3, IdleCall, Keeps DEF Releases, Leave, Has
<1>. QED BY <1>1, <1>2

LEMMA RequestQuestion ==
    ASSUME TypeOK, WithheldIsIdle, NEW r \in Requests, Request(r)
    PROVE  WithheldIsIdle'
<1>0. r \in Processes
  BY DEF Processes
<1>1. ASSUME NEW c, Accept(r, c), answering' \subseteq answering \cup {r},
             r \in answering' => ~Sender(c)
      PROVE  WithheldIsIdle'
  <2>1. call' = [call EXCEPT ![r] = c] /\ UNCHANGED <<project, dispatched>>
    BY <1>1 DEF Accept
  <2>. QED BY <1>0, <1>1, <2>1, Keeps DEF Has
<1>2. CASE Approve(r) \/ Assist(r)
  <2>1. PICK x \in {"stub", "check"}, op \in {"approve", "assist"} :
          Decide(r, Begin(op, x, "APPROVED", FALSE))
    BY <1>2 DEF Approve, Assist
  <2>2. ~Sender(Begin(op, x, "APPROVED", FALSE))
    BY DEF Sender, Begin
  <2>. QED BY <1>1, <2>1, <2>2 DEF Decide
<1>3. CASE SkipDatabase(r) \/ ConnectDatabase(r)
  <2>1. PICK x \in {"unwithhold", "record"}, op \in {"skip", "connect"}, d \in BOOLEAN :
          Ask(r, Begin(op, x, "APPROVED", d))
    <3>1. ("pending" \in project) \in BOOLEAN
      OBVIOUS
    <3>. QED BY <1>3, <3>1 DEF SkipDatabase, ConnectDatabase, Has
  <2>2. ~Sender(Begin(op, x, "APPROVED", d))
    BY DEF Sender, Begin
  <2>. QED BY <1>1, <2>1, <2>2 DEF Ask
<1>4. CASE WireDatabase(r) \/ Update(r) \/ Deploy(r) \/ Delete(r)
  <2>1. PICK x \in {"dispatch", "drop"}, op \in {"wire", "edit", "deploy", "delete"} :
          Ask(r, Begin(op, x, "APPROVED", FALSE))
    BY <1>4 DEF WireDatabase, Update, Deploy, Delete
  <2>2. answering' = answering \ {r} /\ Accept(r, Begin(op, x, "APPROVED", FALSE))
    BY <2>1 DEF Ask, Begin
  <2>. QED BY <1>1, <2>2
<1>5. CASE Stop(r)
  <2>. DEFINE c == Begin("stop", "unblock", "APPROVED", FALSE)
  <2>1. c \in Calls /\ ~Sender(c)
    BY DEF Begin, Calls, Operations, Points, Status, Sender
  <2>2. /\ call' = [call EXCEPT ![r] = c]
        /\ UNCHANGED <<project, answering, dispatched>>
    BY <1>5 DEF Stop
  <2>. HIDE DEF c
  <2>. QED BY <1>0, <2>1, <2>2, Keeps DEF Has
<1>. QED BY <1>2, <1>3, <1>4, <1>5 DEF Request

LEMMA RequestStepQuestion ==
    ASSUME TypeOK, WithheldIsIdle, NEW r \in Requests, RequestStep(r)
    PROVE  WithheldIsIdle'
<1>0. r \in Processes
  BY DEF Processes
<1>1. CASE ApproveStub(r)
  <2>1. CASE SetProject({"updating"})
    BY <2>1, Closed DEF SetProject, Has
  <2>2. CASE Withholds(r)
    BY <2>2 DEF Withholds, WithheldIsIdle
  <2>. QED BY <1>1, <2>1, <2>2 DEF ApproveStub
<1>2. CASE AssistStub(r)
  BY <1>2, Closed DEF AssistStub, SetProject, Has
<1>3. CASE RecordDatabase(r)
  <2>1. Has("pending")' => Has("pending")
    BY <1>3 DEF RecordDatabase, PatchProject, Has
  <2>. QED BY <1>0, <1>3, <2>1, KeepsIdle, KeepsGoing DEF RecordDatabase, Points
<1>4. CASE Unwithhold(r)
  <2>1. CASE Finish(r) /\ UNCHANGED project
    BY <1>0, <2>1, KeepsIdle DEF Has
  <2>2. CASE PatchProject({"updating"}, {"pending"})
    BY <2>2, Closed DEF PatchProject, Has
  <2>. QED BY <1>4, <2>1, <2>2 DEF Unwithhold
<1>5. CASE Dispatch(r)
  BY <1>0, <1>5, Sent DEF Dispatch, Sending
<1>6. CASE Refuse(r)
  BY <1>0, <1>6, KeepsIdle DEF Refuse, Has
<1>7. CASE StopUnblocks(r)
  BY <1>0, <1>7, KeepsIdle DEF StopUnblocks, PatchProject, Has
<1>8. CASE DeleteDrops(r)
  BY <1>8, Closed DEF DeleteDrops, Has
<1>9. CASE DeleteForgets(r)
  BY <1>0, <1>9, KeepsIdle DEF DeleteForgets, Has
<1>. QED BY <1>1, <1>2, <1>3, <1>4, <1>5, <1>6, <1>7, <1>8, <1>9 DEF RequestStep

LEMMA MoveQuestion ==
    ASSUME TypeOK, WithheldIsIdle, NEW p \in Processes, Check(p) \/ Write(p)
    PROVE  WithheldIsIdle'
<1>1. UNCHANGED project
  BY DEF Check, Write
<1>2. CASE Check(p)
  BY <1>1, <1>2, KeepsIdle, KeepsGoing DEF Check, Points, Has
<1>3. CASE Write(p)
  <2>1. CASE Goto(p, "stub") \/ Goto(p, "place")
    BY <1>1, <2>1, KeepsGoing DEF Points, Has
  <2>2. CASE ~(Goto(p, "stub") \/ Goto(p, "place"))
    <3>. DEFINE c == [call[p] EXCEPT !.at = "check", !.to = "APPROVED"]
    <3>1. call' = [call EXCEPT ![p].at = "check", ![p].to = "APPROVED"] /\ UNCHANGED history
      BY <1>3, <2>2 DEF Write
    <3>2. call' = [call EXCEPT ![p] = c]
      BY <3>1 DEF TypeOK
    <3>3. call[p] \in Calls /\ "check" \in Points /\ "APPROVED" \in Status
      BY DEF TypeOK, Points, Status
    <3>4. c \in Calls /\ c.at = "check"
      BY <3>3 DEF Calls
    <3>. HIDE DEF c
    <3>5. ~Sender(c)
      BY <3>4 DEF Sender
    <3>. QED BY <1>1, <3>1, <3>2, <3>4, <3>5, Keeps DEF history, Has
  <2>. QED BY <2>1, <2>2
<1>. QED BY <1>2, <1>3

\* What a build writes opens no question.
LEMMA BuildStepQuestion ==
    ASSUME TypeOK, WithheldIsIdle, NEW w \in Workers, BuildStep(w)
    PROVE  WithheldIsIdle'
<1>0. w \in Processes /\ call[w] \in Calls /\ call[w].op = "build"
  BY DEF Processes, TypeOK, BuildStep, BuildStarts, BuildBlocked, BuildStub,
         BuildScaffolds, BuildAgentEnds, BuildEnds, Step, Running
<1>1. Has("pending")' => Has("pending")
  BY DEF BuildStep, BuildStarts, BuildBlocked, BuildStub, BuildScaffolds,
         BuildAgentEnds, BuildEnds, Settle, SetProject, PatchProject, Has
<1>2. CASE \E x \in {"check", "block", "scaffold", "agent", "finish", "fail"} : Goto(w, x)
  BY <1>0, <1>1, <1>2, KeepsGoing DEF Points
<1>3. CASE Finish(w)
  BY <1>0, <1>1, <1>3, KeepsIdle
<1>4. CASE BuildScaffolds(w) /\ ~Goto(w, "fail")
  <2>. DEFINE x == IF Has("exists") THEN "agent" ELSE "fail"
              c == [call[w] EXCEPT !.at = x, !.read = TRUE]
  <2>1. call' = [call EXCEPT ![w].at = x, ![w].read = TRUE] /\ UNCHANGED history
    BY <1>4 DEF BuildScaffolds
  <2>2. call' = [call EXCEPT ![w] = c]
    BY <1>0, <2>1 DEF TypeOK
  <2>3. x \in {"agent", "fail"} /\ x \in Points
    BY DEF Points
  <2>. HIDE DEF x
  <2>4. c \in Calls /\ c.at \in {"agent", "fail"}
    BY <1>0, <2>3 DEF Calls
  <2>. HIDE DEF c
  <2>5. ~Sender(c)
    BY <2>4 DEF Sender
  <2>. QED BY <1>0, <1>1, <2>1, <2>2, <2>4, <2>5, Keeps DEF history
<1>. QED BY <1>2, <1>3, <1>4 DEF BuildStep, BuildStarts, BuildBlocked, BuildStub,
                                BuildScaffolds, BuildAgentEnds, BuildEnds

LEMMA RunStepQuestion ==
    ASSUME TypeOK, WithheldIsIdle, NEW w \in Workers, RunStep(w)
    PROVE  WithheldIsIdle'
<1>0. w \in Processes /\ call[w] \in Calls
  BY DEF Processes, TypeOK
<1>1. Has("pending")' => Has("pending")
  BY DEF RunStep, RunClearsFlag, RunLoads, RunIsBare, RunMarks, RunEnsures, UpdateAgentEnds,
         UpdateUnflags, PreviewCancelled, PreviewEnds, PreviewQuits, RunSettles, UpdateChains,
         RunLeaves, Settle, PatchProject, Has
<1>2. CASE \E x \in {"load", "bare", "mark", "ensure", "agent", "fail", "finish", "quit",
                      "leave"} : Goto(w, x)
  BY <1>0, <1>1, <1>2, KeepsGoing DEF Points
<1>3. CASE Finish(w)
  BY <1>0, <1>1, <1>3, KeepsIdle
<1>4. CASE UpdateAgentEnds(w) /\ ~Goto(w, "fail")
  <2>. DEFINE c == [call[w] EXCEPT !.at = "unflag", !.read = cancel]
  <2>1. call' = [call EXCEPT ![w].at = "unflag", ![w].read = cancel] /\ UNCHANGED history
    BY <1>4 DEF UpdateAgentEnds
  <2>2. call' = [call EXCEPT ![w] = c]
    BY <1>0, <2>1 DEF TypeOK
  <2>3. "unflag" \in Points /\ cancel \in BOOLEAN
    BY DEF Points, TypeOK
  <2>4. c \in Calls /\ c.at = "unflag"
    BY <1>0, <2>3 DEF Calls
  <2>. HIDE DEF c
  <2>5. ~Sender(c)
    BY <2>4 DEF Sender
  <2>. QED BY <1>0, <1>1, <2>1, <2>2, <2>4, <2>5, Keeps DEF history
<1>5. CASE Running(w, "update", "finish") /\ Goto(w, "chain")
  BY <1>0, <1>1, <1>5, KeepsGoing DEF Running, Points
<1>. QED BY <1>2, <1>3, <1>4, <1>5
         DEF RunStep, RunClearsFlag, RunLoads, RunIsBare, RunMarks, RunEnsures,
             UpdateAgentEnds, UpdateUnflags, PreviewCancelled, PreviewEnds, PreviewQuits,
             RunSettles, UpdateChains, RunLeaves

\* build_from_prompt opens the question and ends, or closes it and goes on.
LEMMA PromptStepQuestion ==
    ASSUME TypeOK, WithheldIsIdle, NEW w \in Workers, PromptStep(w)
    PROVE  WithheldIsIdle'
<1>0. w \in Processes
  BY DEF Processes
<1>1. CASE PromptDesigns(w)
  BY <1>0, <1>1, KeepsGoing DEF PromptDesigns, Points, Has
<1>2. CASE PromptPlaces(w)
  <2>1. CASE Withholds(w)
    BY <2>1 DEF Withholds, WithheldIsIdle
  <2>2. CASE PatchProject({"updating"}, {"pending"})
    BY <2>2, Closed DEF PatchProject, Has
  <2>3. CASE Goto(w, "fail") /\ UNCHANGED project
    BY <1>0, <2>3, KeepsGoing DEF Points, Has
  <2>. QED BY <1>2, <2>1, <2>2, <2>3 DEF PromptPlaces
<1>3. CASE PromptChains(w)
  BY <1>0, <1>3, Sent DEF PromptChains, Step, Sending
<1>4. CASE PromptFails(w)
  <2>1. Has("pending")' => Has("pending")
    BY <1>4 DEF PromptFails, Settle, PatchProject, Has
  <2>. QED BY <1>0, <1>4, <2>1, KeepsIdle DEF PromptFails
<1>. QED BY <1>1, <1>2, <1>3, <1>4 DEF PromptStep

LEMMA TakeQuestion ==
    ASSUME TypeOK, WithheldIsIdle, NEW w \in Workers, NEW task \in Tasks, TakeTask(w, task)
    PROVE  WithheldIsIdle'
<1>. DEFINE c == IF task = "prompt" THEN Begin(task, "design", "BLUEPRINT_READY", FALSE)
                 ELSE Begin(task, "own", "BUILDING", FALSE)
<1>1. c \in Calls /\ ~Sender(c)
  BY DEF Begin, Calls, Operations, Points, Status, Tasks, Sender
<1>2. call' = [call EXCEPT ![w] = c] /\ UNCHANGED <<project, answering, dispatched>>
  BY DEF TakeTask, history
<1>. HIDE DEF c
<1>. QED BY <1>1, <1>2, Keeps DEF Has, Processes

LEMMA NextQuestion == TypeOK /\ WithheldIsIdle /\ [Next]_vars => WithheldIsIdle'
<1>. SUFFICES ASSUME TypeOK, WithheldIsIdle, [Next]_vars PROVE WithheldIsIdle'
  OBVIOUS
<1>1. CASE UNCHANGED <<call, project, answering, dispatched>>
  BY <1>1 DEF WithheldIsIdle, Has, Sending, Running
<1>2. ASSUME NEW r \in Requests, Request(r) PROVE WithheldIsIdle'
  BY <1>2, RequestQuestion
<1>3. ASSUME NEW p \in Processes, ProcessStep(p) PROVE WithheldIsIdle'
  BY <1>3, MoveQuestion, RequestStepQuestion, BuildStepQuestion, RunStepQuestion,
     PromptStepQuestion DEF ProcessStep
<1>4. ASSUME NEW p \in Processes, Raises(p) PROVE WithheldIsIdle'
  <2>1. UNCHANGED project
    BY <1>4 DEF Raises
  <2>2. Finish(p) \/ Goto(p, "fail") \/ Goto(p, "leave")
    BY <1>4 DEF Raises
  <2>. QED BY <1>4, <2>1, <2>2, KeepsIdle, KeepsGoing DEF Points, Has
<1>5. ASSUME NEW p \in Processes, Crash(p) PROVE WithheldIsIdle'
  BY <1>5, KeepsIdle DEF Crash, Has
<1>6. ASSUME NEW w \in Workers, NEW task \in Tasks, TakeTask(w, task) PROVE WithheldIsIdle'
  BY <1>6, TakeQuestion
<1>7. CASE CancelExpires \/ UNCHANGED vars
  BY <1>1, <1>7 DEF CancelExpires, vars, bounds, history
<1>. QED BY <1>2, <1>3, <1>4, <1>5, <1>6, <1>7 DEF Next

\* For any number of coroutines and workers, approvals, answers, failures and
\* crashes: while the database question of the last approval or prompt is open
\* its build has not been dispatched, and no call that holds or answers it is
\* about to (blueprints.py:198-246, projects.py:130-152, 1138-1163).
THEOREM OpenQuestionHoldsTheBuild == Spec => []WithheldIsIdle
<1>1. Init => WithheldIsIdle
  BY DEF Init, WithheldIsIdle, Has
<1>. QED BY <1>1, NextQuestion, TypeCorrect, PTL DEF Spec
=============================================================================
