-------------------------- MODULE VoxaSessionProofs --------------------------
(***************************************************************************)
(* Type correctness and the safety invariants of VoxaSession, for every    *)
(* number of coroutines, workers, blueprints and bots.                     *)
(***************************************************************************)
EXTENDS VoxaSession, TLAPS

\* What a call in flight promises: a transition that will present the session
\* as backed has its blueprint, one that will mark it BUILDING an approved
\* one; an approval or a patch names a blueprint, and a call about to purge or
\* forget names a bot, purged by the time it is forgotten.
Kept(c) ==
    /\ c.at \in {"check", "write"} /\ c.to \in Backed => HasBlueprint
    /\ c.at \in {"check", "write"} /\ c.to = "BUILDING" => HasApproved
    /\ c.op = "approve" => HasBlueprint /\ c.arg \in Blueprints
    /\ c.op = "patch" => c.arg \in Blueprints
    /\ c.op \in {"generate", "transcribe"} => c.to # "BUILDING"
    /\ c.op = "botEnd" => c.to = "PROCESSING" /\ c.arg \in Bots
    /\ c.op = "build" => c.at \in {"own", "check", "write"}
    /\ c.at \in {"purge", "forget"} =>
           c.arg \in Bots /\ c.op \in {"botEnd", "remove"}
    /\ c.at = "forget" => c.arg \in purges
    /\ c.at = "map" => /\ c.op = "connect" /\ c.arg \in Bots
                       /\ bots[c.arg] = "mapped" \/ c.arg \in purges
    /\ c.at = "store" => c.op = "connect" /\ c.arg \in Bots

Promises == \A p \in Processes : Kept(call[p])

\* The inductive invariant.
IInv ==
    /\ Typed /\ Promises
    /\ BlueprintBacked /\ BuildingApproved
    /\ BotAccounted /\ PurgedBeforeForgotten

\* A task on the queue has a name and a number of retries.
LEMMA TaskFields ==
    ASSUME NEW t \in Tasks
    PROVE  t.name \in TaskNames /\ t.retries \in Nat
<1>. PICK n \in TaskNames : t \in [name : {n}, retries : 0..MaxRetries(n)]
  BY DEF Tasks
<1>. MaxRetries(n) \in Nat
  BY ConstantsAssumption DEF MaxRetries
<1>. QED OBVIOUS

LEMMA IdleCall == Idle \in Calls /\ Kept(Idle)
BY DEF Idle, Begin, Calls, Operations, Points, Status, Kept, Backed

LEMMA InitInv == Init => IInv
<1>. SUFFICES ASSUME Init PROVE IInv
  OBVIOUS
<1>1. Typed
  BY IdleCall DEF Init, Typed, Status, BotStates
<1>2. Promises
  BY IdleCall DEF Init, Promises
<1>. QED
  BY <1>1, <1>2 DEF Init, IInv, BlueprintBacked, BuildingApproved, Backed,
                   BotAccounted, PurgedBeforeForgotten

\* A step that only moves one call on, to a place whose promises hold, and
\* changes the queue.  Most steps of a handler are of this kind.
LEMMA QuietStep ==
    ASSUME IInv, NEW p \in Processes, NEW c \in Calls, Kept(c),
           call' = [call EXCEPT ![p] = c],
           UNCHANGED <<status, store, redis>>,
           queue' \in [Tasks -> Nat], requests' \in Nat, crashes' \in Nat, unmarked' \in BOOLEAN
    PROVE  IInv'
<1>1. Typed'
  BY DEF IInv, Typed, store, redis
<1>2. ASSUME NEW q \in Processes PROVE Kept(call[q])'
  <2>1. CASE q = p
    BY <2>1 DEF IInv, Typed, Kept, HasBlueprint, HasApproved, store, redis
  <2>2. CASE q # p
    BY <2>2 DEF IInv, Typed, Promises, Kept, HasBlueprint, HasApproved, store, redis
  <2>. QED BY <2>1, <2>2
<1>. QED
  BY <1>1, <1>2 DEF IInv, Promises, store, redis, BlueprintBacked, BuildingApproved,
       HasBlueprint, HasApproved, BotAccounted, PurgedBeforeForgotten

\* Putting a task on the queue keeps it a queue.
LEMMA QueueTyped ==
    ASSUME NEW q \in [Tasks -> Nat], NEW name, NEW n
    PROVE  With(q, name, n) \in [Tasks -> Nat]
<1>. DEFINE t == Task(name, n)
<1>1. With(q, name, n) = [x \in Tasks |-> IF x = t THEN q[t] + 1 ELSE q[x]]
  BY Zenon DEF With
<1>2. ASSUME NEW x \in Tasks PROVE (IF x = t THEN q[t] + 1 ELSE q[x]) \in Nat
  <2>. q[x] \in Nat
    OBVIOUS
  <2>. QED OBVIOUS
<1>. QED BY <1>1, <1>2

LEMMA FinishQuietly ==
    ASSUME IInv, NEW p \in Processes, Finish(p), UNCHANGED <<status, store, redis>>,
           queue' \in [Tasks -> Nat], requests' \in Nat, crashes' \in Nat, unmarked' \in BOOLEAN
    PROVE  IInv'
BY IdleCall, QuietStep DEF Finish

LEMMA GotoQuietly ==
    ASSUME IInv, NEW p \in Processes, NEW x \in Points, Goto(p, x),
           Kept([call[p] EXCEPT !.at = x]), UNCHANGED <<status, store, redis>>,
           queue' \in [Tasks -> Nat], requests' \in Nat, crashes' \in Nat, unmarked' \in BOOLEAN
    PROVE  IInv'
<1>. DEFINE c == [call[p] EXCEPT !.at = x]
<1>1. c \in Calls
  BY DEF IInv, Typed, Calls
<1>2. call' = [call EXCEPT ![p] = c]
  BY DEF Goto, IInv, Typed
<1>3. Kept(c)
  OBVIOUS
<1>. HIDE DEF c
<1>. QED
  BY <1>1, <1>2, <1>3, QuietStep

LEMMA AcceptInv ==
    ASSUME IInv, NEW r \in Requests, NEW c \in Calls, Accept(r, c), Kept(c)
    PROVE  IInv'
<1>1. r \in Processes /\ call' = [call EXCEPT ![r] = c] /\ UNCHANGED <<status, store, redis>>
  BY DEF Accept, Processes
<1>2. queue' \in [Tasks -> Nat] /\ requests' \in Nat /\ crashes' \in Nat /\ unmarked' \in BOOLEAN
  BY DEF Accept, IInv, Typed
<1>. QED
  BY <1>1, <1>2, QuietStep

LEMMA RequestInv ==
    ASSUME IInv, NEW r \in Requests, Request(r)
    PROVE  IInv'
<1>1. ASSUME NEW op \in {"join", "startLive", "end", "upload", "regenerate"},
             NEW to \in {"JOINING", "LISTENING", "PROCESSING"},
             Transition(r, op, to)
      PROVE  IInv'
  <2>. DEFINE c == Begin(op, "check", to, None, 0)
  <2>1. c \in Calls /\ Kept(c)
    BY DEF Begin, Calls, Operations, Points, Status, Kept, Backed
  <2>. QED
    BY <1>1, <2>1, AcceptInv DEF Transition
<1>2. CASE Join(r) \/ StartLive(r) \/ Upload(r) \/ EndSession(r) \/ Regenerate(r)
  BY <1>1, <1>2 DEF Join, StartLive, Upload, EndSession, Regenerate
<1>3. CASE DeleteSession(r)
  <2>. DEFINE c == Begin("delete", "wipe", "WAITING", None, 0)
  <2>1. c \in Calls /\ Kept(c)
    BY DEF Begin, Calls, Operations, Points, Status, Kept
  <2>. QED
    BY <1>3, <2>1, AcceptInv DEF DeleteSession
<1>4. CASE Approve(r)
  <2>1. PICK b \in Blueprints :
           /\ blueprint[b] # "absent"
           /\ Accept(r, Begin("approve", IF status = "APPROVED" THEN "save" ELSE "check",
                              "APPROVED", b, 0))
    BY <1>4 DEF Approve
  <2>2. PICK x \in {"save", "check"} : Accept(r, Begin("approve", x, "APPROVED", b, 0))
    BY <2>1
  <2>. DEFINE c == Begin("approve", x, "APPROVED", b, 0)
  <2>3. c \in Calls /\ Kept(c)
    BY <2>1 DEF Begin, Calls, Operations, Points, Status, Kept, HasBlueprint
  <2>. QED
    BY <2>2, <2>3, AcceptInv
<1>5. CASE PatchBlueprint(r)
  <2>1. PICK b \in Blueprints : Accept(r, Begin("patch", "save", "WAITING", b, 0))
    BY <1>5 DEF PatchBlueprint
  <2>. DEFINE c == Begin("patch", "save", "WAITING", b, 0)
  <2>2. c \in Calls /\ Kept(c)
    BY DEF Begin, Calls, Operations, Points, Status, Kept
  <2>. QED
    BY <2>1, <2>2, AcceptInv
<1>6. CASE BotStatus(r)
  <2>1. PICK b \in Bots, to \in {"JOINING", "LISTENING"} :
           Accept(r, Begin("botStatus", "check", to, b, 0))
    BY <1>6 DEF BotStatus
  <2>. DEFINE c == Begin("botStatus", "check", to, b, 0)
  <2>2. c \in Calls /\ Kept(c)
    BY DEF Begin, Calls, Operations, Points, Status, Kept, Backed
  <2>. QED
    BY <2>1, <2>2, AcceptInv
<1>7. CASE BotEnd(r)
  <2>1. PICK b \in Bots : Accept(r, Begin("botEnd", "own", "PROCESSING", b, 0))
    BY <1>7 DEF BotEnd
  <2>. DEFINE c == Begin("botEnd", "own", "PROCESSING", b, 0)
  <2>2. c \in Calls /\ Kept(c)
    BY DEF Begin, Calls, Operations, Points, Status, Kept
  <2>. QED
    BY <2>1, <2>2, AcceptInv
<1>. QED
  BY <1>2, <1>3, <1>4, <1>5, <1>6, <1>7 DEF Request

\* A step that changes the store or the mapping: it only adds blueprints,
\* approvals and purges, so every other call keeps its promises.
LEMMA OthersKeep ==
    ASSUME IInv, NEW p \in Processes, NEW c \in Calls,
           call' = [call EXCEPT ![p] = c],
           HasBlueprint => HasBlueprint', HasApproved => HasApproved',
           purges \subseteq purges',
           \A b \in Bots : bots[b] = "mapped" => bots'[b] = "mapped" \/ b \in purges'
    PROVE  /\ call' \in [Processes -> Calls]
           /\ call'[p] = c
           /\ \A q \in Processes \ {p} : Kept(call[q])'
<1>1. call' \in [Processes -> Calls] /\ call'[p] = c
  BY DEF IInv, Typed
<1>2. ASSUME NEW q \in Processes \ {p} PROVE Kept(call[q])'
  <2>1. Kept(call[q]) /\ call'[q] = call[q]
    BY DEF IInv, Typed, Promises
  <2>. QED BY <2>1 DEF Kept
<1>. QED BY <1>1, <1>2

LEMMA GotoCall ==
    ASSUME IInv, NEW p \in Processes, NEW x \in Points, Goto(p, x)
    PROVE  /\ [call[p] EXCEPT !.at = x] \in Calls
           /\ call' = [call EXCEPT ![p] = [call[p] EXCEPT !.at = x]]
BY DEF IInv, Typed, Calls, Goto

LEMMA FailsInv ==
    ASSUME IInv, NEW p \in Processes, call[p].op # "build", GenerateFails(p),
           call[p].at \notin {"purge", "forget"},
           UNCHANGED <<status, store, redis, bounds>>
    PROVE  IInv'
<1>1. queue' \in [Tasks -> Nat] /\ requests' \in Nat /\ crashes' \in Nat /\ unmarked' \in BOOLEAN
  BY QueueTyped DEF GenerateFails, Retry, IInv, Typed, bounds
<1>2. CASE Finish(p)
  BY <1>1, <1>2, FinishQuietly
<1>3. CASE Goto(p, "mark")
  <2>1. Kept([call[p] EXCEPT !.at = "mark"])
    BY DEF IInv, Typed, Calls, Promises, Kept
  <2>. QED
    BY <1>1, <1>3, <2>1, GotoQuietly DEF Points
<1>. QED
  BY <1>2, <1>3 DEF GenerateFails

LEMMA RaisesInv ==
    ASSUME IInv, NEW p \in Processes, Raises(p), call[p].at \notin {"purge", "forget"},
           UNCHANGED <<status, store, redis, bounds>>
    PROVE  IInv'
<1>1. CASE call[p].op \in {"generate", "transcribe"}
  BY <1>1, FailsInv DEF Raises
<1>2. CASE call[p].op = "botEnd" /\ Goto(p, "purge") /\ UNCHANGED queue
  <2>1. Kept([call[p] EXCEPT !.at = "purge"])
    BY <1>2 DEF IInv, Typed, Calls, Promises, Kept
  <2>. QED
    BY <1>2, <2>1, GotoQuietly DEF Points, IInv, Typed, bounds
<1>3. CASE Finish(p) /\ UNCHANGED queue
  BY <1>3, FinishQuietly DEF IInv, Typed, bounds
<1>. QED
  BY <1>1, <1>2, <1>3 DEF Raises

LEMMA CheckInv ==
    ASSUME IInv, NEW p \in Processes, Check(p)
    PROVE  IInv'
<1>1. CASE Goto(p, "write") /\ UNCHANGED queue
  <2>1. Kept([call[p] EXCEPT !.at = "write"])
    BY <1>1 DEF Check, At, IInv, Typed, Calls, Promises, Kept
  <2>. QED
    BY <1>1, <2>1, GotoQuietly DEF Check, Points, IInv, Typed, bounds
<1>2. CASE Raises(p)
  BY <1>2, RaisesInv DEF Check, At
<1>. QED
  BY <1>1, <1>2 DEF Check

\* The write is where the promise of the call becomes the invariant.
LEMMA WriteInv ==
    ASSUME IInv, NEW p \in Processes, Write(p)
    PROVE  IInv'
<1>1. CASE status = Gone
  BY <1>1, RaisesInv DEF Write, At
<1>2. CASE status # Gone
  <2>1. status' = call[p].to /\ status' \in Status /\ UNCHANGED <<store, redis, queue, bounds>>
    BY <1>2 DEF Write, IInv, Typed, Calls
  <2>2. PICK c \in Calls : call' = [call EXCEPT ![p] = c] /\ Kept(c)
    <3>1. CASE Finish(p)
      BY <3>1, IdleCall DEF Finish
    <3>2. CASE ~Finish(p)
      <4>. DEFINE x == AfterWrite(call[p].op)
      <4>1. Goto(p, x) /\ x \in Points \cap {"then", "save", "ack"}
        BY <1>2, <3>2 DEF Write, AfterWrite, Points
      <4>2. call[p].op # "build"
        BY <1>2, <3>2 DEF Write, AfterWrite
      <4>3. Kept([call[p] EXCEPT !.at = x])
        BY <4>1, <4>2 DEF Kept, IInv, Typed, Promises, Calls
      <4>. HIDE DEF x
      <4>. QED
        BY <4>1, <4>3, GotoCall
    <3>. QED BY <3>1, <3>2
  <2>3. /\ call' \in [Processes -> Calls] /\ call'[p] = c
        /\ \A q \in Processes \ {p} : Kept(call[q])'
    BY <2>1, <2>2, OthersKeep DEF HasBlueprint, HasApproved, store, redis
  <2>4. Promises'
    BY <2>1, <2>2, <2>3 DEF Promises, Kept, HasBlueprint, HasApproved, store, redis
  <2>5. Typed'
    BY <2>1, <2>3 DEF IInv, Typed, store, redis, bounds
  <2>6. BlueprintBacked' /\ BuildingApproved'
    BY <2>1 DEF Write, At, IInv, Promises, Kept, BlueprintBacked, BuildingApproved,
         HasBlueprint, HasApproved, store
  <2>. QED
    BY <2>1, <2>4, <2>5, <2>6 DEF IInv, redis, BotAccounted, PurgedBeforeForgotten
<1>. QED
  BY <1>1, <1>2

\* Every step that dispatches a task and ends, or goes on to purge.
LEMMA DispatchInv ==
    ASSUME IInv, NEW r \in Requests,
           \/ BotEndReads(r) \/ JoinDispatches(r) \/ EndDispatches(r)
           \/ BotEndDispatches(r) \/ UploadDispatches(r) \/ RegenerateDispatches(r)
           \/ ApproveDispatches(r)
    PROVE  IInv'
<1>. r \in Processes
  BY DEF Processes
<1>1. \A n \in TaskNames : With(queue, n, 0) \in [Tasks -> Nat]
  BY QueueTyped DEF IInv, Typed
<1>2. With(With(queue, "remove", 0), "generate", 0) \in [Tasks -> Nat]
  BY <1>1, QueueTyped DEF TaskNames
<1>3. /\ queue' \in [Tasks -> Nat] /\ requests' \in Nat /\ crashes' \in Nat /\ unmarked' \in BOOLEAN
      /\ UNCHANGED <<status, store, redis>>
  BY <1>1, <1>2 DEF BotEndReads, JoinDispatches, EndDispatches, BotEndDispatches,
       UploadDispatches, RegenerateDispatches, ApproveDispatches, Enqueue, TaskNames,
       IInv, Typed, bounds
<1>4. CASE Finish(r)
  BY <1>3, <1>4, FinishQuietly
<1>5. CASE ~Finish(r)
  <2>1. PICK x \in {"check", "purge"} : Goto(r, x) /\ call[r].op = "botEnd"
    BY <1>5 DEF BotEndReads, JoinDispatches, EndDispatches, BotEndDispatches,
         UploadDispatches, RegenerateDispatches, ApproveDispatches, Running
  <2>2. Kept([call[r] EXCEPT !.at = x])
    BY <2>1 DEF IInv, Typed, Calls, Promises, Kept, Backed
  <2>. QED
    BY <1>3, <2>1, <2>2, GotoQuietly DEF Points
<1>. QED BY <1>4, <1>5

\* The steps that change the session's document, its events or blueprints.
LEMMA StoreStep ==
    ASSUME IInv, NEW p \in Processes, NEW c \in Calls,
           call' = [call EXCEPT ![p] = c], Kept(c)',
           status' \in Status \cup {Gone}, transcript' \in BOOLEAN,
           edited' \subseteq Blueprints,
           blueprint' \in [Blueprints -> {"absent", "draft", "approved"}],
           HasBlueprint => HasBlueprint', HasApproved => HasApproved',
           status' # status => status' \notin Backed, unmarked' \in BOOLEAN,
           UNCHANGED <<redis, queue, requests, crashes>>
    PROVE  IInv'
<1>1. /\ call' \in [Processes -> Calls] /\ call'[p] = c
      /\ \A q \in Processes \ {p} : Kept(call[q])'
  BY OthersKeep DEF redis
<1>2. Promises'
  BY <1>1 DEF Promises, Kept
<1>3. Typed'
  BY <1>1 DEF IInv, Typed, redis, bounds
<1>. QED
  BY <1>2, <1>3 DEF IInv, redis, BlueprintBacked, BuildingApproved, Backed,
       BotAccounted, PurgedBeforeForgotten

LEMMA MovedCall ==
    ASSUME IInv, NEW p \in Processes, NEW x \in Points, Goto(p, x)
    PROVE  \E c \in Calls : /\ c = [call[p] EXCEPT !.at = x]
                            /\ call' = [call EXCEPT ![p] = c]
BY GotoCall

LEMMA StoreInv ==
    ASSUME IInv, NEW p \in Processes,
           \/ PatchWrites(p) \/ DeleteEvents(p) \/ DeleteDocument(p)
           \/ MarkFailed(p) \/ Extract(p) \/ Transcribe(p)
    PROVE  IInv'
<1>1. /\ status' \in Status \cup {Gone} /\ transcript' \in BOOLEAN
      /\ UNCHANGED <<blueprint, redis, queue, requests, crashes>>
      /\ status' # status => status' \notin Backed
      /\ unmarked' \in BOOLEAN
  BY DEF PatchWrites, DeleteEvents, DeleteDocument, MarkFailed, Extract, Transcribe,
         IInv, Typed, Status, Gone, Backed, store, bounds
<1>2. edited' \subseteq Blueprints
  BY DEF PatchWrites, DeleteEvents, DeleteDocument, MarkFailed, Extract, Transcribe,
         Running, IInv, Typed, Promises, Kept, store
<1>3. (HasBlueprint => HasBlueprint') /\ (HasApproved => HasApproved')
  BY <1>1 DEF HasBlueprint, HasApproved
<1>4. CASE Finish(p)
  <2>1. Kept(Idle)'
    BY DEF Idle, Begin, Kept, Backed
  <2>2. PICK c \in Calls : c = Idle /\ call' = [call EXCEPT ![p] = c]
    BY <1>4, IdleCall DEF Finish
  <2>3. Kept(c)'
    BY <2>1, <2>2 DEF Idle, Begin, Kept, Backed
  <2>. QED
    BY <1>1, <1>2, <1>3, <2>2, <2>3, StoreStep DEF IInv, Typed
<1>5. CASE ~Finish(p)
  <2>1. PICK x \in {"drop", "ack", "then"} : Goto(p, x) /\ call[p].op # "build"
    BY <1>5 DEF PatchWrites, DeleteEvents, DeleteDocument, MarkFailed, Extract,
         Transcribe, Running, At, IInv, Promises, Kept
  <2>2. PICK c \in Calls : /\ c = [call[p] EXCEPT !.at = x]
                           /\ call' = [call EXCEPT ![p] = c]
    BY <2>1, MovedCall DEF Points
  <2>3. c.op = call[p].op /\ c.to = call[p].to /\ c.arg = call[p].arg /\ c.at = x
    BY <2>2 DEF IInv, Typed, Calls
  <2>4. Kept(c)'
    BY <1>3, <2>1, <2>3 DEF IInv, Promises, Kept
  <2>. QED
    BY <1>1, <1>2, <1>3, <2>2, <2>4, StoreStep DEF IInv, Typed
<1>. QED BY <1>4, <1>5

\* Blueprints are only ever added and approved.
LEMMA BlueprintInv ==
    ASSUME IInv, NEW p \in Processes,
           ApproveMarks(p) \/ GenerateSaves(p) \/ GenerateSavesTwin(p)
    PROVE  IInv'
<1>1. PICK x \in {"then", "twin", "check"} :
         /\ Goto(p, x)
         /\ x = "check" => call[p].op \in {"generate", "transcribe"} /\ HasBlueprint'
         /\ call[p].op # "build"
  <2>1. CASE ApproveMarks(p)
    BY <2>1 DEF ApproveMarks, Running
  <2>2. CASE GenerateSaves(p) \/ GenerateSavesTwin(p)
    BY <2>2 DEF GenerateSaves, GenerateSavesTwin, SaveBlueprint, Aggregating,
         HasBlueprint, IInv, Typed
  <2>. QED BY <2>1, <2>2
<1>2. /\ blueprint' \in [Blueprints -> {"absent", "draft", "approved"}]
      /\ UNCHANGED <<status, transcript, edited, redis, queue, bounds>>
      /\ \A b \in Blueprints :
           /\ blueprint[b] # "absent" => blueprint'[b] # "absent"
           /\ blueprint[b] = "approved" => blueprint'[b] = "approved"
  BY DEF ApproveMarks, GenerateSaves, GenerateSavesTwin, SaveBlueprint, IInv, Typed
<1>3. (HasBlueprint => HasBlueprint') /\ (HasApproved => HasApproved')
  BY <1>2 DEF HasBlueprint, HasApproved
<1>4. PICK c \in Calls : /\ c = [call[p] EXCEPT !.at = x]
                         /\ call' = [call EXCEPT ![p] = c]
  BY <1>1, MovedCall DEF Points
<1>5. c.op = call[p].op /\ c.to = call[p].to /\ c.arg = call[p].arg /\ c.at = x
  BY <1>4 DEF IInv, Typed, Calls
<1>6. Kept(c)'
  BY <1>1, <1>3, <1>5 DEF IInv, Promises, Kept
<1>. QED
  BY <1>2, <1>3, <1>4, <1>6, StoreStep DEF IInv, Typed, bounds

\* The steps that change the mapping of the bots.
LEMMA MappingInv ==
    ASSUME IInv, NEW p \in Processes,
           StoresBot(p) \/ MapsSession(p) \/ SchedulePurge(p) \/ ForgetBot(p)
    PROVE  IInv'
<1>1. /\ bots' \in [Bots -> BotStates]
      /\ sessionBot' \in Bots \cup {None}
      /\ purges' \subseteq Bots /\ purges \subseteq purges'
      /\ UNCHANGED <<status, store, queue, bounds>>
  BY DEF StoresBot, MapsSession, SchedulePurge, ForgetBot, At, IInv, Typed, Promises, Kept, BotStates
<1>2. BotAccounted' /\ PurgedBeforeForgotten'
  BY ConstantsAssumption DEF StoresBot, MapsSession, SchedulePurge, ForgetBot, At, IInv, Typed,
     Promises, Kept, BotAccounted, PurgedBeforeForgotten
<1>3. HasBlueprint' = HasBlueprint /\ HasApproved' = HasApproved
  BY <1>1 DEF HasBlueprint, HasApproved, store
<1>4. PICK c \in Calls : call' = [call EXCEPT ![p] = c] /\ Kept(c)'
  <2>1. CASE Finish(p)
    BY <2>1, IdleCall DEF Finish, Idle, Begin, Kept, Backed
  <2>2. CASE ~Finish(p)
    <3>1. PICK x \in {"forget", "ack", "map"} :
             /\ Goto(p, x) /\ call[p].op # "build"
             /\ x = "forget" => At(p, "purge") /\ call[p].arg \in purges'
             /\ x = "map" => At(p, "store") /\ bots'[call[p].arg] = "mapped"
      BY <2>2 DEF StoresBot, MapsSession, SchedulePurge, ForgetBot, Running, At, IInv, Typed, Promises, Kept
    <3>2. PICK c \in Calls : /\ c = [call[p] EXCEPT !.at = x]
                             /\ call' = [call EXCEPT ![p] = c]
      BY <3>1, MovedCall DEF Points
    <3>3. c.op = call[p].op /\ c.to = call[p].to /\ c.arg = call[p].arg /\ c.at = x
      BY <3>2 DEF IInv, Typed, Calls
    <3>4. Kept(c)'
      BY <1>3, <3>1, <3>3 DEF IInv, Promises, Kept, At
    <3>. QED BY <3>2, <3>4
  <2>. QED BY <2>1, <2>2
<1>5. /\ call' \in [Processes -> Calls] /\ call'[p] = c
      /\ \A q \in Processes \ {p} : Kept(call[q])'
  <2>1. \A b \in Bots : bots[b] = "mapped" => bots'[b] = "mapped" \/ b \in purges'
    BY <1>1 DEF StoresBot, MapsSession, SchedulePurge, ForgetBot, At, IInv, Typed, Promises, Kept
  <2>. QED
    BY <2>1, <1>1, <1>3, <1>4, OthersKeep
<1>6. Promises'
  BY <1>4, <1>5 DEF Promises, Kept
<1>7. Typed'
  BY <1>1, <1>5 DEF IInv, Typed, store, bounds
<1>. QED
  BY <1>1, <1>2, <1>3, <1>6, <1>7 DEF IInv, BlueprintBacked, BuildingApproved

\* The bot that has just been created, and that no key names yet.
LEMMA JoinsInv ==
    ASSUME IInv, NEW w \in Workers, ConnectorJoins(w)
    PROVE  IInv'
<1>. w \in Processes
  BY DEF Processes
<1>1. PICK b \in Bots : /\ bots[b] = "unborn"
                        /\ bots' = [bots EXCEPT ![b] = "unstored"]
                        /\ call' = [call EXCEPT ![w].at = "store", ![w].arg = b]
  BY DEF ConnectorJoins
<1>2. PICK c \in Calls : c = [call[w] EXCEPT !.at = "store", !.arg = b]
  BY DEF IInv, Typed, Calls, Points
<1>3. call' = [call EXCEPT ![w] = c]
  BY <1>1, <1>2 DEF IInv, Typed
<1>4. /\ bots' \in [Bots -> BotStates]
      /\ \A x \in Bots : bots[x] = "mapped" => bots'[x] = "mapped"
      /\ UNCHANGED <<status, store, sessionBot, purges, queue, bounds>>
  BY <1>1 DEF ConnectorJoins, IInv, Typed, BotStates
<1>5. HasBlueprint' = HasBlueprint /\ HasApproved' = HasApproved
  BY <1>4 DEF HasBlueprint, HasApproved, store
<1>6. Kept(c)'
  BY <1>1, <1>2, <1>4, <1>5 DEF ConnectorJoins, Running, IInv, Typed, Calls, Promises, Kept
<1>7. /\ call' \in [Processes -> Calls] /\ call'[w] = c
      /\ \A q \in Processes \ {w} : Kept(call[q])'
  BY <1>3, <1>4, <1>5, OthersKeep
<1>8. Promises'
  BY <1>6, <1>7 DEF Promises, Kept
<1>9. Typed'
  BY <1>4, <1>7 DEF IInv, Typed, store, bounds
<1>10. BotAccounted' /\ PurgedBeforeForgotten'
  BY <1>1, <1>4, ConstantsAssumption DEF IInv, Typed, BotAccounted, PurgedBeforeForgotten
<1>. QED
  BY <1>4, <1>5, <1>8, <1>9, <1>10 DEF IInv, BlueprintBacked, BuildingApproved

\* The steps of a worker that touch only its call and the queue.
LEMMA WorkerInv ==
    ASSUME IInv, NEW w \in Workers,
           \/ Ack(w) \/ ConnectorTriesAgain(w) \/ ConnectorFails(w)
           \/ ConnectorGivesUp(w) \/ RemoveBot(w)
           \/ GenerateReads(w) \/ GenerateErrors(w) \/ GenerateTimesOut(w)
           \/ BuildStarts(w)
    PROVE  IInv'
<1>. w \in Processes
  BY DEF Processes
<1>1. CASE Ack(w) \/ ConnectorTriesAgain(w) \/ GenerateTimesOut(w)
  BY <1>1, FinishQuietly, QueueTyped DEF Ack, ConnectorTriesAgain, GenerateTimesOut,
     Retry, IInv, Typed, bounds
<1>2. CASE ConnectorFails(w)
  <2>1. Kept([call[w] EXCEPT !.at = "mark"])
    BY <1>2 DEF ConnectorFails, Running, IInv, Typed, Calls, Promises, Kept
  <2>. QED
    BY <1>2, <2>1, GotoQuietly DEF ConnectorFails, Points, IInv, Typed, bounds
<1>6. CASE ConnectorGivesUp(w)
  <2>1. Kept([call[w] EXCEPT !.at = "ack"])
    BY <1>6 DEF ConnectorGivesUp, Connecting, IInv, Typed, Calls, Promises, Kept
  <2>. QED
    BY <1>6, <2>1, GotoQuietly DEF ConnectorGivesUp, Points, IInv, Typed, bounds
<1>3. CASE RemoveBot(w)
  <2>1. CASE sessionBot = None
    <3>1. Goto(w, "ack") /\ Kept([call[w] EXCEPT !.at = "ack"])
      BY <1>3, <2>1 DEF RemoveBot, Running, Goto, IInv, Typed, Calls, Promises, Kept
    <3>. QED
      BY <1>3, <3>1, GotoQuietly DEF RemoveBot, Points, IInv, Typed, bounds
  <2>2. CASE sessionBot # None
    <3>. PICK b \in Bots : b = sessionBot
      BY <2>2 DEF IInv, Typed
    <3>. PICK c \in Calls : c = [call[w] EXCEPT !.at = "purge", !.arg = b]
      BY DEF IInv, Typed, Calls, Points
    <3>1. call' = [call EXCEPT ![w] = c]
      BY <1>3, <2>2 DEF RemoveBot, IInv, Typed
    <3>2. Kept(c)
      BY <1>3 DEF RemoveBot, Running, IInv, Typed, Calls, Promises, Kept
    <3>. QED
      BY <1>3, <3>1, <3>2, QuietStep DEF RemoveBot, IInv, Typed, bounds
  <2>. QED BY <2>1, <2>2
<1>4. CASE GenerateReads(w) \/ GenerateErrors(w)
  <2>1. CASE GenerateFails(w)
    BY <1>4, <2>1, FailsInv DEF GenerateReads, GenerateErrors, Running, Aggregating, At
  <2>2. CASE ~GenerateFails(w)
    <3>1. Goto(w, "save") /\ UNCHANGED <<status, store, redis, queue, bounds>>
      BY <1>4, <2>2 DEF GenerateReads, GenerateErrors
    <3>2. Kept([call[w] EXCEPT !.at = "save"])
      BY <1>4, <2>2 DEF GenerateReads, GenerateErrors, Running, IInv, Typed, Calls, Promises, Kept
    <3>. QED
      BY <3>1, <3>2, GotoQuietly DEF Points, IInv, Typed, bounds
  <2>. QED BY <2>1, <2>2
<1>5. CASE BuildStarts(w)
  <2>1. CASE Finish(w)
    BY <1>5, <2>1, FinishQuietly DEF BuildStarts, IInv, Typed, bounds
  <2>2. CASE HasApproved /\ Goto(w, "check")
    <3>1. HasBlueprint
      BY <2>2 DEF HasApproved, HasBlueprint
    <3>2. Kept([call[w] EXCEPT !.at = "check"])
      BY <1>5, <2>2, <3>1 DEF BuildStarts, Running, IInv, Typed, Calls, Promises, Kept
    <3>. QED
      BY <1>5, <2>2, <3>2, GotoQuietly DEF BuildStarts, Points, IInv, Typed, bounds
  <2>. QED BY <1>5, <2>1, <2>2 DEF BuildStarts
<1>. QED
  BY <1>1, <1>2, <1>3, <1>4, <1>5, <1>6

LEMMA TakeInv ==
    ASSUME IInv, NEW w \in Workers, NEW t \in Tasks, TakeTask(w, t)
    PROVE  IInv'
<1>. PICK to \in {"BUILDING", "BLUEPRINT_READY"} :
        /\ to = (IF t.name = "build" THEN "BUILDING" ELSE "BLUEPRINT_READY")
        /\ call' = [call EXCEPT ![w] = Begin(t.name, "own", to, None, t.retries)]
  BY DEF TakeTask
<1>. DEFINE c == Begin(t.name, "own", to, None, t.retries)
<1>1. c \in Calls /\ Kept(c)
  BY TaskFields DEF Begin, Calls, Operations, Points, Status, Kept, TaskNames
<1>2. queue' \in [Tasks -> Nat]
  BY DEF TakeTask, IInv, Typed
<1>3. w \in Processes /\ UNCHANGED <<status, store, redis, bounds>>
  BY DEF TakeTask, Processes
<1>. HIDE DEF c
<1>4. call' = [call EXCEPT ![w] = c]
  BY DEF c
<1>. QED
  BY <1>1, <1>2, <1>3, <1>4, QuietStep DEF IInv, Typed, bounds

LEMMA CrashInv ==
    ASSUME IInv, NEW p \in Processes, Crash(p)
    PROVE  IInv'
<1>1. queue' \in [Tasks -> Nat]
  BY QueueTyped DEF Crash, IInv, Typed
<1>. QED
  BY <1>1, FinishQuietly DEF Crash, IInv, Typed

LEMMA RemovalErrsInv ==
    ASSUME IInv, NEW p \in Processes, RemovalErrs(p)
    PROVE  IInv'
BY FinishQuietly DEF RemovalErrs, IInv, Typed, bounds

\* A key that lapses: nobody is about to store the session's key after it, and
\* a session key that names a lapsed bot lapses too.
LEMMA LapseInv ==
    ASSUME IInv, BotKeyLapses \/ SessionKeyLapses
    PROVE  IInv'
<1>1. CASE BotKeyLapses
  <2>1. PICK b \in Bots : /\ bots[b] = "mapped"
                          /\ \A p \in Processes : ~(At(p, "map") /\ call[p].arg = b)
                          /\ bots' = [bots EXCEPT ![b] = "lapsed"]
    BY <1>1 DEF BotKeyLapses
  <2>2. UNCHANGED <<status, store, sessionBot, purges, queue, call, bounds>>
    BY <1>1 DEF BotKeyLapses
  <2>3. Typed'
    BY <2>1, <2>2 DEF IInv, Typed, BotStates, store, bounds
  <2>4. ASSUME NEW q \in Processes PROVE Kept(call[q])'
    <3>1. Kept(call[q])
      BY DEF IInv, Promises
    <3>2. call[q].at = "map" => call[q].arg # b
      BY <2>1 DEF At
    <3>. QED
      BY <2>1, <2>2, <3>1, <3>2 DEF Kept, HasBlueprint, HasApproved, store, IInv, Typed
  <2>. QED
    BY <2>1, <2>2, <2>3, <2>4 DEF IInv, Typed, Promises, BlueprintBacked, BuildingApproved,
       HasBlueprint, HasApproved, BotAccounted, PurgedBeforeForgotten, store
<1>2. CASE SessionKeyLapses
  <2>1. sessionBot' = None /\ UNCHANGED <<status, store, bots, purges, queue, call, bounds>>
    BY <1>2 DEF SessionKeyLapses
  <2>. QED
    BY <2>1 DEF IInv, Typed, Promises, Kept, BlueprintBacked, BuildingApproved,
       HasBlueprint, HasApproved, BotAccounted, PurgedBeforeForgotten, store, bounds
<1>. QED BY <1>1, <1>2

\* A step of the environment or a stuttering step leaves the calls alone.
LEMMA RestInv ==
    ASSUME IInv, TranscriptArrives \/ UNCHANGED vars
    PROVE  IInv'
<1>1. UNCHANGED <<status, store, redis, call, bounds>> /\ queue' \in [Tasks -> Nat]
  BY QueueTyped DEF TranscriptArrives, Enqueue, moving, vars, IInv, Typed
<1>. QED
  BY <1>1 DEF IInv, Typed, Promises, Kept, HasBlueprint, HasApproved, BlueprintBacked,
     BuildingApproved, BotAccounted, PurgedBeforeForgotten, store, redis, bounds

LEMMA NextInv == IInv /\ [Next]_vars => IInv'
<1>. SUFFICES ASSUME IInv, [Next]_vars PROVE IInv'
  OBVIOUS
<1>1. ASSUME NEW r \in Requests, Request(r) \/ RequestStep(r) PROVE IInv'
  BY <1>1, RequestInv, DispatchInv, StoreInv, BlueprintInv DEF RequestStep, Processes
<1>2. ASSUME NEW w \in Workers, WorkerStep(w) PROVE IInv'
  BY <1>2, WorkerInv, StoreInv, BlueprintInv, JoinsInv, MappingInv DEF WorkerStep, Processes
<1>3. ASSUME NEW w \in Workers, NEW t \in Tasks, TakeTask(w, t) PROVE IInv'
  BY <1>3, TakeInv
<1>4. ASSUME NEW p \in Processes, SharedStep(p) \/ Crash(p) PROVE IInv'
  BY <1>4, CheckInv, WriteInv, MappingInv, RemovalErrsInv, CrashInv DEF SharedStep
<1>5. CASE TranscriptArrives \/ UNCHANGED vars
  BY <1>5, RestInv
<1>6. CASE BotKeyLapses \/ SessionKeyLapses
  BY <1>6, LapseInv
<1>. QED
  BY <1>1, <1>2, <1>3, <1>4, <1>5, <1>6 DEF Next, Step

LEMMA Invariance == Spec => []IInv
BY InitInv, NextInv, PTL DEF Spec

\* The variables keep their types in every behaviour.
THEOREM TypeCorrect == Spec => []TypeOK
<1>1. Init => physical \in BOOLEAN
  BY DEF Init
<1>2. physical \in BOOLEAN /\ [Next]_vars => (physical \in BOOLEAN)'
  BY DEF Next, vars
<1>3. IInv /\ physical \in BOOLEAN => TypeOK
  BY DEF IInv, TypeOK
<1>. QED
  BY <1>1, <1>2, <1>3, Invariance, PTL DEF Spec

\* A session the application presents as ready, approved or being built has a
\* blueprint, whatever requests, webhooks, retries and crashes interleave.
THEOREM ReadyHasBlueprint == Spec => []BlueprintBacked
BY Invariance, PTL DEF IInv

\* A session is BUILDING only once one of its blueprints was approved.
THEOREM BuildingHasApproved == Spec => []BuildingApproved
BY Invariance, PTL DEF IInv

\* The bot the session key names is mapped, or its purge is scheduled, or its
\* own key has just lapsed.
THEOREM BotIsAccounted == Spec => []BotAccounted
BY Invariance, PTL DEF IInv

\* A bot that joined and that the API no longer knows was scheduled for the
\* purge of its media, but for one whose key was never stored or lived out its
\* 24 h, whatever of the removal failed and in whatever order it was done.
THEOREM PurgeIsNeverLost == Spec => []PurgedBeforeForgotten
BY Invariance, PTL DEF IInv
=============================================================================
