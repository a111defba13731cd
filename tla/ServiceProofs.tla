---------------------------- MODULE ServiceProofs ----------------------------
(***************************************************************************)
(* Proofs about the services: whether concurrent meetings keep a Zoom      *)
(* grant (ZoomGrant), that a bot ends with its meeting (MeetingBot), that  *)
(* every piece of audio is accounted for (LiveAudio), that a turn stays in *)
(* its thread (ChatThread), that a job has one outcome (ExtractJobs) and   *)
(* that the catalogue is what was asked for (Catalogue). Each part uses    *)
(* the assumptions of its own component only.                              *)
(***************************************************************************)
EXTENDS ZoomGrant, MeetingBot, LiveAudio, ChatThread, ExtractJobs, Catalogue,
        FiniteSetTheorems, TLAPS

(***************************************************************************)
(* ZoomGrant.  Unless something came in between, who works on the grant    *)
(* holds the lock, presents what is stored, and what is stored is what     *)
(* Zoom accepts or is about to be replaced by it.                          *)
(***************************************************************************)
Stages == {"away", "lock", "reread", "refresh", "store"}

ZoomTypes ==
    /\ issued \in Nat /\ stored \in Nat /\ linking \in Nat
    /\ lock \in Meetings \cup {"none"}
    /\ joiner \in [Meetings -> [at : Stages, token : Nat]]

HoldsLock == \A m \in Meetings : joiner[m].at \in {"reread", "refresh", "store"} => lock = m
PresentsStored ==
    \A m \in Meetings : joiner[m].at = "refresh"
      => joiner[m].token = issued /\ stored = issued /\ linking = 0
StoresLatest ==
    \A m \in Meetings : joiner[m].at = "store" => joiner[m].token = issued /\ linking = 0
StoredWorks == (\A m \in Meetings : joiner[m].at # "store") => stored \in {0, issued}
LinksLatest == linking # 0 => linking = issued /\ stored = 0

Steady == HoldsLock /\ PresentsStored /\ StoresLatest /\ StoredWorks /\ LinksLatest /\ ~refused

ZoomInv == ZoomTypes /\ (~strayed => Steady)

Joiner == [at : Stages, token : Nat]

LEMMA AwayIsJoiner == Away \in Joiner /\ Away.at = "away"
BY DEF Away, Joiner, Stages

LEMMA ZoomStarts == ZoomInit => ZoomInv
<1>. SUFFICES ASSUME ZoomInit PROVE ZoomInv
  OBVIOUS
<1>1. joiner \in [Meetings -> [at : Stages, token : Nat]] /\ \A m \in Meetings : joiner[m] = Away
  BY AwayIsJoiner DEF ZoomInit, Joiner
<1>2. ZoomTypes
  BY <1>1 DEF ZoomInit, ZoomTypes
<1>3. Steady
  BY <1>1, AwayIsJoiner
     DEF ZoomInit, Steady, HoldsLock, PresentsStored, StoresLatest, StoredWorks, LinksLatest
<1>. QED BY <1>2, <1>3 DEF ZoomInv

LEMMA ZoomTypesStep == ZoomTypes /\ [ZoomNext]_zoomVars => ZoomTypes'
<1>. SUFFICES ASSUME ZoomTypes, [ZoomNext]_zoomVars PROVE ZoomTypes'
  OBVIOUS
<1>0. ASSUME NEW m \in Meetings, NEW j \in Joiner, joiner' = [joiner EXCEPT ![m] = j]
      PROVE  joiner' \in [Meetings -> [at : Stages, token : Nat]]
  BY <1>0 DEF ZoomTypes, Joiner
<1>1. CASE ExchangeCode \/ StoreTokens \/ Unlink \/ HourPasses \/ LockExpires
  BY <1>1 DEF ZoomTypes, ExchangeCode, StoreTokens, Unlink, HourPasses, LockExpires
<1>2. ASSUME NEW m \in Meetings, GetToken(m) PROVE ZoomTypes'
  <2>1. [at |-> "lock", token |-> stored] \in Joiner
    BY DEF ZoomTypes, Joiner, Stages
  <2>. QED BY <1>0, <1>2, <2>1 DEF ZoomTypes, GetToken
<1>3. ASSUME NEW m \in Meetings, Lock(m) \/ GiveUp(m) PROVE ZoomTypes'
  <2>1. joiner' \in [Meetings -> [at : Stages, token : Nat]]
    BY <1>0, <1>3, AwayIsJoiner DEF ZoomTypes, Lock, GiveUp, Stages
  <2>. QED BY <1>3, <2>1 DEF ZoomTypes, Lock, GiveUp
<1>4. ASSUME NEW m \in Meetings, Reread(m) PROVE ZoomTypes'
  <2>1. [at |-> "refresh", token |-> TokenNow(m)] \in Joiner
    BY DEF ZoomTypes, Joiner, Stages, TokenNow
  <2>2. joiner' \in [Meetings -> [at : Stages, token : Nat]]
    BY <1>0, <1>4, <2>1, AwayIsJoiner DEF Reread
  <2>. QED BY <1>4, <2>2 DEF ZoomTypes, Reread, Release
<1>5. ASSUME NEW m \in Meetings, Refresh(m) PROVE ZoomTypes'
  <2>1. [at |-> "store", token |-> issued + 1] \in Joiner
    BY DEF ZoomTypes, Joiner, Stages
  <2>2. \/ issued' = issued + 1 /\ joiner' = [joiner EXCEPT ![m] = [at |-> "store", token |-> issued + 1]]
        \/ joiner' = [joiner EXCEPT ![m] = Away]
    BY <1>5 DEF Refresh
  <2>3. joiner' \in [Meetings -> [at : Stages, token : Nat]]
    BY <1>0, <2>1, <2>2, AwayIsJoiner
  <2>4. issued' \in Nat /\ lock' \in Meetings \cup {"none"}
    BY <1>5 DEF Refresh, Release, ZoomTypes
  <2>. QED BY <1>5, <2>3, <2>4 DEF ZoomTypes, Refresh
<1>6. ASSUME NEW m \in Meetings, RefreshFails(m) \/ StoreRefreshed(m) PROVE ZoomTypes'
  <2>1. joiner' \in [Meetings -> [at : Stages, token : Nat]]
    BY <1>0, <1>6, AwayIsJoiner DEF RefreshFails, StoreRefreshed
  <2>. QED BY <1>6, <2>1 DEF ZoomTypes, RefreshFails, StoreRefreshed, Release
<1>7. ASSUME NEW m \in Meetings, WorkerLost(m) PROVE ZoomTypes'
  <2>1. joiner' \in [Meetings -> [at : Stages, token : Nat]]
    BY <1>0, <1>7, AwayIsJoiner DEF WorkerLost
  <2>. QED BY <1>7, <2>1 DEF ZoomTypes, WorkerLost
<1>8. CASE UNCHANGED zoomVars
  BY <1>8 DEF zoomVars, ZoomTypes
<1>. QED BY <1>1, <1>2, <1>3, <1>4, <1>5, <1>6, <1>7, <1>8 DEF ZoomNext

LEMMA SteadyStep ==
    ASSUME ZoomInv, [ZoomNext]_zoomVars, ~strayed'
    PROVE  Steady'
<1>0. ~strayed /\ Steady /\ ZoomTypes
  <2>1. CASE ExchangeCode \/ StoreTokens \/ Unlink \/ LockExpires
    BY <2>1 DEF ZoomInv, ExchangeCode, StoreTokens, Unlink, LockExpires
  <2>2. CASE HourPasses \/ UNCHANGED zoomVars
    BY <2>2 DEF ZoomInv, HourPasses, zoomVars
  <2>3. ASSUME NEW m \in Meetings, Reread(m) PROVE ~strayed
    BY <2>3 DEF Reread
  <2>4. ASSUME NEW m \in Meetings, Refresh(m) PROVE ~strayed
    BY <2>4 DEF Refresh
  <2>5. ASSUME NEW m \in Meetings,
               GetToken(m) \/ Lock(m) \/ GiveUp(m) \/ RefreshFails(m) \/ StoreRefreshed(m)
        PROVE  ~strayed
    BY <2>5 DEF GetToken, Lock, GiveUp, RefreshFails, StoreRefreshed
  <2>6. ASSUME NEW m \in Meetings, WorkerLost(m) PROVE ~strayed
    BY <2>6 DEF WorkerLost
  <2>. QED BY <2>1, <2>2, <2>3, <2>4, <2>5, <2>6 DEF ZoomInv, ZoomNext
<1>. USE <1>0 DEF ZoomTypes, Stages, Away, Steady, HoldsLock, PresentsStored, StoresLatest,
                  StoredWorks, LinksLatest
<1>1. CASE ExchangeCode
  BY <1>1 DEF ExchangeCode, Refreshing
<1>2. CASE StoreTokens
  BY <1>2 DEF StoreTokens, Refreshing
<1>3. CASE Unlink
  BY <1>3 DEF Unlink, Refreshing
<1>4. CASE HourPasses
  BY <1>4 DEF HourPasses
<1>5. CASE LockExpires
  BY <1>5 DEF LockExpires
<1>6. ASSUME NEW m \in Meetings, GetToken(m) PROVE Steady'
  BY <1>6 DEF GetToken
<1>7. ASSUME NEW m \in Meetings, Lock(m) PROVE Steady'
  BY <1>7, ZoomAssumption DEF Lock
<1>8. ASSUME NEW m \in Meetings, GiveUp(m) PROVE Steady'
  BY <1>8 DEF GiveUp
<1>9. ASSUME NEW m \in Meetings, Reread(m) PROVE Steady'
  <2>1. CASE stored # 0 /\ lasting
    BY <1>9, <2>1, ZoomAssumption DEF Reread, Release
  <2>2. CASE ~(stored # 0 /\ lasting)
    <3>1. /\ joiner[m].at = "reread" /\ joiner' = [joiner EXCEPT ![m] = [at |-> "refresh", token |-> TokenNow(m)]]
          /\ ~(stored = 0 \/ linking # 0 \/ lock # m)
          /\ UNCHANGED <<issued, stored, linking, refused, lock>>
      BY <1>9, <2>2 DEF Reread
    <3>2. \A k \in Meetings : joiner[k].at # "store"
      BY <3>1
    <3>3. TokenNow(m) = issued /\ stored = issued
      BY <3>1, <3>2 DEF TokenNow
    <3>4. \A k \in Meetings : joiner'[k] = IF k = m THEN [at |-> "refresh", token |-> issued] ELSE joiner[k]
      BY <3>1, <3>3
    <3> QED
      BY <3>1, <3>3, <3>4
  <2> QED
    BY <2>1, <2>2
<1>10. ASSUME NEW m \in Meetings, Refresh(m) PROVE Steady'
  BY <1>10, ZoomAssumption DEF Refresh, Release
<1>11. ASSUME NEW m \in Meetings, RefreshFails(m) PROVE Steady'
  BY <1>11, ZoomAssumption DEF RefreshFails, Release
<1>12. ASSUME NEW m \in Meetings, StoreRefreshed(m) PROVE Steady'
  BY <1>12, ZoomAssumption DEF StoreRefreshed, Release
<1>13. ASSUME NEW m \in Meetings, WorkerLost(m) PROVE Steady'
  BY <1>13 DEF WorkerLost
<1>14. CASE UNCHANGED zoomVars
  BY <1>14 DEF zoomVars
<1>. QED BY <1>1, <1>2, <1>3, <1>4, <1>5, <1>6, <1>7, <1>8, <1>9, <1>10, <1>11, <1>12,
            <1>13, <1>14 DEF ZoomNext

\* For any number of meetings: unless something came between a refresh and its
\* lock, no spent token is presented, and the stored one is the one that Zoom
\* accepts or is about to be replaced by it (get_access_token, _refresh).
THEOREM GrantIsKept == ZoomSpec => []GrantKept
<1>1. ZoomInv => GrantKept
  <2>. SUFFICES ASSUME ZoomInv, ~strayed PROVE GrantKept
    BY DEF GrantKept
  <2>1. Steady /\ ZoomTypes
    BY DEF ZoomInv
  <2>2. CASE \A m \in Meetings : joiner[m].at # "store"
    BY <2>1, <2>2 DEF Steady, StoredWorks, GrantKept
  <2>3. ASSUME NEW m \in Meetings, joiner[m].at = "store" PROVE GrantKept
    <3>1. joiner[m] = [at |-> "store", token |-> issued]
      BY <2>1, <2>3 DEF Steady, StoresLatest, ZoomTypes
    <3>. QED BY <2>1, <3>1 DEF Steady, GrantKept
  <2>. QED BY <2>2, <2>3
<1>2. ZoomInv /\ [ZoomNext]_zoomVars => ZoomInv'
  BY ZoomTypesStep, SteadyStep DEF ZoomInv
<1>. QED BY <1>1, <1>2, ZoomStarts, PTL DEF ZoomSpec

------------------------------------------------------------------------------
(***************************************************************************)
(* MeetingBot.  A container runs unmapped only for a reason that strays    *)
(* names; and after the meeting's end a cleanup is under way for as long   *)
(* as there is a mapping, or one to come.                                  *)
(***************************************************************************)
\* The connector's task.
ConnectorRecords ==
    [at : {"queued", "secret", "run", "map", "done"}, tries : Nat, secret : Nat]

\* A container and the secret it was started with.
ContainerRecords == [is : {"none", "running", "exited"}, secret : Nat]

\* A cleanup is under way.
ReaperBusy == \E p \in Reapers : reaper[p] \in {"queued", "stop", "clear"}

\* Something else went wrong than a stop.
Astray == \E why \in strays : why # "stop failed"

\* A container runs unmapped only for a reason, and the end of the meeting leaves
\* a cleanup under way until then.
BotInv ==
    /\ reaper \in [Reapers -> {"none", "queued", "stop", "clear", "done"}]
    /\ mapped => ConnectorAt("done") \/ Astray
    /\ \A p \in Reapers : reaper[p] \in {"stop", "clear"} => ConnectorAt("done") \/ Astray
    /\ \A p \in Reapers : reaper[p] = "clear" => container.is # "running" \/ strays # {}
    /\ container.is = "running" /\ connector.at \in {"queued", "secret", "run"} => Astray
    /\ container.is = "running" /\ ConnectorAt("done") /\ ~mapped =>
         Astray \/ (strays # {} /\ secret = 0)
    /\ talk = "ended" /\ telling = "not" /\ ~early /\ (mapped \/ ~ConnectorAt("done")) =>
         ReaperBusy \/ Astray
    /\ connector \in ConnectorRecords /\ container \in ContainerRecords

\* Initially there is no container and the task is queued.
LEMMA BotStarts == BotInit => BotInv
BY DEF BotInit, BotInv, NoContainer, ConnectorAt, ConnectorRecords, ContainerRecords

\* A cleanup task goes on from one step to the next.
LEMMA ReaperGoes ==
    ASSUME BotInv, NEW p \in Reapers, NEW to \in {"none", "queued", "stop", "clear", "done"},
           reaper' = [reaper EXCEPT ![p] = to]
    PROVE  /\ reaper' \in [Reapers -> {"none", "queued", "stop", "clear", "done"}]
           /\ reaper'[p] = to /\ \A q \in Reapers : q # p => reaper'[q] = reaper[q]
           /\ to \in {"queued", "stop", "clear"} => ReaperBusy'
BY DEF BotInv, ReaperBusy

\* Once something has gone wrong, nothing is claimed but the types.
LEMMA AstrayKeeps ==
    ASSUME "unmapped" \in strays' \/ "no cleanup" \in strays', connector' \in ConnectorRecords,
           container' \in ContainerRecords,
           reaper' \in [Reapers -> {"none", "queued", "stop", "clear", "done"}]
    PROVE  BotInv'
<1>1. "unmapped" # "stop failed" /\ "no cleanup" # "stop failed"
  OBVIOUS
<1>2. strays' # {} /\ Astray'
  BY <1>1 DEF Astray
<1>. QED BY <1>2 DEF BotInv

\* Every step keeps the invariant.
LEMMA BotStep == BotInv /\ [BotNext]_botVars => BotInv'
<1>. SUFFICES ASSUME BotInv, [BotNext]_botVars PROVE BotInv'
  OBVIOUS
<1>0. /\ connector \in ConnectorRecords /\ container \in ContainerRecords
      /\ connector.secret + 1 \in Nat /\ connector.tries + 1 \in Nat
  <2>1. connector \in ConnectorRecords /\ container \in ContainerRecords
    BY DEF BotInv
  <2>2. connector.secret \in Nat /\ connector.tries \in Nat
    BY <2>1 DEF ConnectorRecords
  <2>. QED BY <2>1, <2>2
<1>21. reaper \in [Reapers -> {"none", "queued", "stop", "clear", "done"}]
  BY DEF BotInv
<1>1. CASE TakesConnector
  <2>1. /\ connector.at = "queued" /\ UNCHANGED <<talk, secret, container, mapped, reaper, telling, early, strays>>
        /\ connector' \in ConnectorRecords /\ connector'.at = "secret"
    BY <1>0, <1>1 DEF TakesConnector, ConnectorAt, ConnectorRecords
  <2>. QED BY <2>1 DEF BotInv, ReaperBusy, ConnectorAt, Astray
<1>2. CASE StoresSecret
  <2>1. /\ connector.at = "secret" /\ UNCHANGED <<talk, container, mapped, reaper, telling, early, strays>>
        /\ connector' \in ConnectorRecords /\ connector'.at = "run"
    BY <1>0, <1>2 DEF StoresSecret, ConnectorAt, ConnectorRecords
  <2>. QED BY <2>1 DEF BotInv, ReaperBusy, ConnectorAt, Astray
<1>3. CASE RunsContainer
  <2>1. /\ connector.at = "run" /\ UNCHANGED <<talk, secret, mapped, reaper, telling, early, strays>>
        /\ connector' \in ConnectorRecords /\ connector'.at = "map" /\ container' \in ContainerRecords
    BY <1>0, <1>3 DEF RunsContainer, ConnectorAt, ConnectorRecords, ContainerRecords
  <2>. QED BY <2>1 DEF BotInv, ReaperBusy, ConnectorAt, Astray
<1>4. CASE StoresMapping
  <2>1. /\ connector.at = "map" /\ UNCHANGED <<talk, secret, container, reaper, telling, early, strays>>
        /\ connector' \in ConnectorRecords /\ connector'.at = "done" /\ mapped' = TRUE
    BY <1>0, <1>4 DEF StoresMapping, ConnectorAt, ConnectorRecords
  <2>. QED BY <2>1 DEF BotInv, ReaperBusy, ConnectorAt, Astray
<1>5. CASE ConnectorErrs
  <2>1. /\ connector.at \in {"secret", "run", "map"}
        /\ UNCHANGED <<talk, secret, container, reaper, telling, early>>
    BY <1>5 DEF ConnectorErrs
  <2>2. connector' \in ConnectorRecords /\ connector'.at \in {"queued", "done"}
    <3>1. CASE connector.tries < BotRetries
      BY <1>0, <1>5, <3>1 DEF ConnectorErrs, ConnectorRecords
    <3>2. CASE ~(connector.tries < BotRetries)
      BY <1>0, <1>5, <3>2 DEF ConnectorErrs, ConnectorRecords
    <3>. QED BY <3>1, <3>2
  <2>3. CASE connector.at = "map"
    <3>1. "unmapped" \in strays'
      BY <1>5, <2>3 DEF ConnectorErrs, LeftUnmapped, ConnectorAt
    <3>. QED BY <2>1, <2>2, <3>1, <1>0, <1>21, AstrayKeeps
  <2>4. CASE connector.at # "map"
    <3>1. UNCHANGED <<mapped, strays>>
      BY <1>5, <2>4 DEF ConnectorErrs, LeftUnmapped, ConnectorAt
    <3>. QED BY <2>1, <2>2, <2>4, <3>1 DEF BotInv, ReaperBusy, ConnectorAt, Astray
  <2>. QED BY <2>3, <2>4
<1>6. CASE ConnectorLost
  <2>1. /\ connector.at \in {"secret", "run", "map"}
        /\ UNCHANGED <<talk, secret, container, reaper, telling, early>>
        /\ connector' \in ConnectorRecords /\ connector'.at = "queued"
    BY <1>0, <1>6 DEF ConnectorLost, ConnectorRecords
  <2>3. CASE connector.at = "map"
    <3>1. "unmapped" \in strays'
      BY <1>6, <2>3 DEF ConnectorLost, LeftUnmapped, ConnectorAt
    <3>. QED BY <2>1, <3>1, <1>0, <1>21, AstrayKeeps
  <2>4. CASE connector.at # "map"
    <3>1. UNCHANGED <<mapped, strays>>
      BY <1>6, <2>4 DEF ConnectorLost, LeftUnmapped, ConnectorAt
    <3>. QED BY <2>1, <2>4, <3>1 DEF BotInv, ReaperBusy, ConnectorAt, Astray
  <2>. QED BY <2>3, <2>4
<1>7. CASE BotRecords
  BY <1>7 DEF BotRecords, BotInv, ReaperBusy, ConnectorAt, Astray
<1>8. CASE BotEnds \/ StatusEnds \/ StatusLost
  <2>1. /\ telling' # "not"
        /\ UNCHANGED <<secret, container, mapped, connector, reaper, early, strays>>
    BY <1>8 DEF BotEnds, StatusEnds, StatusLost
  <2>. QED BY <2>1 DEF BotInv, ConnectorAt, Astray
<1>9. CASE StatusReaps
  <2>1. PICK p \in Reapers : reaper[p] = "none" /\ reaper' = [reaper EXCEPT ![p] = "queued"]
    BY <1>9 DEF StatusReaps, Dispatched
  <2>2. /\ telling' = "told" /\ UNCHANGED <<talk, secret, container, mapped, connector, early, strays>>
    BY <1>9 DEF StatusReaps
  <2>. QED BY <2>1, <2>2, ReaperGoes DEF BotInv, ConnectorAt, Astray
<1>10. CASE ContainerExits
  <2>1. /\ UNCHANGED <<talk, secret, mapped, connector, reaper, telling, early, strays>>
        /\ container' \in ContainerRecords /\ container'.is = "exited"
    BY <1>0, <1>10 DEF ContainerExits, ContainerRecords
  <2>. QED BY <2>1 DEF BotInv, ReaperBusy, ConnectorAt, Astray
<1>11. CASE UserEnds
  <2>1. UNCHANGED <<secret, container, mapped, connector, telling, early>>
    BY <1>11 DEF UserEnds
  <2>2. CASE strays' = strays \cup {"no cleanup"} /\ UNCHANGED reaper
    <3>1. "no cleanup" \in strays'
      BY <2>2
    <3>. QED BY <2>1, <2>2, <3>1, <1>0, <1>21, AstrayKeeps
  <2>3. CASE (\E p \in Reapers : Dispatched(p)) /\ UNCHANGED strays
    <3>1. PICK p \in Reapers : reaper[p] = "none" /\ reaper' = [reaper EXCEPT ![p] = "queued"]
      BY <2>3 DEF Dispatched
    <3>. QED BY <2>1, <2>3, <3>1, ReaperGoes DEF BotInv, ConnectorAt, Astray
  <2>. QED BY <1>11, <2>2, <2>3 DEF UserEnds
<1>12. ASSUME NEW p \in Reapers, LooksUp(p) PROVE BotInv'
  <2>1. /\ reaper' = [reaper EXCEPT ![p] = IF mapped THEN "stop" ELSE "done"]
        /\ early' = ~ConnectorAt("done")
        /\ UNCHANGED <<talk, secret, container, mapped, connector, telling, strays>>
    BY <1>12 DEF LooksUp, ReaperSteps
  <2>2. CASE mapped
    BY <2>1, <2>2, ReaperGoes DEF BotInv, ConnectorAt, Astray
  <2>3. CASE ~mapped
    <3>1. ~early' => ConnectorAt("done")'
      BY <2>1, <2>3 DEF ConnectorAt
    <3>. QED BY <2>1, <2>3, <3>1, ReaperGoes DEF BotInv, ConnectorAt, Astray
  <2>. QED BY <2>2, <2>3
<1>13. ASSUME NEW p \in Reapers, StopsContainer(p) PROVE BotInv'
  <2>1. /\ reaper[p] = "stop" /\ reaper' = [reaper EXCEPT ![p] = "clear"]
        /\ container' \in ContainerRecords /\ container'.is = "none"
        /\ UNCHANGED <<talk, secret, mapped, connector, telling, early, strays>>
    BY <1>13 DEF StopsContainer, ReaperSteps, NoContainer, ContainerRecords
  <2>. QED BY <2>1, ReaperGoes DEF BotInv, ConnectorAt, Astray
<1>14. ASSUME NEW p \in Reapers, StopFails(p) PROVE BotInv'
  <2>1. /\ reaper[p] = "stop" /\ reaper' = [reaper EXCEPT ![p] = "clear"]
        /\ strays' = strays \cup {"stop failed"}
        /\ UNCHANGED <<talk, secret, container, mapped, connector, telling, early>>
    BY <1>14 DEF StopFails, ReaperSteps
  <2>. QED BY <2>1, ReaperGoes DEF BotInv, ConnectorAt, Astray
<1>15. ASSUME NEW p \in Reapers, ClearsMapping(p) PROVE BotInv'
  <2>1. /\ reaper[p] = "clear" /\ reaper' = [reaper EXCEPT ![p] = "done"]
        /\ mapped' = FALSE /\ secret' = 0
        /\ UNCHANGED <<talk, container, connector, telling, early, strays>>
    BY <1>15 DEF ClearsMapping, ReaperSteps
  <2>. QED BY <2>1, ReaperGoes DEF BotInv, ConnectorAt, Astray
<1>16. ASSUME NEW p \in Reapers, ReaperLost(p) PROVE BotInv'
  <2>1. /\ reaper' = [reaper EXCEPT ![p] = "queued"]
        /\ UNCHANGED <<talk, secret, container, mapped, connector, telling, early, strays>>
    BY <1>16 DEF ReaperLost
  <2>. QED BY <2>1, ReaperGoes DEF BotInv, ConnectorAt, Astray
<1>17. CASE UNCHANGED botVars
  BY <1>17 DEF botVars, BotInv, ReaperBusy, ConnectorAt, Astray
<1>18. CASE SecretLapses
  BY <1>18 DEF SecretLapses, BotInv, ReaperBusy, ConnectorAt, Astray
<1>19. CASE MappingLapses
  <2>1. /\ mapped' = FALSE /\ "unmapped" \in strays'
        /\ UNCHANGED <<talk, secret, container, connector, reaper, telling, early>>
    BY <1>19 DEF MappingLapses
  <2>. QED BY <2>1, <1>0, <1>21, AstrayKeeps
<1>20. ASSUME NEW p \in Reapers, ReaperErrs(p) PROVE BotInv'
  <2>1. /\ reaper' = [reaper EXCEPT ![p] = "done"] /\ "no cleanup" \in strays'
        /\ UNCHANGED <<talk, secret, container, mapped, connector, telling, early>>
    BY <1>20 DEF ReaperErrs, ReaperSteps
  <2>. QED BY <2>1, ReaperGoes, <1>0, <1>21, AstrayKeeps
<1>. QED
  BY <1>1, <1>2, <1>3, <1>4, <1>5, <1>6, <1>7, <1>8, <1>9, <1>10, <1>11, <1>12, <1>13, <1>14,
     <1>15, <1>16, <1>17, <1>18, <1>19, <1>20 DEF BotNext

\* For any number of cleanups, retries and lost workers: when the meeting has
\* ended and the API has nothing more to do, a container runs on only because it
\* could not be stopped, was never mapped or no longer, or had no cleanup that
\* came through, and in the first case alone is no longer believed - unless the
\* last cleanup came before the connector was done (_finalize_end,
\* zoom_bot_cleanup, ZoomSelfHostedConnector.join, dispatch_connector).
THEOREM BotEndsWithItsMeeting == BotSpec => []BotEndsWithMeeting
<1>1. BotInv => BotEndsWithMeeting
  <2>. SUFFICES ASSUME BotInv, Over, container.is = "running", telling = "not", ~early
                PROVE  strays # {} /\ (Heard => strays # {"stop failed"})
    BY DEF BotEndsWithMeeting
  <2>1. ~ReaperBusy /\ talk = "ended" /\ ConnectorAt("done")
    BY DEF Over, ReaperBusy, ConnectorAt
  <2>2. Astray \/ (strays # {} /\ secret = 0)
    BY <2>1 DEF BotInv
  <2>. QED BY <2>2 DEF Heard, Astray
<1>. QED
  BY <1>1, BotStarts, BotStep, PTL DEF BotSpec

------------------------------------------------------------------------------
(***************************************************************************)
(* LiveAudio.  The streams share no piece, and what one has yet to         *)
(* transcribe is not in the transcript, unless the broker had the attempt  *)
(* made again; a piece that a stream lets go of is kept or given up for a  *)
(* reason.                                                                 *)
(***************************************************************************)
\* A stream of the process.
StreamRecords ==
    [is : {"none", "open", "finishing", "finished"}, buffer : SUBSET Pieces,
     chunk : SUBSET Pieces, at : {"sleep", "transcribe", "queue"}, tries : Nat]

\* What a stream still holds.
InStream(r) == r.buffer \cup r.chunk

\* Every variable has its type.
AudioValues ==
    /\ sent \in 0 .. MaxPieces /\ live \in 0 .. MaxStreams
    /\ stream \in [Streams -> StreamRecords]
    /\ kept \in [Pieces -> Nat]
    /\ unkept \in [Reasons -> SUBSET Pieces] /\ unqueued \in SUBSET Pieces

\* A piece is in the transcript, or was given up.
Settled(a) == kept[a] > 0 \/ \E y \in Reasons : a \in unkept[y]

\* Or it is still in hand.
Accounted(a) == Settled(a) \/ \E o \in Streams : a \in InStream(stream[o])

\* What a stream holds is its own, and a piece it has yet to transcribe is not
\* in the transcript unless the broker had the attempt made again.
StreamSound(r) ==
    /\ r.buffer \cap r.chunk = {}
    /\ r.at = "sleep" => r.chunk = {}
    /\ \A a \in InStream(r) : a <= sent
    /\ \A a \in r.buffer : kept[a] = 0
    /\ r.at = "transcribe" => \A a \in r.chunk : kept[a] = 0 \/ a \in unqueued
    /\ r.at = "queue" => \A a \in r.chunk : Settled(a)

\* The inductive invariant.
AudioInv ==
    /\ AudioValues
    /\ \A o \in Streams : StreamSound(stream[o])
    /\ \A o, q \in Streams : o # q => InStream(stream[o]) \cap InStream(stream[q]) = {}
    /\ \A a \in Pieces : /\ a > sent => kept[a] = 0
                         /\ a <= sent => Accounted(a)
                         /\ kept[a] > 1 => a \in unqueued

\* Initially nothing was sent.
LEMMA AudioStarts == AudioInit => AudioInv
<1>. SUFFICES ASSUME AudioInit PROVE AudioInv
  OBVIOUS
<1>1. Unborn \in StreamRecords /\ Unborn.at = "sleep" /\ Unborn.chunk = {} /\ Unborn.buffer = {}
  BY DEF Unborn, StreamRecords
<1>2. \A o \in Streams : stream[o] = Unborn
  BY DEF AudioInit
<1>3. AudioValues
  BY <1>1, AudioAssumption DEF AudioInit, AudioValues
<1>4. sent = 0 /\ \A a \in Pieces : kept[a] = 0 /\ a > 0
  BY DEF AudioInit, Pieces
<1>. HIDE DEF Unborn
<1>. QED
  BY <1>1, <1>2, <1>3, <1>4 DEF AudioInv, StreamSound, InStream, Pieces

\* A stream lets go of some of what it holds, all of which is accounted for.
LEMMA StreamMoves ==
    ASSUME AudioInv, NEW o \in Streams, NEW r \in StreamRecords,
           stream' = [stream EXCEPT ![o] = r], sent' = sent, live' \in 0 .. MaxStreams,
           r.buffer \subseteq stream[o].buffer,
           InStream(r) \subseteq InStream(stream[o]),
           r.buffer \cap r.chunk = {}, r.at = "sleep" => r.chunk = {},
           kept' \in [Pieces -> Nat],
           \A a \in Pieces : kept'[a] >= kept[a] /\ (a \notin stream[o].chunk => kept'[a] = kept[a]),
           unkept' \in [Reasons -> SUBSET Pieces],
           \A y \in Reasons : unkept[y] \subseteq unkept'[y],
           unqueued' \in SUBSET Pieces, unqueued \subseteq unqueued',
           \A a \in InStream(stream[o]) \ InStream(r) : Settled(a)',
           r.at = "queue" => \A a \in r.chunk : Settled(a)',
           r.at = "transcribe" => \A a \in r.chunk : kept'[a] = 0 \/ a \in unqueued',
           \A a \in Pieces : kept'[a] > 1 => a \in unqueued'
    PROVE  AudioInv'
<1>1. AudioValues'
  BY DEF AudioInv, AudioValues
<1>2. stream'[o] = r /\ \A q \in Streams : q # o => stream'[q] = stream[q]
  BY DEF AudioInv, AudioValues
<1>3. /\ sent \in Nat /\ kept \in [Pieces -> Nat]
      /\ \A q \in Streams : stream[q] \in StreamRecords
      /\ \A q \in Streams : stream[q].buffer \in SUBSET Pieces /\ stream[q].chunk \in SUBSET Pieces
  BY DEF AudioInv, AudioValues, StreamRecords
<1>4. ASSUME NEW q \in Streams PROVE StreamSound(stream[q])'
  <2>1. CASE q = o
    <3>1. \A a \in r.buffer : a \in Pieces /\ a \notin stream[o].chunk /\ kept[a] = 0
      BY <1>3 DEF AudioInv, StreamSound
    <3>2. \A a \in InStream(r) : a <= sent
      BY DEF AudioInv, StreamSound
    <3>. QED BY <2>1, <1>2, <3>1, <3>2 DEF StreamSound
  <2>2. CASE q # o
    <3>1. StreamSound(stream[q]) /\ InStream(stream[q]) \cap InStream(stream[o]) = {}
      BY <2>2 DEF AudioInv
    <3>2. \A a \in InStream(stream[q]) : a \in Pieces /\ a \notin stream[o].chunk
      BY <1>3, <3>1 DEF InStream
    <3>3. \A a \in InStream(stream[q]) : kept'[a] = kept[a]
      BY <3>2
    <3>4. \A a \in InStream(stream[q]) : Settled(a) => Settled(a)'
      BY <3>3 DEF Settled
    <3>. QED BY <1>2, <2>2, <3>1, <3>3, <3>4 DEF StreamSound, InStream
  <2>. QED BY <2>1, <2>2
<1>5. \A p, q \in Streams : p # q => (InStream(stream[p]) \cap InStream(stream[q]))' = {}
  BY <1>2 DEF AudioInv, InStream
<1>6. ASSUME NEW a \in Pieces, a <= sent PROVE Accounted(a)'
  <2>1. Accounted(a) /\ kept[a] \in Nat /\ kept'[a] \in Nat /\ kept'[a] >= kept[a]
    BY <1>3, <1>6 DEF AudioInv
  <2>2. CASE kept[a] > 0 \/ \E y \in Reasons : a \in unkept[y]
    BY <2>1, <2>2 DEF Accounted, Settled
  <2>3. CASE \E q \in Streams : a \in InStream(stream[q])
    <3>1. PICK q \in Streams : a \in InStream(stream[q])
      BY <2>3
    <3>2. CASE q # o
      <4>1. stream'[q] = stream[q]
        BY <1>2, <3>2
      <4>. QED BY <3>1, <4>1 DEF Accounted, Settled, InStream
    <3>3. CASE q = o /\ a \in InStream(r)
      BY <1>2, <3>3 DEF Accounted, Settled, InStream
    <3>4. CASE q = o /\ a \notin InStream(r)
      BY <3>1, <3>4 DEF Accounted, Settled
    <3>. QED BY <3>2, <3>3, <3>4
  <2>. QED BY <2>1, <2>2, <2>3 DEF Accounted, Settled
<1>7. \A a \in Pieces : a > sent => kept'[a] = 0
  <2>. TAKE a \in Pieces
  <2>. HAVE a > sent
  <2>1. a \notin stream[o].chunk
    <3>1. \A b \in stream[o].chunk : b <= sent
      BY DEF AudioInv, StreamSound, InStream
    <3>. QED BY <1>3, <3>1 DEF Pieces
  <2>. QED BY <2>1 DEF AudioInv
<1>. QED BY <1>1, <1>4, <1>5, <1>6, <1>7 DEF AudioInv

\* A chunk is taken out of the buffer.
LEMMA TakenMoves ==
    ASSUME AudioInv, NEW o \in Streams, stream[o].at = "sleep", Taken(o),
           UNCHANGED <<sent, live, kept, unqueued>>
    PROVE  AudioInv'
<1>. DEFINE s == stream[o]
            long == Cardinality(s.buffer) >= MinPieces
            r == [s EXCEPT !.buffer = {}, !.chunk = IF long THEN s.chunk \cup s.buffer ELSE {},
                           !.at = IF long THEN "transcribe" ELSE "sleep",
                           !.is = IF s.is = "finishing" /\ ~long THEN "finished" ELSE s.is,
                           !.tries = 0]
<1>1. s \in StreamRecords /\ s.chunk = {} /\ StreamSound(s)
  BY DEF AudioInv, AudioValues, StreamSound
<1>2. /\ r \in StreamRecords /\ r.buffer = {} /\ r.at \in {"transcribe", "sleep"}
      /\ r.chunk = IF long THEN s.buffer ELSE {}
      /\ long <=> r.at = "transcribe"
  BY <1>1 DEF StreamRecords
<1>3. stream' = [stream EXCEPT ![o] = r]
  BY DEF Taken, AudioInv, AudioValues
<1>4. unkept' = [unkept EXCEPT !["short"] = unkept["short"] \cup IF long THEN {} ELSE s.buffer]
  BY DEF Taken, GivesUp
<1>5. /\ unkept' \in [Reasons -> SUBSET Pieces] /\ \A y \in Reasons : unkept[y] \subseteq unkept'[y]
      /\ long \/ s.buffer \subseteq unkept'["short"]
  BY <1>1, <1>4 DEF AudioInv, AudioValues, StreamRecords, Reasons
<1>6. \A a \in InStream(s) \ InStream(r) : Settled(a)'
  <2>. HIDE DEF r, long
  <2>. QED BY <1>1, <1>2, <1>5 DEF InStream, Reasons, Settled
<1>7. /\ InStream(r) \subseteq InStream(s) /\ r.buffer \cap r.chunk = {} /\ r.buffer \subseteq s.buffer
      /\ r.at = "sleep" => r.chunk = {}
      /\ \A a \in r.chunk : kept[a] = 0
  <2>. HIDE DEF r, long
  <2>. QED BY <1>1, <1>2 DEF InStream, StreamSound
<1>8. /\ kept' \in [Pieces -> Nat] /\ \A a \in Pieces : kept'[a] >= kept[a] /\ kept'[a] = kept[a]
      /\ \A a \in Pieces : kept'[a] > 1 => a \in unqueued
      /\ unqueued \in SUBSET Pieces /\ live' \in 0 .. MaxStreams
  BY DEF AudioInv, AudioValues
<1>. HIDE DEF r, long
<1>. QED
  BY <1>2, <1>3, <1>5, <1>6, <1>7, <1>8, StreamMoves

\* A chunk is let go of, for a reason or as it was transcribed.
LEMMA ChunkMoves ==
    ASSUME AudioInv, NEW o \in Streams, NEW r \in StreamRecords,
           stream' = [stream EXCEPT ![o] = r],
           r.buffer = stream[o].buffer, r.chunk = {}, r.at = "sleep",
           UNCHANGED <<sent, kept>>, live' \in 0 .. MaxStreams,
           unqueued' \in SUBSET Pieces, unqueued \subseteq unqueued',
           unkept' \in [Reasons -> SUBSET Pieces],
           \A y \in Reasons : unkept[y] \subseteq unkept'[y],
           \A a \in stream[o].chunk : Settled(a)'
    PROVE  AudioInv'
<1>1. /\ kept \in [Pieces -> Nat] /\ \A a \in Pieces : kept'[a] >= kept[a] /\ kept'[a] = kept[a]
      /\ \A a \in Pieces : kept'[a] > 1 => a \in unqueued
  BY DEF AudioInv, AudioValues
<1>2. /\ InStream(r) \subseteq InStream(stream[o])
      /\ \A a \in InStream(stream[o]) \ InStream(r) : a \in stream[o].chunk
  BY DEF InStream
<1>. QED
  BY <1>1, <1>2, StreamMoves

\* Every step keeps the invariant.
LEMMA AudioStep == AudioInv /\ [AudioNext]_audioVars => AudioInv'
<1>. SUFFICES ASSUME AudioInv, [AudioNext]_audioVars PROVE AudioInv'
  OBVIOUS
<1>0. /\ sent \in Nat /\ live \in 0 .. MaxStreams /\ unqueued \in SUBSET Pieces
      /\ kept \in [Pieces -> Nat] /\ unkept \in [Reasons -> SUBSET Pieces]
      /\ \A o \in Streams : stream[o] \in StreamRecords /\ StreamSound(stream[o])
      /\ \A o \in Streams : stream[o].chunk \in SUBSET Pieces
      /\ MaxStreams \in Nat /\ AudioRetries \in Nat
  BY AudioAssumption DEF AudioInv, AudioValues, StreamRecords
<1>21. ASSUME NEW y \in Reasons, NEW given \in SUBSET Pieces, GivesUp(y, given)
      PROVE  /\ unkept' \in [Reasons -> SUBSET Pieces]
             /\ \A z \in Reasons : unkept[z] \subseteq unkept'[z]
             /\ \A a \in given : Settled(a)'
  BY <1>0, <1>21 DEF GivesUp, Settled
<1>b. \A y \in Reasons : unkept[y] \subseteq unkept[y]
  OBVIOUS
<1>c. ASSUME NEW o \in Streams, NEW at \in {"sleep", "transcribe", "queue"},
             NEW is \in {"none", "open", "finishing", "finished"}, NEW tries \in Nat
      PROVE  /\ [stream[o] EXCEPT !.at = at] \in StreamRecords
             /\ [stream[o] EXCEPT !.at = at, !.tries = tries] \in StreamRecords
             /\ [stream[o] EXCEPT !.chunk = {}, !.at = at, !.is = is] \in StreamRecords
  BY <1>0 DEF StreamRecords
<1>1. ASSUME NEW s \in Sockets, JoinsSession(s) PROVE AudioInv'
  BY <1>1 DEF JoinsSession, AudioInv, AudioValues, StreamSound, Accounted, Settled
<1>2. ASSUME NEW s \in Sockets, StreamsAudio(s) PROVE AudioInv'
  <2>1. PICK o \in Streams :
          /\ live' = o
          /\ stream' = [stream EXCEPT ![o].is = "open", ![o].buffer = @ \cup {sent + 1}]
    BY <1>2 DEF StreamsAudio
  <2>2. /\ sent < MaxPieces /\ sent' = sent + 1 /\ sent + 1 \in Pieces
        /\ UNCHANGED <<kept, unkept, unqueued>>
    BY <1>0, <1>2, AudioAssumption DEF StreamsAudio, Pieces
  <2>. DEFINE r == [stream[o] EXCEPT !.is = "open", !.buffer = stream[o].buffer \cup {sent + 1}]
  <2>3. /\ r \in StreamRecords /\ r.buffer = stream[o].buffer \cup {sent + 1}
        /\ r.chunk = stream[o].chunk /\ r.at = stream[o].at
    BY <1>0, <2>2 DEF StreamRecords
  <2>4. stream' = [stream EXCEPT ![o] = r]
    BY <2>1 DEF AudioInv, AudioValues
  <2>. HIDE DEF r
  <2>5. stream'[o] = r /\ \A q \in Streams : q # o => stream'[q] = stream[q]
    BY <2>4 DEF AudioInv, AudioValues
  <2>6. \A q \in Streams : \A a \in InStream(stream[q]) : a <= sent /\ a \in Nat
    BY <1>0 DEF StreamSound, InStream, StreamRecords, Pieces
  <2>7. kept[sent + 1] = 0
    BY <1>0, <2>2 DEF AudioInv
  <2>8. AudioValues'
    <3>1. sent' \in 0 .. MaxPieces /\ live' \in 0 .. MaxStreams
      BY <1>0, <2>1, <2>2, AudioAssumption DEF Streams
    <3>2. stream' \in [Streams -> StreamRecords]
      BY <2>3, <2>4 DEF AudioInv, AudioValues
    <3>. QED BY <1>0, <2>2, <3>1, <3>2 DEF AudioValues
  <2>9. ASSUME NEW q \in Streams PROVE StreamSound(stream[q])'
    <3>1. \A a \in InStream(stream[q]) : a <= sent + 1
      BY <1>0, <2>6
    <3>2. sent + 1 \notin stream[q].chunk
      BY <1>0, <2>6 DEF InStream
    <3>3. StreamSound(stream[q]) /\ \A a \in Pieces : Settled(a) => Settled(a)'
      BY <1>0, <2>2 DEF Settled
    <3>. QED
      BY <1>0, <2>2, <2>3, <2>5, <2>7, <3>1, <3>2, <3>3 DEF StreamSound, InStream
  <2>10. \A p, q \in Streams : p # q => (InStream(stream[p]) \cap InStream(stream[q]))' = {}
    <3>1. \A q \in Streams : sent + 1 \notin InStream(stream[q])
      BY <1>0, <2>6
    <3>. QED BY <2>3, <2>5, <3>1 DEF InStream, AudioInv
  <2>11. ASSUME NEW a \in Pieces, a <= sent + 1 PROVE Accounted(a)'
    <3>1. CASE a = sent + 1
      BY <2>3, <2>5, <3>1 DEF Accounted, InStream
    <3>2. CASE a # sent + 1
      <4>1. Accounted(a)
        BY <1>0, <2>11, <3>2 DEF AudioInv, Pieces
      <4>. QED BY <2>2, <2>3, <2>5, <4>1 DEF Accounted, Settled, InStream
    <3>. QED BY <3>1, <3>2
  <2>12. \A a \in Pieces : a > sent + 1 => kept[a] = 0
    BY <1>0 DEF AudioInv, Pieces
  <2>. QED BY <2>2, <2>8, <2>9, <2>10, <2>11, <2>12 DEF AudioInv
<1>3. ASSUME NEW o \in Streams, FlushTakes(o) \/ FinishTakes(o) PROVE AudioInv'
  BY <1>3, TakenMoves DEF FlushTakes, FinishTakes
<1>4. ASSUME NEW o \in Streams, Transcribed(o) PROVE AudioInv'
  <2>. DEFINE r == [stream[o] EXCEPT !.at = "queue"]
  <2>1. r \in StreamRecords
    BY <1>c
  <2>2. stream' = [stream EXCEPT ![o] = r] /\ stream[o].at = "transcribe"
        /\ UNCHANGED <<sent, live, unqueued>>
    BY <1>4 DEF Transcribed, AudioInv, AudioValues
  <2>3. r.at = "queue" /\ r.chunk = stream[o].chunk /\ r.buffer = stream[o].buffer
    BY <1>0 DEF StreamRecords
  <2>4. \A a \in stream[o].chunk : kept[a] = 0 \/ a \in unqueued
    BY <1>0, <2>2 DEF StreamSound
  <2>5. r.buffer \cap r.chunk = {} /\ InStream(r) = InStream(stream[o])
    BY <1>0, <2>3 DEF StreamSound, InStream
  <2>6. /\ kept' \in [Pieces -> Nat]
        /\ \A a \in Pieces : kept'[a] >= kept[a] /\ (a \notin stream[o].chunk => kept'[a] = kept[a])
        /\ \A a \in Pieces : kept'[a] > 1 => a \in unqueued
        /\ unkept' \in [Reasons -> SUBSET Pieces]
        /\ \A y \in Reasons : unkept[y] \subseteq unkept'[y]
        /\ \A a \in r.chunk : Settled(a)'
    <3>1. CASE /\ kept' = [a \in Pieces |-> IF a \in stream[o].chunk THEN kept[a] + 1 ELSE kept[a]]
               /\ UNCHANGED unkept
      BY <1>0, <2>3, <2>4, <3>1 DEF AudioInv, Settled
    <3>2. CASE GivesUp("unwritten", stream[o].chunk) /\ UNCHANGED kept
      <4>1. "unwritten" \in Reasons
        BY DEF Reasons
      <4>. QED BY <1>0, <1>21, <2>3, <3>2, <4>1 DEF AudioInv
    <3>. QED BY <1>4, <3>1, <3>2 DEF Transcribed
  <2>. HIDE DEF r
  <2>. QED BY <1>0, <2>1, <2>2, <2>3, <2>5, <2>6, StreamMoves
<1>d. ASSUME NEW o \in Streams, ChunkDone(o)
      PROVE  \E r \in StreamRecords :
                /\ stream' = [stream EXCEPT ![o] = r]
                /\ r.buffer = stream[o].buffer /\ r.chunk = {} /\ r.at = "sleep"
  <2>. DEFINE r == [stream[o] EXCEPT !.chunk = {}, !.at = "sleep",
                      !.is = IF stream[o].is = "finishing" THEN "finished" ELSE stream[o].is]
  <2>1. stream[o] \in StreamRecords
    BY <1>0
  <2>2. r \in StreamRecords /\ r.buffer = stream[o].buffer /\ r.chunk = {} /\ r.at = "sleep"
    BY <2>1 DEF StreamRecords
  <2>3. stream' = [stream EXCEPT ![o] = r]
    BY <1>d DEF ChunkDone, AudioInv, AudioValues
  <2>. HIDE DEF r
  <2>. QED BY <2>2, <2>3
<1>5. ASSUME NEW o \in Streams, ExtractionQueued(o) PROVE AudioInv'
  <2>1. /\ stream[o].at = "queue" /\ ChunkDone(o)
        /\ UNCHANGED <<sent, live, kept, unkept, unqueued>>
    BY <1>5 DEF ExtractionQueued
  <2>2. \A a \in stream[o].chunk : Settled(a)'
    BY <1>0, <2>1 DEF StreamSound, Settled
  <2>. QED BY <1>0, <1>b, <1>d, <2>1, <2>2, ChunkMoves
<1>6. ASSUME NEW o \in Streams, NothingSaid(o) PROVE AudioInv'
  <2>1. /\ ChunkDone(o) /\ GivesUp("silent", stream[o].chunk)
        /\ UNCHANGED <<sent, live, kept, unqueued>>
    BY <1>6 DEF NothingSaid
  <2>2. "silent" \in Reasons
    BY DEF Reasons
  <2>. QED BY <1>0, <1>21, <1>d, <2>1, <2>2, ChunkMoves
<1>7. ASSUME NEW o \in Streams, AttemptFails(o) PROVE AudioInv'
  <2>1. /\ stream[o].at # "sleep" /\ UNCHANGED <<sent, live, kept>>
        /\ unqueued' = unqueued \cup IF stream[o].at = "queue" THEN stream[o].chunk ELSE {}
        /\ unqueued' \in SUBSET Pieces /\ unqueued \subseteq unqueued'
    BY <1>0, <1>7 DEF AttemptFails
  <2>2. CASE stream[o].tries < AudioRetries
    <3>. DEFINE r == [stream[o] EXCEPT !.at = "transcribe", !.tries = stream[o].tries + 1]
    <3>0. stream[o].tries + 1 \in Nat /\ stream[o].at \in {"transcribe", "queue"}
      BY <1>0, <2>1 DEF StreamRecords
    <3>1. r \in StreamRecords
      BY <1>c, <3>0
    <3>2. stream' = [stream EXCEPT ![o] = r] /\ UNCHANGED unkept
      BY <1>7, <2>2 DEF AttemptFails, AudioInv, AudioValues
    <3>3. r.at = "transcribe" /\ r.chunk = stream[o].chunk /\ r.buffer = stream[o].buffer
      BY <1>0 DEF StreamRecords
    <3>4. r.buffer \cap r.chunk = {} /\ InStream(r) = InStream(stream[o])
      BY <1>0, <3>3 DEF StreamSound, InStream
    <3>5. \A a \in stream[o].chunk : kept'[a] = 0 \/ a \in unqueued'
      BY <1>0, <2>1, <3>0 DEF StreamSound
    <3>6. /\ \A a \in Pieces : kept'[a] >= kept[a] /\ kept'[a] = kept[a]
          /\ \A a \in Pieces : kept'[a] > 1 => a \in unqueued'
      BY <1>0, <2>1 DEF AudioInv
    <3>. HIDE DEF r
    <3>. QED BY <1>0, <1>b, <2>1, <3>1, <3>2, <3>3, <3>4, <3>5, <3>6, StreamMoves
  <2>3. CASE ~(stream[o].tries < AudioRetries)
    <3>1. ChunkDone(o) /\ GivesUp("failed", stream[o].chunk)
      BY <1>7, <2>3 DEF AttemptFails
    <3>2. "failed" \in Reasons
      BY DEF Reasons
    <3>. QED BY <1>0, <1>21, <1>d, <2>1, <3>1, <3>2, ChunkMoves
  <2>. QED BY <2>2, <2>3
<1>8. ASSUME live # 0, Cancelled(live), UNCHANGED <<sent, kept, unqueued>> PROVE AudioInv'
  <2>. DEFINE r == [stream[live] EXCEPT !.chunk = {}, !.at = "sleep", !.is = "finishing"]
  <2>0. live \in Streams /\ live' = 0 /\ 0 \in 0 .. MaxStreams
    BY <1>0, <1>8 DEF Streams, Cancelled
  <2>1. r \in StreamRecords /\ stream[live] \in StreamRecords
    BY <1>0, <1>c, <2>0
  <2>2. stream' = [stream EXCEPT ![live] = r]
    BY <1>8, <2>0 DEF Cancelled, AudioInv, AudioValues
  <2>3. r.at = "sleep" /\ r.chunk = {} /\ r.buffer = stream[live].buffer
    BY <2>1 DEF StreamRecords
  <2>4. "cut" \in Reasons /\ GivesUp("cut", stream[live].chunk)
    BY <1>8 DEF Reasons, Cancelled
  <2>. HIDE DEF r
  <2>. QED BY <1>0, <1>8, <1>21, <2>0, <2>1, <2>2, <2>3, <2>4, ChunkMoves
<1>9. ASSUME NEW s \in Sockets, EndsMeeting(s) PROVE AudioInv'
  BY <1>8, <1>9 DEF EndsMeeting
<1>10. ASSUME NEW s \in Sockets, Disconnects(s) PROVE AudioInv'
  <2>1. CASE live # 0
    BY <1>8, <1>10, <2>1 DEF Disconnects
  <2>2. CASE live = 0
    BY <1>10, <2>2 DEF Disconnects, AudioInv, AudioValues, StreamSound, Accounted, Settled
  <2>. QED BY <2>1, <2>2
<1>11. CASE UNCHANGED audioVars
  BY <1>11 DEF audioVars, AudioInv, AudioValues, StreamSound, Accounted, Settled
<1>. QED
  BY <1>1, <1>2, <1>3, <1>4, <1>5, <1>6, <1>7, <1>9, <1>10, <1>11 DEF AudioNext

\* For any number of sockets, streams and pieces: every piece of audio that was
\* sent is in hand, persisted, or given up for a reason the code names, and is
\* in the transcript once unless the broker refused its extraction (ws_voxa,
\* DeepgramLiveSession._flush, finish).
THEOREM AudioIsAccounted == AudioSpec => []AudioAccounted
<1>1. AudioInv => AudioAccounted
  <2>. SUFFICES ASSUME AudioInv, NEW a \in 1 .. sent
                PROVE  /\ a \in InHand \/ kept[a] > 0 \/ \E y \in Reasons : a \in unkept[y]
                       /\ kept[a] > 1 => a \in unqueued
    BY DEF AudioAccounted
  <2>1. a \in Pieces /\ a <= sent
    BY AudioAssumption DEF AudioInv, AudioValues, Pieces
  <2>2. Accounted(a) /\ (kept[a] > 1 => a \in unqueued)
    BY <2>1 DEF AudioInv
  <2>3. (\E o \in Streams : a \in InStream(stream[o])) => a \in InHand
    BY DEF InHand, InStream
  <2>. QED BY <2>2, <2>3 DEF Accounted, Settled
<1>. QED
  BY <1>1, AudioStarts, AudioStep, PTL DEF AudioSpec

------------------------------------------------------------------------------
(***************************************************************************)
(* ChatThread.  A list is written back as it was read, with a turn more.   *)
(* The invariant says of every list that was read, by whom it is going to  *)
(* replace, what it says of the stored one: its turns are in the order of  *)
(* their answers unless they met, and a turn missing from it was pushed    *)
(* out by later ones, met another, or went with its thread.                *)
(***************************************************************************)
\* b was answered after t in s, or is still to be.
Precedes(s, t, b) ==
    b \notin ToSet(s) \/ \E i, j \in 1 .. Len(s) : i < j /\ s[i] = t /\ s[j] = b

\* t is in the list, or was pushed out of it by later turns.
Holds(t, list, cap, s) ==
    t \in ToSet(list) \/ (Len(list) = cap /\ \A b \in ToSet(list) : Precedes(s, t, b))

\* What comes later in a list was answered later, or was under way at the same time.
Chain(list, s, m) ==
    \A i, j \in 1 .. Len(list) :
      i < j => list[j] \in m[list[i]] \/ (list[i] \in ToSet(s) /\ Precedes(s, list[i], list[j]))

\* A memory that is, or will be, stored: all in it was answered, and what is
\* missing is excused.
MemorySound(list, s, m) ==
    /\ Chain(list, s, m) /\ ToSet(list) \subseteq ToSet(s)
    /\ \A t \in ToSet(s) : m[t] # {} \/ Holds(t, list, MemoryCap, s)

\* Another turn of its thread was under way with t.
Excused(t, tn, m) == \E u \in m[t] : tn[u].of = tn[t].of

\* The same of the messages of thread c, which hold no other thread's.
ThreadSound(c, list, tn, s, m, gone) ==
    /\ Chain(list, s, m)
    /\ \A a \in ToSet(list) : tn[a].of = c /\ (tn[a].at = "remember" \/ a \in ToSet(s))
    /\ \A t \in ToSet(s) : tn[t].of = c =>
         c \in gone \/ Excused(t, tn, m) \/ Holds(t, list, HistoryCap, s)

\* Lists within a cap.
Short(cap) == {s \in Seq(Turns) : Len(s) <= cap}

\* A turn with what it has read.
TurnRecords == [at : {"idle", "memory", "thread", "think", "write", "remember", "over"},
                of : Chats \cup {"new"}, messages : Short(HistoryCap), memory : Short(MemoryCap)]

\* A thread's document.
ChatRecords == [owner : {"absent", "user", "nobody"}, messages : Short(HistoryCap)]

\* Every variable has its type.
TypedLists ==
    /\ chat \in [Chats -> ChatRecords] /\ memory \in Short(MemoryCap) /\ told \in Seq(Turns)
    /\ turn \in [Turns -> TurnRecords] /\ dropped \subseteq Chats /\ met \in [Turns -> SUBSET Turns]

\* Turns under way at the same time know of each other.
MeetingKnown ==
    /\ \A t, u \in Turns : t \in met[u] <=> u \in met[t]
    /\ \A t, u \in UnderWay : t # u => t \in met[u]
    /\ \A t \in Turns : turn[t].at = "idle" => met[t] = {} /\ turn[t] = Fresh

\* A turn that has read the memory.
Loaded(r) == r.at \in {"thread", "think", "write", "remember"}

\* What a turn has read is as sound as what it will replace.
TurnSound(t, r, tn, s, m, gone) ==
    /\ Loaded(r) => MemorySound(r.memory, s, m)
    /\ r.at \in {"thread", "remember"} => r.of \in Chats
    /\ r.of = "new" => r.messages = <<>>
    /\ r.at \in {"think", "write"} /\ r.of \in Chats =>
         /\ ThreadSound(r.of, r.messages, tn, s, m, gone)
         /\ \A a \in ToSet(r.messages) : t \in m[a] \/ a \in ToSet(s)

\* A thread has an owner unless it was deleted.
ThreadsOwned ==
    /\ \A t \in Turns : turn[t].of \in Chats =>
         chat[turn[t].of].owner # "absent" \/ turn[t].of \in dropped
    /\ \A c \in Chats : chat[c].owner = "nobody" => c \in dropped

\* The inductive invariant.
ChatInv ==
    /\ TypedLists /\ MeetingKnown /\ ThreadsOwned
    /\ \A t \in ToSet(told) : turn[t].at = "over" /\ turn[t].of \in Chats
    /\ MemorySound(memory, told, met)
    /\ \A c \in Chats : ThreadSound(c, chat[c].messages, turn, told, met, dropped)
    /\ \A t \in Turns :
         /\ TurnSound(t, turn[t], turn, told, met, dropped)
         /\ turn[t].at = "remember" =>
              \/ t \in ToSet(chat[turn[t].of].messages) \/ turn[t].of \in dropped
              \/ Excused(t, turn, met)

\* s2 begins with s.
Extends(s, s2) == Len(s) <= Len(s2) /\ \A i \in 1 .. Len(s) : s2[i] = s[i]

\* What holds of a list of answers holds of a longer one.
LEMMA MembersGrow ==
    ASSUME NEW s \in Seq(Turns), NEW s2 \in Seq(Turns), Extends(s, s2)
    PROVE  ToSet(s) \subseteq ToSet(s2)
BY DEF Extends, ToSet

\* So does the order of two turns,
LEMMA PrecedesGrows ==
    ASSUME NEW s \in Seq(Turns), NEW s2 \in Seq(Turns), Extends(s, s2),
           NEW t \in ToSet(s), NEW b, Precedes(s, t, b)
    PROVE  Precedes(s2, t, b)
<1>1. CASE b \notin ToSet(s2)
  BY <1>1 DEF Precedes
<1>2. CASE b \in ToSet(s)
  <2>1. PICK i, j \in 1 .. Len(s) : i < j /\ s[i] = t /\ s[j] = b
    BY <1>2 DEF Precedes
  <2>2. i \in 1 .. Len(s2) /\ j \in 1 .. Len(s2) /\ s2[i] = t /\ s2[j] = b
    BY <2>1 DEF Extends
  <2>. QED BY <2>1, <2>2 DEF Precedes
<1>3. CASE b \notin ToSet(s) /\ b \in ToSet(s2)
  <2>1. PICK i \in 1 .. Len(s) : s[i] = t
    BY DEF ToSet
  <2>2. PICK j \in 1 .. Len(s2) : s2[j] = b
    BY <1>3 DEF ToSet
  <2>3. j > Len(s)
    BY <1>3, <2>2 DEF ToSet, Extends
  <2>4. i \in 1 .. Len(s2) /\ i < j /\ s2[i] = t
    BY <2>1, <2>2, <2>3 DEF Extends
  <2>. QED BY <2>2, <2>4 DEF Precedes
<1>. QED BY <1>1, <1>2, <1>3

\* what a list holds,
LEMMA HoldsGrows ==
    ASSUME NEW s \in Seq(Turns), NEW s2 \in Seq(Turns), Extends(s, s2), NEW t \in ToSet(s),
           NEW list, NEW cap, Holds(t, list, cap, s)
    PROVE  Holds(t, list, cap, s2)
BY PrecedesGrows DEF Holds

\* its order,
LEMMA ChainGrows ==
    ASSUME NEW s \in Seq(Turns), NEW s2 \in Seq(Turns), Extends(s, s2), NEW m, NEW m2,
           \A t \in Turns : m[t] \subseteq m2[t], NEW list \in Seq(Turns), Chain(list, s, m)
    PROVE  Chain(list, s2, m2)
<1>. SUFFICES ASSUME NEW i \in 1 .. Len(list), NEW j \in 1 .. Len(list), i < j
              PROVE  \/ list[j] \in m2[list[i]]
                     \/ list[i] \in ToSet(s2) /\ Precedes(s2, list[i], list[j])
  BY DEF Chain
<1>1. list[i] \in Turns
  OBVIOUS
<1>2. CASE list[j] \in m[list[i]]
  BY <1>1, <1>2
<1>3. CASE list[i] \in ToSet(s) /\ Precedes(s, list[i], list[j])
  BY <1>3, MembersGrow, PrecedesGrows
<1>. QED BY <1>2, <1>3 DEF Chain

\* and that it is sound, if the turns answered since met others.
LEMMA MemoryGrows ==
    ASSUME NEW s \in Seq(Turns), NEW s2 \in Seq(Turns), Extends(s, s2), NEW m, NEW m2,
           \A t \in Turns : m[t] \subseteq m2[t], NEW list \in Seq(Turns),
           MemorySound(list, s, m), \A t \in ToSet(s2) : t \notin ToSet(s) => m2[t] # {}
    PROVE  MemorySound(list, s2, m2)
<1>1. Chain(list, s2, m2) /\ ToSet(list) \subseteq ToSet(s2)
  BY MembersGrow, ChainGrows DEF MemorySound
<1>2. ASSUME NEW t \in ToSet(s2) PROVE m2[t] # {} \/ Holds(t, list, MemoryCap, s2)
  <2>1. CASE t \notin ToSet(s)
    BY <2>1
  <2>2. CASE t \in ToSet(s) /\ Holds(t, list, MemoryCap, s)
    BY <2>2, HoldsGrows
  <2>3. CASE t \in ToSet(s) /\ m[t] # {}
    <3>1. t \in Turns
      BY <2>3 DEF ToSet
    <3>. QED BY <2>3, <3>1
  <2>. QED BY <2>1, <2>2, <2>3 DEF MemorySound
<1>. QED BY <1>1, <1>2 DEF MemorySound

\* What only ever grows, or stays: the answers, who met whom, what was deleted,
\* the thread of a turn, and that a turn was written.
Advances(tn, s, m, gone, tn2, s2, m2, gone2) ==
    /\ s \in Seq(Turns) /\ s2 \in Seq(Turns) /\ Extends(s, s2) /\ gone \subseteq gone2
    /\ m \in [Turns -> SUBSET Turns] /\ \A t \in Turns : m[t] \subseteq m2[t]
    /\ \A t \in Turns : tn[t].of \in Chats => tn2[t].of = tn[t].of
    /\ \A t \in Turns : tn[t].at = "remember" => tn2[t].at = "remember" \/ t \in ToSet(s2)
    /\ \A t \in ToSet(s) : tn[t].of \in Chats

\* A thread's list stays sound as well.
LEMMA ThreadGrows ==
    ASSUME NEW s, NEW s2, NEW m, NEW m2, NEW tn, NEW tn2, NEW gone, NEW gone2,
           Advances(tn, s, m, gone, tn2, s2, m2, gone2), NEW list \in Seq(Turns), NEW c \in Chats,
           ThreadSound(c, list, tn, s, m, gone),
           \A t \in ToSet(s2) : t \notin ToSet(s) /\ tn2[t].of = c =>
              c \in gone2 \/ Excused(t, tn2, m2) \/ t \in ToSet(list)
    PROVE  ThreadSound(c, list, tn2, s2, m2, gone2)
<1>. USE DEF Advances
<1>1. Chain(list, s2, m2)
  BY ChainGrows DEF ThreadSound
<1>2. ASSUME NEW a \in ToSet(list)
      PROVE  tn2[a].of = c /\ (tn2[a].at = "remember" \/ a \in ToSet(s2))
  <2>1. a \in Turns /\ tn[a].of = c /\ (tn[a].at = "remember" \/ a \in ToSet(s))
    BY DEF ToSet, ThreadSound
  <2>. QED BY <2>1, MembersGrow
<1>3. ASSUME NEW t \in ToSet(s2), tn2[t].of = c
      PROVE  c \in gone2 \/ Excused(t, tn2, m2) \/ Holds(t, list, HistoryCap, s2)
  <2>1. CASE t \notin ToSet(s)
    BY <1>3, <2>1 DEF Holds
  <2>2. CASE t \in ToSet(s)
    <3>1. t \in Turns /\ tn[t].of = c
      BY <1>3, <2>2 DEF ToSet
    <3>2. c \in gone \/ Excused(t, tn, m) \/ Holds(t, list, HistoryCap, s)
      BY <2>2, <3>1 DEF ThreadSound
    <3>3. ASSUME Excused(t, tn, m) PROVE Excused(t, tn2, m2)
      <4>1. PICK u \in m[t] : tn[u].of = tn[t].of
        BY <3>3 DEF Excused
      <4>2. u \in m2[t] /\ tn2[u].of = c
        BY <3>1, <4>1
      <4>. QED BY <1>3, <4>2 DEF Excused
    <3>. QED BY <2>2, <3>2, <3>3, HoldsGrows
  <2>. QED BY <2>1, <2>2
<1>. QED BY <1>1, <1>2, <1>3 DEF ThreadSound

\* What a list holds once a turn was appended and it was cut to its cap.
LEMMA CappedAppend ==
    ASSUME NEW cap \in Nat \ {0}, NEW list \in Short(cap), NEW u \in Turns, NEW w,
           w = Capped(Append(list, u), cap)
    PROVE  /\ w \in Short(cap) /\ u \in ToSet(w) /\ ToSet(w) \subseteq ToSet(list) \cup {u}
           /\ \/ /\ Len(w) = Len(list) + 1 /\ w[Len(w)] = u
                 /\ \A i \in 1 .. Len(list) : w[i] = list[i]
              \/ /\ Len(list) = cap /\ Len(w) = cap /\ w[cap] = u
                 /\ \A i \in 1 .. (cap - 1) : w[i] = list[i + 1]
<1>. DEFINE longer == Append(list, u)
<1>1. /\ list \in Seq(Turns) /\ Len(list) \in Nat /\ Len(list) <= cap
      /\ longer \in Seq(Turns) /\ Len(longer) = Len(list) + 1 /\ longer[Len(list) + 1] = u
      /\ \A i \in 1 .. Len(list) : longer[i] = list[i]
  BY DEF Short
<1>. HIDE DEF longer
<1>2. CASE Len(list) < cap
  <2>1. w = SubSeq(longer, 1, Len(longer))
    <3>1. Len(longer) <= cap /\ w = Capped(longer, cap)
      BY <1>1, <1>2 DEF longer
    <3>2. (IF Len(longer) < cap THEN 1 ELSE Len(longer) + 1 - cap) = 1
      BY <1>1, <1>2
    <3>. QED BY <3>1, <3>2 DEF Capped
  <2>2. w = longer
    BY <1>1, <2>1
  <2>3. /\ w \in Short(cap) /\ Len(w) = Len(list) + 1 /\ w[Len(w)] = u
        /\ \A i \in 1 .. Len(list) : w[i] = list[i]
    BY <1>1, <1>2, <2>2 DEF Short
  <2>4. u \in ToSet(w) /\ ToSet(w) \subseteq ToSet(list) \cup {u}
    BY <1>1, <2>3 DEF ToSet, Short
  <2>. QED BY <2>3, <2>4
<1>3. CASE Len(list) = cap
  <2>1. w = SubSeq(longer, 2, cap + 1)
    <3>1. Len(longer) = cap + 1 /\ w = Capped(longer, cap)
      BY <1>1, <1>3 DEF longer
    <3>2. (IF Len(longer) < cap THEN 1 ELSE Len(longer) + 1 - cap) = 2
      BY <3>1
    <3>. QED BY <3>1, <3>2 DEF Capped
  <2>2. /\ w \in Seq(Turns) /\ Len(w) = cap
        /\ \A i \in 1 .. cap : w[i] = longer[i + 1]
    BY <1>1, <1>3, <2>1
  <2>3. /\ w \in Short(cap) /\ w[cap] = u
        /\ \A i \in 1 .. (cap - 1) : w[i] = list[i + 1]
    <3>1. w \in Short(cap)
      BY <2>2 DEF Short
    <3>2. w[cap] = longer[cap + 1] /\ longer[cap + 1] = u
      BY <1>1, <1>3, <2>2
    <3>3. ASSUME NEW i \in 1 .. (cap - 1) PROVE w[i] = list[i + 1]
      <4>1. i \in 1 .. cap /\ i + 1 \in 1 .. Len(list)
        BY <1>3
      <4>2. w[i] = longer[i + 1] /\ longer[i + 1] = list[i + 1]
        BY <1>1, <2>2, <4>1
      <4>. QED BY <4>2
    <3>. QED BY <3>1, <3>2, <3>3
  <2>4. u \in ToSet(w) /\ ToSet(w) \subseteq ToSet(list) \cup {u}
    <3>1. cap \in DOMAIN w
      BY <2>2
    <3>2. ASSUME NEW i \in 1 .. cap PROVE w[i] \in ToSet(list) \cup {u}
      <4>1. CASE i = cap
        BY <2>3, <4>1
      <4>2. CASE i # cap
        <5>1. i \in 1 .. (cap - 1) /\ i + 1 \in DOMAIN list
          BY <1>1, <1>3, <4>2
        <5>. QED BY <2>3, <5>1 DEF ToSet
      <4>. QED BY <4>1, <4>2
    <3>. QED BY <2>2, <2>3, <3>1, <3>2 DEF ToSet
  <2>. QED BY <1>3, <2>2, <2>3, <2>4
<1>. QED BY <1>1, <1>2, <1>3

\* A turn that is appended keeps the order, if those in the list are answered
\* or met it;
LEMMA PushChain ==
    ASSUME NEW cap \in Nat \ {0}, NEW list \in Short(cap), NEW u \in Turns, NEW w,
           w = Capped(Append(list, u), cap), NEW s, NEW m, Chain(list, s, m), u \notin ToSet(s),
           \A a \in ToSet(list) : u \in m[a] \/ a \in ToSet(s)
    PROVE  Chain(w, s, m)
<1>1. list \in Seq(Turns) /\ Len(list) \in Nat /\ Len(list) <= cap
  BY DEF Short
<1>2. \A i \in 1 .. Len(list) : u \in m[list[i]] \/ (list[i] \in ToSet(s) /\ Precedes(s, list[i], u))
  BY <1>1 DEF ToSet, Precedes
<1>3. CASE /\ Len(w) = Len(list) + 1 /\ w[Len(w)] = u
           /\ \A i \in 1 .. Len(list) : w[i] = list[i]
  <2>. SUFFICES ASSUME NEW i \in 1 .. Len(w), NEW j \in 1 .. Len(w), i < j
                PROVE  w[j] \in m[w[i]] \/ (w[i] \in ToSet(s) /\ Precedes(s, w[i], w[j]))
    BY DEF Chain
  <2>1. i \in 1 .. Len(list) /\ w[i] = list[i]
    BY <1>1, <1>3
  <2>2. CASE j = Len(w)
    BY <1>2, <1>3, <2>1, <2>2
  <2>3. CASE j # Len(w)
    BY <1>1, <1>3, <2>1, <2>3 DEF Chain
  <2>. QED BY <2>2, <2>3
<1>4. CASE /\ Len(list) = cap /\ Len(w) = cap /\ w[cap] = u
           /\ \A i \in 1 .. (cap - 1) : w[i] = list[i + 1]
  <2>. SUFFICES ASSUME NEW i \in 1 .. Len(w), NEW j \in 1 .. Len(w), i < j
                PROVE  w[j] \in m[w[i]] \/ (w[i] \in ToSet(s) /\ Precedes(s, w[i], w[j]))
    BY DEF Chain
  <2>1. i + 1 \in 1 .. Len(list) /\ w[i] = list[i + 1]
    BY <1>1, <1>4
  <2>2. CASE j = cap
    BY <1>2, <1>4, <2>1, <2>2
  <2>3. CASE j # cap
    <3>1. j + 1 \in 1 .. Len(list) /\ w[j] = list[j + 1] /\ i + 1 < j + 1
      BY <1>1, <1>4, <2>3
    <3>. QED BY <2>1, <3>1 DEF Chain
  <2>. QED BY <2>2, <2>3
<1>. QED BY <1>3, <1>4, CappedAppend

\* and what the list held it holds, or lost to a turn that met it.
LEMMA PushHolds ==
    ASSUME NEW cap \in Nat \ {0}, NEW list \in Short(cap), NEW u \in Turns, NEW w,
           w = Capped(Append(list, u), cap), NEW s, NEW m, Chain(list, s, m), u \notin ToSet(s),
           NEW t, Holds(t, list, cap, s)
    PROVE  Holds(t, w, cap, s) \/ \E b \in ToSet(w) : b \in m[t]
<1>1. list \in Seq(Turns) /\ Len(list) \in Nat /\ Len(list) <= cap
  BY DEF Short
<1>0. w \in Seq(Turns) /\ Precedes(s, t, u)
  BY CappedAppend DEF Precedes, Short
<1>2. CASE t \notin ToSet(list)
  <2>1. Len(list) = cap /\ \A b \in ToSet(list) : Precedes(s, t, b)
    BY <1>2 DEF Holds
  <2>2. Len(w) = cap /\ ToSet(w) \subseteq ToSet(list) \cup {u}
    <3>1. w \in Short(cap) /\ Len(w) \in Nat /\ Len(w) <= cap
      BY CappedAppend DEF Short
    <3>2. ToSet(w) \subseteq ToSet(list) \cup {u} /\ (Len(w) = Len(list) + 1 \/ Len(w) = cap)
      BY CappedAppend
    <3>. QED BY <2>1, <3>1, <3>2
  <2>. QED BY <1>0, <2>1, <2>2 DEF Holds
<1>3. CASE t \in ToSet(list) /\ Len(w) = Len(list) + 1
             /\ \A i \in 1 .. Len(list) : w[i] = list[i]
  <2>1. PICK i \in 1 .. Len(list) : list[i] = t
    BY <1>1, <1>3 DEF ToSet
  <2>2. i \in DOMAIN w /\ w[i] = t
    BY <1>0, <1>1, <1>3, <2>1
  <2>. QED BY <2>2 DEF ToSet, Holds
<1>4. CASE t \in ToSet(list) /\ Len(list) = cap /\ Len(w) = cap /\ w[cap] = u
             /\ \A i \in 1 .. (cap - 1) : w[i] = list[i + 1]
  <2>1. PICK i \in 1 .. Len(list) : list[i] = t
    BY <1>1, <1>4 DEF ToSet
  <2>2. CASE i # 1
    <3>1. i - 1 \in 1 .. (cap - 1) /\ i - 1 \in DOMAIN w /\ w[i - 1] = t
      BY <1>0, <1>1, <1>4, <2>1, <2>2
    <3>. QED BY <3>1 DEF ToSet, Holds
  <2>3. CASE i = 1
    <3>1. ASSUME NEW k \in 1 .. cap PROVE w[k] \in m[t] \/ Precedes(s, t, w[k])
      <4>1. CASE k = cap
        BY <1>0, <1>4, <4>1
      <4>2. CASE k # cap
        <5>1. k + 1 \in 1 .. Len(list) /\ 1 \in 1 .. Len(list) /\ 1 < k + 1 /\ w[k] = list[k + 1]
          BY <1>1, <1>4, <4>2
        <5>. QED BY <2>1, <2>3, <5>1 DEF Chain
      <4>. QED BY <4>1, <4>2
    <3>2. ToSet(w) = {w[k] : k \in 1 .. cap}
      <4>1. DOMAIN w = 1 .. cap
        BY <1>0, <1>4
      <4>. QED BY <4>1 DEF ToSet
    <3>. QED BY <1>4, <3>1, <3>2 DEF Holds
  <2>. QED BY <2>2, <2>3
<1>. QED BY <1>2, <1>3, <1>4, CappedAppend

\* A turn's reading stays sound while turns it knows of are answered.
LEMMA TurnGrows ==
    ASSUME NEW s, NEW s2, NEW m, NEW m2, NEW tn, NEW tn2, NEW gone, NEW gone2,
           Advances(tn, s, m, gone, tn2, s2, m2, gone2), NEW r \in TurnRecords, NEW u \in Turns,
           TurnSound(u, r, tn, s, m, gone),
           Loaded(r) => \A t \in ToSet(s2) : t \notin ToSet(s) =>
              m2[t] # {} /\ (tn2[t].of = r.of => Excused(t, tn2, m2))
    PROVE  TurnSound(u, r, tn2, s2, m2, gone2)
<1>1. r.memory \in Seq(Turns) /\ r.messages \in Seq(Turns)
  BY DEF TurnRecords, Short
<1>2. Loaded(r) => MemorySound(r.memory, s2, m2)
  BY <1>1, MemoryGrows DEF TurnSound, Advances
<1>3. ASSUME r.at \in {"think", "write"}, r.of \in Chats
      PROVE  /\ ThreadSound(r.of, r.messages, tn2, s2, m2, gone2)
             /\ \A a \in ToSet(r.messages) : u \in m2[a] \/ a \in ToSet(s2)
  <2>1. /\ ThreadSound(r.of, r.messages, tn, s, m, gone)
        /\ \A a \in ToSet(r.messages) : u \in m[a] \/ a \in ToSet(s)
    BY <1>3 DEF TurnSound
  <2>2. \A t \in ToSet(s2) : t \notin ToSet(s) /\ tn2[t].of = r.of => Excused(t, tn2, m2)
    BY <1>3 DEF Loaded
  <2>3. ThreadSound(r.of, r.messages, tn2, s2, m2, gone2)
    BY <1>1, <1>3, <2>1, <2>2, ThreadGrows
  <2>4. \A a \in ToSet(r.messages) : a \in Turns
    BY <1>1 DEF ToSet
  <2>. QED BY <2>1, <2>3, <2>4, MembersGrow DEF Advances
<1>. QED BY <1>2, <1>3 DEF TurnSound

\* Initially there is no thread and no turn.
LEMMA ChatStarts == ChatInit => ChatInv
<1>. SUFFICES ASSUME ChatInit PROVE ChatInv
  OBVIOUS
<1>1. /\ <<>> \in Short(HistoryCap) /\ <<>> \in Short(MemoryCap) /\ <<>> \in Seq(Turns)
      /\ Len(<<>>) = 0 /\ ToSet(<<>>) = {}
  BY ChatAssumption DEF Short, ToSet
<1>2. Fresh \in TurnRecords /\ Fresh.at = "idle" /\ Fresh.of = "new" /\ Fresh.messages = <<>>
  BY <1>1 DEF Fresh, TurnRecords
<1>3. NoChat \in ChatRecords /\ NoChat.owner = "absent" /\ NoChat.messages = <<>>
  BY <1>1 DEF NoChat, ChatRecords
<1>. HIDE DEF Fresh, NoChat
<1>4. TypedLists
  BY <1>1, <1>2, <1>3 DEF ChatInit, TypedLists
<1>5. MeetingKnown
  BY <1>2 DEF ChatInit, MeetingKnown, UnderWay
<1>6. ThreadsOwned
  BY <1>2, <1>3, ChatAssumption DEF ChatInit, ThreadsOwned
<1>7. \A s, m : Chain(<<>>, s, m)
  BY <1>1 DEF Chain
<1>8. MemorySound(memory, told, met)
  BY <1>1, <1>7 DEF ChatInit, MemorySound
<1>9. \A c \in Chats : ThreadSound(c, chat[c].messages, turn, told, met, dropped)
  BY <1>1, <1>3, <1>7 DEF ChatInit, ThreadSound
<1>10. \A t \in Turns : TurnSound(t, turn[t], turn, told, met, dropped) /\ turn[t].at # "remember"
  BY <1>2 DEF ChatInit, TurnSound, Loaded
<1>. QED BY <1>1, <1>4, <1>5, <1>6, <1>8, <1>9, <1>10 DEF ChatInv, ChatInit

\* A turn goes on without writing.
LEMMA TurnReads ==
    ASSUME ChatInv, NEW u \in Turns, NEW r \in TurnRecords, turn' = [turn EXCEPT ![u] = r],
           turn[u].at \notin {"idle", "over", "remember"}, r.of = turn[u].of,
           r.at \notin {"idle", "remember"}, UNCHANGED <<chat, memory, told, dropped, met>>,
           TurnSound(u, r, turn, told, met, dropped)
    PROVE  ChatInv'
<1>0. /\ turn \in [Turns -> TurnRecords] /\ told \in Seq(Turns) /\ met \in [Turns -> SUBSET Turns]
      /\ Extends(told, told) /\ \A t \in ToSet(told) : t \in Turns
      /\ memory \in Seq(Turns) /\ \A c \in Chats : chat[c].messages \in Seq(Turns)
  BY DEF ChatInv, TypedLists, Extends, ToSet, Short, ChatRecords
<1>1. /\ turn' \in [Turns -> TurnRecords] /\ turn'[u] = r
      /\ \A t \in Turns : t # u => turn'[t] = turn[t]
      /\ \A t \in Turns : turn'[t].of = turn[t].of
      /\ \A t \in Turns : turn[t].at = "remember" <=> turn'[t].at = "remember"
  BY <1>0
<1>21. Advances(turn, told, met, dropped, turn', told, met, dropped)
  BY <1>0, <1>1 DEF Advances, ChatInv
<1>2. TypedLists' /\ ThreadsOwned'
  BY <1>1 DEF ChatInv, TypedLists, ThreadsOwned
<1>3. MeetingKnown'
  <2>1. UnderWay' \subseteq UnderWay
    BY <1>1 DEF UnderWay
  <2>. QED BY <1>1, <2>1 DEF ChatInv, MeetingKnown
<1>4. \A t \in ToSet(told) : turn'[t].at = "over" /\ turn'[t].of \in Chats
  BY <1>0, <1>1 DEF ChatInv
<1>5. ASSUME NEW c \in Chats PROVE ThreadSound(c, chat[c].messages, turn', told, met, dropped)
  <2>. DEFINE list == chat[c].messages
  <2>1. /\ list \in Seq(Turns) /\ ThreadSound(c, list, turn, told, met, dropped)
        /\ \A t \in ToSet(told) : turn[t].of \in Chats
    BY <1>0 DEF ChatInv
  <2>. HIDE DEF list
  <2>2. ThreadSound(c, list, turn', told, met, dropped)
    BY <1>21, <2>1, ThreadGrows
  <2>. QED BY <2>2 DEF list
<1>6. ASSUME NEW t \in Turns PROVE TurnSound(t, turn'[t], turn', told, met, dropped)
  <2>1. TurnSound(t, turn'[t], turn, told, met, dropped) /\ turn'[t] \in TurnRecords
    BY <1>1 DEF ChatInv
  <2>. QED BY <1>21, <2>1, TurnGrows
<1>7. ASSUME NEW t \in Turns, turn'[t].at = "remember"
      PROVE  \/ t \in ToSet(chat[turn'[t].of].messages) \/ turn'[t].of \in dropped
             \/ Excused(t, turn', met)
  <2>1. \/ t \in ToSet(chat[turn[t].of].messages) \/ turn[t].of \in dropped
        \/ Excused(t, turn, met)
    BY <1>1, <1>7 DEF ChatInv
  <2>. QED BY <1>0, <1>1, <2>1 DEF Excused
<1>. QED BY <1>2, <1>3, <1>4, <1>5, <1>6, <1>7 DEF ChatInv

\* Every step of every turn keeps the invariant.
LEMMA ChatStep == ChatInv /\ [ChatNext]_chatVars => ChatInv'
<1>. SUFFICES ASSUME ChatInv, [ChatNext]_chatVars PROVE ChatInv'
  OBVIOUS
<1>0. /\ TypedLists /\ MeetingKnown /\ ThreadsOwned /\ MemorySound(memory, told, met)
      /\ turn \in [Turns -> TurnRecords] /\ told \in Seq(Turns) /\ met \in [Turns -> SUBSET Turns]
      /\ chat \in [Chats -> ChatRecords] /\ dropped \subseteq Chats
      /\ memory \in Short(MemoryCap) /\ memory \in Seq(Turns)
      /\ \A t \in ToSet(told) : t \in Turns /\ turn[t].at = "over" /\ turn[t].of \in Chats
      /\ \A c \in Chats : /\ chat[c].messages \in Short(HistoryCap) /\ chat[c].messages \in Seq(Turns)
                           /\ ThreadSound(c, chat[c].messages, turn, told, met, dropped)
      /\ \A t \in Turns : TurnSound(t, turn[t], turn, told, met, dropped)
      /\ "new" \notin Chats
  BY ChatAssumption DEF ChatInv, TypedLists, ToSet, Short, ChatRecords
<1>21. \A t \in Turns : /\ turn[t] \in TurnRecords /\ turn[t].of \in Chats \cup {"new"}
                       /\ turn[t].messages \in Short(HistoryCap) /\ turn[t].memory \in Short(MemoryCap)
  BY <1>0 DEF TurnRecords
<1>b. \A t \in Turns : turn[t].at = "remember" =>
        \/ t \in ToSet(chat[turn[t].of].messages) \/ turn[t].of \in dropped
        \/ Excused(t, turn, met)
  BY DEF ChatInv
<1>1. ASSUME NEW u \in Turns, Asks(u) PROVE ChatInv'
  <2>1. PICK c \in {d \in Chats : chat[d].owner = "user"} \cup {"new"} :
          turn' = [turn EXCEPT ![u].at = "memory", ![u].of = c]
    BY <1>1 DEF Asks
  <2>2. /\ turn[u].at = "idle" /\ turn[u] = Fresh /\ met[u] = {}
        /\ met' = [x \in Turns |-> IF x = u THEN UnderWay
                                   ELSE IF x \in UnderWay THEN met[x] \cup {u} ELSE met[x]]
        /\ UNCHANGED <<chat, memory, told, dropped>>
    BY <1>0, <1>1 DEF Asks, MeetingKnown
  <2>. DEFINE r == [turn[u] EXCEPT !.at = "memory", !.of = c]
  <2>3. /\ r \in TurnRecords /\ r.at = "memory" /\ r.of = c /\ r.messages = <<>>
        /\ turn[u].of = "new"
    <3>1. turn[u].of = "new" /\ turn[u].messages = <<>>
      BY <2>2 DEF Fresh
    <3>2. /\ r \in TurnRecords /\ r.at = "memory" /\ r.of = c
          /\ r.messages = turn[u].messages
      BY <1>21 DEF TurnRecords
    <3>. QED BY <3>1, <3>2
  <2>4. turn' = [turn EXCEPT ![u] = r]
    BY <1>0, <2>1
  <2>. HIDE DEF r
  <2>5. /\ turn' \in [Turns -> TurnRecords] /\ turn'[u] = r
        /\ \A t \in Turns : t # u => turn'[t] = turn[t]
        /\ \A t \in Turns : turn[t].of \in Chats => turn'[t].of = turn[t].of
        /\ \A t \in Turns : turn[t].at = "remember" <=> turn'[t].at = "remember"
    BY <1>0, <2>2, <2>3, <2>4
  <2>6. u \notin UnderWay /\ UnderWay \subseteq Turns /\ UnderWay' = UnderWay \cup {u}
    BY <2>2, <2>3, <2>5 DEF UnderWay
  <2>7. /\ met' \in [Turns -> SUBSET Turns] /\ \A t \in Turns : met[t] \subseteq met'[t]
        /\ met'[u] = UnderWay
        /\ \A t \in Turns : t # u => met'[t] = IF t \in UnderWay THEN met[t] \cup {u} ELSE met[t]
    BY <1>0, <2>2, <2>6
  <2>8. Advances(turn, told, met, dropped, turn', told, met', dropped)
    BY <1>0, <2>5, <2>7 DEF Advances, Extends
  <2>9. TypedLists'
    BY <1>0, <2>2, <2>5, <2>7 DEF TypedLists
  <2>10. ThreadsOwned'
    BY <1>0, <2>2, <2>3, <2>5 DEF ThreadsOwned
  <2>11. MeetingKnown'
    <3>1. \A t, x \in Turns : t \in met'[x] <=> x \in met'[t]
      BY <1>0, <2>2, <2>6, <2>7 DEF MeetingKnown
    <3>2. \A t, x \in UnderWay' : t # x => t \in met'[x]
      BY <1>0, <2>6, <2>7 DEF MeetingKnown
    <3>3. ASSUME NEW t \in Turns, turn'[t].at = "idle" PROVE met'[t] = {} /\ turn'[t] = Fresh
      <4>1. t # u /\ turn[t].at = "idle"
        BY <2>3, <2>5, <3>3
      <4>2. t \notin UnderWay
        BY <4>1 DEF UnderWay
      <4>. QED BY <1>0, <2>5, <2>7, <4>1, <4>2 DEF MeetingKnown
    <3>. QED BY <3>1, <3>2, <3>3 DEF MeetingKnown
  <2>12. \A t \in ToSet(told) : turn'[t].at = "over" /\ turn'[t].of \in Chats
    BY <1>0, <2>2, <2>5
  <2>13. MemorySound(memory, told, met')
    <3>1. Extends(told, told) /\ \A t \in ToSet(told) : t \notin ToSet(told) => met'[t] # {}
      BY <1>0 DEF Extends
    <3>. QED BY <1>0, <2>7, <3>1, MemoryGrows
  <2>14. ASSUME NEW d \in Chats
         PROVE  ThreadSound(d, chat[d].messages, turn', told, met', dropped)
    BY <1>0, <2>8, ThreadGrows
  <2>15. ASSUME NEW t \in Turns PROVE TurnSound(t, turn'[t], turn', told, met', dropped)
    <3>1. CASE t = u
      BY <2>3, <2>5, <3>1 DEF TurnSound, Loaded
    <3>2. CASE t # u
      BY <1>0, <1>21, <2>5, <2>8, <3>2, TurnGrows
    <3>. QED BY <3>1, <3>2
  <2>16. ASSUME NEW t \in Turns, turn'[t].at = "remember"
         PROVE  \/ t \in ToSet(chat[turn'[t].of].messages) \/ turn'[t].of \in dropped
                \/ Excused(t, turn', met')
    <3>1. t # u /\ turn[t].at = "remember" /\ turn'[t] = turn[t] /\ turn[t].of \in Chats
      BY <1>0, <2>3, <2>5, <2>16 DEF TurnSound
    <3>2. ASSUME Excused(t, turn, met) PROVE Excused(t, turn', met')
      BY <1>0, <2>5, <2>7, <3>1, <3>2 DEF Excused
    <3>. QED BY <1>b, <3>1, <3>2
  <2>. QED BY <2>2, <2>9, <2>10, <2>11, <2>12, <2>13, <2>14, <2>15, <2>16 DEF ChatInv
<1>2. ASSUME NEW u \in Turns, LoadsMemory(u) PROVE ChatInv'
  <2>. DEFINE step == IF turn[u].of = "new" THEN "think" ELSE "thread"
              r == [turn[u] EXCEPT !.memory = memory, !.at = step]
  <2>1. /\ turn[u].at = "memory" /\ UNCHANGED <<chat, memory, told, dropped, met>>
        /\ turn' = [turn EXCEPT ![u] = r]
    BY <1>0, <1>2 DEF LoadsMemory
  <2>2. /\ r \in TurnRecords /\ r.at = step /\ r.of = turn[u].of
        /\ r.messages = turn[u].messages /\ r.memory = memory
    BY <1>0, <1>21 DEF TurnRecords
  <2>. HIDE DEF r
  <2>3. TurnSound(u, r, turn, told, met, dropped)
    BY <1>0, <1>21, <2>2 DEF TurnSound
  <2>. QED BY <2>1, <2>2, <2>3, TurnReads
<1>3. ASSUME NEW u \in Turns, LoadsThread(u) PROVE ChatInv'
  <2>. DEFINE c == turn[u].of
  <2>1. turn[u].at = "thread" /\ c \in Chats /\ UNCHANGED <<chat, memory, told, dropped, met>>
    BY <1>0, <1>3 DEF LoadsThread, TurnSound
  <2>2. CASE chat[c].owner = "user"
    <3>. DEFINE r == [turn[u] EXCEPT !.at = "think", !.messages = chat[c].messages]
    <3>1. turn' = [turn EXCEPT ![u] = r]
      BY <1>0, <1>3, <2>2 DEF LoadsThread
    <3>2. /\ r \in TurnRecords /\ r.at = "think" /\ r.of = c
          /\ r.messages = chat[c].messages /\ r.memory = turn[u].memory
      BY <1>0, <1>21, <2>1 DEF TurnRecords
    <3>. HIDE DEF r
    <3>3. ASSUME NEW a \in ToSet(chat[c].messages) PROVE u \in met[a] \/ a \in ToSet(told)
      <4>1. ThreadSound(c, chat[c].messages, turn, told, met, dropped)
        BY <1>0, <2>1
      <4>2. a \in Turns
        BY <1>0, <2>1 DEF ToSet
      <4>3. CASE turn[a].at = "remember"
        BY <1>0, <2>1, <4>2, <4>3 DEF MeetingKnown, UnderWay
      <4>. QED BY <4>1, <4>3 DEF ThreadSound
    <3>4. TurnSound(u, r, turn, told, met, dropped)
      <4>1. MemorySound(r.memory, told, met)
        BY <1>0, <2>1, <3>2 DEF TurnSound, Loaded
      <4>2. ThreadSound(c, chat[c].messages, turn, told, met, dropped)
        BY <1>0, <2>1
      <4>3. r.of # "new"
        BY <1>0, <2>1, <3>2
      <4>. QED BY <3>2, <3>3, <4>1, <4>2, <4>3 DEF TurnSound
    <3>. QED BY <2>1, <3>1, <3>2, <3>4, TurnReads
  <2>3. CASE chat[c].owner # "user"
    <3>. DEFINE r == [turn[u] EXCEPT !.at = "over"]
    <3>1. turn' = [turn EXCEPT ![u] = r]
      BY <1>0, <1>3, <2>3 DEF LoadsThread
    <3>2. /\ r \in TurnRecords /\ r.at = "over" /\ r.of = c /\ r.messages = turn[u].messages
      BY <1>21 DEF TurnRecords
    <3>. HIDE DEF r
    <3>3. TurnSound(u, r, turn, told, met, dropped)
      BY <1>0, <2>1, <3>2 DEF TurnSound, Loaded
    <3>. QED BY <2>1, <3>1, <3>2, <3>3, TurnReads
  <2>. QED BY <2>2, <2>3
<1>4. ASSUME NEW u \in Turns, Thinks(u) PROVE ChatInv'
  <2>1. PICK step \in {"write", "over"} :
          /\ turn[u].at = "think" /\ turn' = [turn EXCEPT ![u].at = step]
          /\ UNCHANGED <<chat, memory, told, dropped, met>>
    BY <1>4 DEF Thinks, TurnGoes
  <2>. DEFINE r == [turn[u] EXCEPT !.at = step]
  <2>2. turn' = [turn EXCEPT ![u] = r]
    BY <1>0, <2>1
  <2>3. /\ r \in TurnRecords /\ r.at = step /\ r.of = turn[u].of
        /\ r.messages = turn[u].messages /\ r.memory = turn[u].memory
    BY <1>21 DEF TurnRecords
  <2>. HIDE DEF r
  <2>4. TurnSound(u, r, turn, told, met, dropped)
    BY <1>0, <2>1, <2>3 DEF TurnSound, Loaded
  <2>. QED BY <2>1, <2>2, <2>3, <2>4, TurnReads
<1>5. ASSUME NEW u \in Turns, WritesThread(u) PROVE ChatInv'
  <2>. DEFINE of == turn[u].of
              list == turn[u].messages
              w == Capped(Append(list, u), HistoryCap)
  <2>1. PICK c \in Chats :
          /\ turn[u].at = "write"
          /\ IF of = "new" THEN chat[c].owner = "absent" /\ c \notin dropped ELSE c = of
          /\ chat' = [chat EXCEPT ![c] =
                [owner |-> IF of = "new" THEN "user"
                           ELSE IF chat[c].owner = "absent" THEN "nobody" ELSE chat[c].owner,
                 messages |-> w]]
          /\ turn' = [turn EXCEPT ![u].at = "remember", ![u].of = c]
          /\ UNCHANGED <<memory, told, dropped, met>>
    BY <1>0, <1>5 DEF WritesThread
  <2>. DEFINE r == [turn[u] EXCEPT !.at = "remember", !.of = c]
              owner == IF of = "new" THEN "user"
                       ELSE IF chat[c].owner = "absent" THEN "nobody" ELSE chat[c].owner
              record == [owner |-> owner, messages |-> w]
  <2>2. /\ list \in Short(HistoryCap) /\ HistoryCap \in Nat \ {0}
        /\ w \in Short(HistoryCap) /\ u \in ToSet(w) /\ ToSet(w) \subseteq ToSet(list) \cup {u}
    BY <1>21, ChatAssumption, CappedAppend
  <2>3. u \notin ToSet(told) /\ u \in UnderWay
    BY <1>0, <2>1 DEF UnderWay
  <2>4. /\ Chain(w, told, met)
        /\ \A a \in ToSet(list) : turn[a].of = c /\ (turn[a].at = "remember" \/ a \in ToSet(told))
        /\ \A t \in ToSet(told) : turn[t].of = c =>
             \/ c \in dropped \/ Excused(t, turn, met) \/ Holds(t, w, HistoryCap, told)
             \/ \E b \in ToSet(w) : b \in met[t]
    <3>1. CASE of = "new"
      <4>1. list = <<>> /\ ToSet(list) = {}
        BY <1>0, <3>1 DEF TurnSound, ToSet
      <4>2. Chain(list, told, met)
        BY <4>1 DEF Chain
      <4>3. Chain(w, told, met)
        BY <2>2, <2>3, <4>1, <4>2, PushChain
      <4>4. \A t \in ToSet(told) : turn[t].of # c
        BY <1>0, <2>1, <3>1 DEF ThreadsOwned
      <4>. QED BY <4>1, <4>3, <4>4
    <3>2. CASE of # "new"
      <4>1. c = of /\ ThreadSound(c, list, turn, told, met, dropped)
            /\ \A a \in ToSet(list) : u \in met[a] \/ a \in ToSet(told)
        BY <1>0, <2>1, <3>2 DEF TurnSound
      <4>2. Chain(list, told, met)
        BY <4>1 DEF ThreadSound
      <4>3. Chain(w, told, met)
        BY <2>2, <2>3, <4>1, <4>2, PushChain
      <4>4. ASSUME NEW t \in ToSet(told), turn[t].of = c
            PROVE  \/ c \in dropped \/ Excused(t, turn, met) \/ Holds(t, w, HistoryCap, told)
                   \/ \E b \in ToSet(w) : b \in met[t]
        <5>1. c \in dropped \/ Excused(t, turn, met) \/ Holds(t, list, HistoryCap, told)
          BY <4>1, <4>4 DEF ThreadSound
        <5>2. CASE Holds(t, list, HistoryCap, told)
          BY <2>2, <2>3, <4>2, <5>2, PushHolds
        <5>. QED BY <5>1, <5>2
      <4>. QED BY <4>1, <4>3, <4>4 DEF ThreadSound
    <3>. QED BY <3>1, <3>2
  <2>5. chat' = [chat EXCEPT ![c] = record] /\ turn' = [turn EXCEPT ![u] = r]
    BY <1>0, <2>1
  <2>6. r \in TurnRecords /\ r.at = "remember" /\ r.of = c /\ r.memory = turn[u].memory
    BY <1>21 DEF TurnRecords
  <2>7. /\ record \in ChatRecords /\ record.messages = w /\ record.owner = owner /\ owner # "absent"
        /\ owner = "nobody" => c \in dropped
    <3>1. chat[c] \in ChatRecords /\ chat[c].owner \in {"absent", "user", "nobody"}
      BY <1>0 DEF ChatRecords
    <3>2. of # "new" /\ chat[c].owner = "absent" => c \in dropped
      BY <1>0, <2>1 DEF ThreadsOwned
    <3>. QED BY <1>0, <2>1, <2>2, <3>1, <3>2 DEF ChatRecords, ThreadsOwned
  <2>. HIDE DEF r, record, w, owner
  <2>8. /\ turn' \in [Turns -> TurnRecords] /\ turn'[u] = r
        /\ \A t \in Turns : t # u => turn'[t] = turn[t]
        /\ \A t \in Turns : turn[t].of \in Chats => turn'[t].of = turn[t].of
        /\ \A t \in Turns : turn[t].at = "remember" => turn'[t].at = "remember"
    <3>1. turn[u].of \in Chats => c = turn[u].of
      BY <1>0, <2>1
    <3>2. turn[u].at # "remember"
      BY <2>1
    <3>. QED BY <1>0, <2>5, <2>6, <3>1, <3>2
  <2>9. /\ chat' \in [Chats -> ChatRecords] /\ chat'[c] = record
        /\ \A d \in Chats : d # c => chat'[d] = chat[d]
    BY <1>0, <2>5, <2>7
  <2>10. Advances(turn, told, met, dropped, turn', told, met, dropped)
    BY <1>0, <2>8 DEF Advances, Extends
  <2>11. TypedLists'
    BY <1>0, <2>1, <2>8, <2>9 DEF TypedLists
  <2>12. ThreadsOwned'
    <3>1. \A t \in Turns : turn'[t].of \in Chats =>
            chat'[turn'[t].of].owner # "absent" \/ turn'[t].of \in dropped
      <4>. SUFFICES ASSUME NEW t \in Turns, turn'[t].of \in Chats
                    PROVE  chat'[turn'[t].of].owner # "absent" \/ turn'[t].of \in dropped
        OBVIOUS
      <4>1. CASE turn'[t].of = c
        BY <2>7, <2>9, <4>1
      <4>2. CASE turn'[t].of # c
        <5>1. t # u /\ turn'[t] = turn[t]
          BY <2>6, <2>8, <4>2
        <5>. QED BY <1>0, <2>9, <4>2, <5>1 DEF ThreadsOwned
      <4>. QED BY <4>1, <4>2
    <3>2. \A d \in Chats : chat'[d].owner = "nobody" => d \in dropped
      BY <1>0, <2>7, <2>9 DEF ThreadsOwned
    <3>. QED BY <2>1, <3>1, <3>2 DEF ThreadsOwned
  <2>13. MeetingKnown'
    <3>1. UnderWay' = UnderWay /\ \A t \in Turns : turn'[t].at = "idle" => turn'[t] = turn[t]
      BY <2>1, <2>6, <2>8 DEF UnderWay
    <3>. QED BY <1>0, <2>1, <3>1 DEF MeetingKnown
  <2>14. \A t \in ToSet(told) : turn'[t].at = "over" /\ turn'[t].of \in Chats
    BY <1>0, <2>3, <2>8
  <2>15. ASSUME NEW t \in Turns, u \in met[t], turn'[t].of = c PROVE Excused(t, turn', met)
    BY <2>6, <2>8, <2>15 DEF Excused
  <2>16. ASSUME NEW d \in Chats
         PROVE  ThreadSound(d, chat'[d].messages, turn', told, met, dropped)
    <3>1. CASE d # c
      BY <1>0, <2>9, <2>10, <3>1, ThreadGrows
    <3>2. CASE d = c
      <4>1. chat'[d].messages = w
        BY <2>7, <2>9, <3>2
      <4>2. ASSUME NEW a \in ToSet(w)
            PROVE  turn'[a].of = c /\ (turn'[a].at = "remember" \/ a \in ToSet(told))
        <5>1. CASE a = u
          BY <2>6, <2>8, <5>1
        <5>2. CASE a # u
          <6>1. a \in ToSet(list) /\ a \in Turns
            <7>1. a \in ToSet(list) /\ list \in Seq(Turns)
              BY <2>2, <5>2 DEF Short
            <7>2. \A i \in DOMAIN list : list[i] \in Turns
              BY <7>1
            <7>. QED BY <7>1, <7>2 DEF ToSet
          <6>. QED BY <2>4, <2>8, <5>2, <6>1
        <5>. QED BY <5>1, <5>2
      <4>3. ASSUME NEW t \in ToSet(told), turn'[t].of = c
            PROVE  c \in dropped \/ Excused(t, turn', met) \/ Holds(t, w, HistoryCap, told)
        <5>1. t \in Turns /\ turn[t].of = c /\ met[t] \subseteq Turns
          BY <1>0, <2>3, <2>8, <4>3
        <5>2. ASSUME Excused(t, turn, met) PROVE Excused(t, turn', met)
          BY <2>8, <4>3, <5>1, <5>2 DEF Excused
        <5>3. ASSUME NEW b \in ToSet(w), b \in met[t] PROVE Excused(t, turn', met)
          BY <4>2, <4>3, <5>3 DEF Excused
        <5>. QED BY <2>4, <5>1, <5>2, <5>3
      <4>. QED BY <2>4, <3>2, <4>1, <4>2, <4>3 DEF ThreadSound
    <3>. QED BY <3>1, <3>2
  <2>17. ASSUME NEW t \in Turns PROVE TurnSound(t, turn'[t], turn', told, met, dropped)
    <3>1. CASE t = u
      <4>1. MemorySound(r.memory, told, met)
        BY <1>0, <2>1, <2>6 DEF TurnSound, Loaded
      <4>. QED BY <1>0, <2>6, <2>8, <3>1, <4>1 DEF TurnSound
    <3>2. CASE t # u
      BY <1>0, <1>21, <2>8, <2>10, <3>2, TurnGrows
    <3>. QED BY <3>1, <3>2
  <2>18. ASSUME NEW t \in Turns, turn'[t].at = "remember"
         PROVE  \/ t \in ToSet(chat'[turn'[t].of].messages) \/ turn'[t].of \in dropped
                \/ Excused(t, turn', met)
    <3>1. CASE t = u
      BY <2>2, <2>6, <2>7, <2>8, <2>9, <3>1
    <3>2. CASE t # u
      <4>1. /\ turn[t].at = "remember" /\ turn'[t] = turn[t] /\ turn[t].of \in Chats
            /\ met[t] \subseteq Turns /\ u \in met[t]
        BY <1>0, <2>3, <2>8, <2>18, <3>2 DEF TurnSound, MeetingKnown, UnderWay
      <4>2. ASSUME Excused(t, turn, met) PROVE Excused(t, turn', met)
        BY <2>8, <4>1, <4>2 DEF Excused
      <4>3. CASE turn[t].of = c
        BY <2>15, <4>1, <4>3
      <4>4. CASE turn[t].of # c
        BY <1>b, <2>9, <4>1, <4>2, <4>4
      <4>. QED BY <4>3, <4>4
    <3>. QED BY <3>1, <3>2
  <2>. QED BY <1>0, <2>1, <2>11, <2>12, <2>13, <2>14, <2>16, <2>17, <2>18 DEF ChatInv
<1>6. ASSUME NEW u \in Turns, Remembers(u) PROVE ChatInv'
  <2>. DEFINE list == turn[u].memory
              w == Capped(Append(list, u), MemoryCap)
              r == [turn[u] EXCEPT !.at = "over"]
  <2>1. /\ turn[u].at = "remember" /\ turn' = [turn EXCEPT ![u] = r] /\ memory' = w
        /\ told' = Append(told, u) /\ UNCHANGED <<chat, dropped, met>>
    BY <1>0, <1>6 DEF Remembers, TurnGoes
  <2>2. /\ list \in Short(MemoryCap) /\ MemoryCap \in Nat \ {0} /\ w \in Short(MemoryCap)
        /\ u \in ToSet(w) /\ ToSet(w) \subseteq ToSet(list) \cup {u}
    BY <1>21, ChatAssumption, CappedAppend
  <2>3. r \in TurnRecords /\ r.at = "over" /\ r.of = turn[u].of /\ r.messages = turn[u].messages
    BY <1>21 DEF TurnRecords
  <2>4. u \notin ToSet(told) /\ u \in UnderWay /\ turn[u].of \in Chats
        /\ MemorySound(list, told, met)
    BY <1>0, <2>1 DEF UnderWay, TurnSound, Loaded
  <2>5. /\ told' \in Seq(Turns) /\ Extends(told, told') /\ ToSet(told') = ToSet(told) \cup {u}
    <3>1. /\ told' \in Seq(Turns) /\ Len(told') = Len(told) + 1 /\ told'[Len(told) + 1] = u
          /\ \A i \in 1 .. Len(told) : told'[i] = told[i] /\ Len(told) \in Nat
      BY <1>0, <2>1
    <3>2. Extends(told, told')
      BY <1>0, <3>1 DEF Extends
    <3>3. ToSet(told) = {told[i] : i \in 1 .. Len(told)}
      BY <1>0 DEF ToSet
    <3>4. ToSet(told') = {told'[i] : i \in 1 .. (Len(told) + 1)}
      BY <3>1 DEF ToSet
    <3>5. Len(told) \in Nat
      BY <1>0
    <3>. QED BY <3>1, <3>2, <3>3, <3>4, <3>5
  <2>. HIDE DEF r, w
  <2>6. /\ turn' \in [Turns -> TurnRecords] /\ turn'[u] = r
        /\ \A t \in Turns : t # u => turn'[t] = turn[t]
        /\ \A t \in Turns : turn'[t].of = turn[t].of
        /\ \A t \in Turns : turn[t].at = "remember" => turn'[t].at = "remember" \/ t \in ToSet(told')
    BY <1>0, <2>1, <2>3, <2>5
  <2>7. Advances(turn, told, met, dropped, turn', told', met, dropped)
    BY <1>0, <2>5, <2>6 DEF Advances
  <2>8. TypedLists'
    BY <1>0, <2>1, <2>2, <2>5, <2>6 DEF TypedLists
  <2>9. ThreadsOwned'
    BY <1>0, <2>1, <2>6 DEF ThreadsOwned
  <2>10. MeetingKnown'
    <3>1. UnderWay' \subseteq UnderWay /\ \A t \in Turns : turn'[t].at = "idle" => turn'[t] = turn[t]
      BY <2>3, <2>6 DEF UnderWay
    <3>. QED BY <1>0, <2>1, <3>1 DEF MeetingKnown
  <2>11. \A t \in ToSet(told') : turn'[t].at = "over" /\ turn'[t].of \in Chats
    BY <1>0, <2>3, <2>4, <2>5, <2>6
  <2>12. MemorySound(memory', told', met)
    <3>1. Chain(list, told, met) /\ ToSet(list) \subseteq ToSet(told)
      BY <2>4 DEF MemorySound
    <3>2. Chain(w, told, met)
      BY <2>2, <2>4, <3>1, PushChain DEF w
    <3>3. Chain(w, told', met) /\ ToSet(w) \subseteq ToSet(told')
      BY <1>0, <2>2, <2>5, <3>1, <3>2, ChainGrows DEF Short
    <3>4. ASSUME NEW t \in ToSet(told') PROVE met[t] # {} \/ Holds(t, w, MemoryCap, told')
      <4>1. CASE t = u
        BY <2>2, <4>1 DEF Holds
      <4>2. CASE t # u /\ Holds(t, list, MemoryCap, told)
        <5>1. t \in ToSet(told)
          BY <2>5, <4>2
        <5>2. Holds(t, w, MemoryCap, told) \/ \E b \in ToSet(w) : b \in met[t]
          BY <2>2, <2>4, <3>1, <4>2, PushHolds DEF w
        <5>3. CASE Holds(t, w, MemoryCap, told)
          BY <1>0, <2>5, <5>1, <5>3, HoldsGrows
        <5>. QED BY <5>2, <5>3
      <4>3. CASE t # u /\ met[t] # {}
        BY <4>3
      <4>. QED BY <2>4, <2>5, <4>1, <4>2, <4>3 DEF MemorySound
    <3>. QED BY <2>1, <3>3, <3>4 DEF MemorySound
  <2>13. ASSUME NEW c \in Chats
         PROVE  ThreadSound(c, chat[c].messages, turn', told', met, dropped)
    <3>1. ASSUME turn[u].of = c
          PROVE  c \in dropped \/ Excused(u, turn', met) \/ u \in ToSet(chat[c].messages)
      <4>1. ASSUME Excused(u, turn, met) PROVE Excused(u, turn', met)
        BY <1>0, <2>6, <4>1 DEF Excused
      <4>. QED BY <1>b, <2>1, <3>1, <4>1
    <3>2. \A t \in ToSet(told') : t \notin ToSet(told) /\ turn'[t].of = c =>
            c \in dropped \/ Excused(t, turn', met) \/ t \in ToSet(chat[c].messages)
      BY <2>5, <2>6, <3>1
    <3>. QED BY <1>0, <2>7, <3>2, ThreadGrows
  <2>14. ASSUME NEW t \in Turns PROVE TurnSound(t, turn'[t], turn', told', met, dropped)
    <3>1. CASE t = u
      BY <1>0, <2>3, <2>4, <2>6, <3>1 DEF TurnSound, Loaded
    <3>2. CASE t # u
      <4>1. Loaded(turn[t]) => met[u] # {} /\ (turn'[u].of = turn[t].of => Excused(u, turn', met))
        <5>. SUFFICES ASSUME Loaded(turn[t])
                      PROVE  met[u] # {} /\ (turn'[u].of = turn[t].of => Excused(u, turn', met))
          OBVIOUS
        <5>1. t \in met[u]
          BY <1>0, <2>4, <3>2 DEF Loaded, MeetingKnown, UnderWay
        <5>. QED BY <2>6, <3>2, <5>1 DEF Excused
      <4>2. Loaded(turn[t]) => \A x \in ToSet(told') : x \notin ToSet(told) =>
              met[x] # {} /\ (turn'[x].of = turn[t].of => Excused(x, turn', met))
        BY <2>5, <4>1
      <4>3. turn[t] \in TurnRecords /\ TurnSound(t, turn[t], turn, told, met, dropped)
        BY <1>0, <1>21
      <4>4. TurnSound(t, turn[t], turn', told', met, dropped)
        BY <2>7, <4>2, <4>3, TurnGrows
      <4>. QED BY <2>6, <3>2, <4>4
    <3>. QED BY <3>1, <3>2
  <2>15. ASSUME NEW t \in Turns, turn'[t].at = "remember"
         PROVE  \/ t \in ToSet(chat[turn'[t].of].messages) \/ turn'[t].of \in dropped
                \/ Excused(t, turn', met)
    <3>1. t # u /\ turn[t].at = "remember" /\ met[t] \subseteq Turns
      BY <1>0, <2>3, <2>6, <2>15
    <3>2. ASSUME Excused(t, turn, met) PROVE Excused(t, turn', met)
      BY <2>6, <3>1, <3>2 DEF Excused
    <3>. QED BY <1>b, <2>6, <3>1, <3>2
  <2>. QED BY <2>1, <2>8, <2>9, <2>10, <2>11, <2>12, <2>13, <2>14, <2>15 DEF ChatInv
<1>7. ASSUME NEW c \in Chats, DropsChat(c) PROVE ChatInv'
  <2>1. /\ chat' = [chat EXCEPT ![c] = NoChat] /\ dropped' = dropped \cup {c}
        /\ UNCHANGED <<memory, turn, told, met>>
    BY <1>7 DEF DropsChat
  <2>2. NoChat \in ChatRecords /\ NoChat.owner = "absent" /\ NoChat.messages = <<>>
    BY ChatAssumption DEF NoChat, ChatRecords, Short
  <2>. HIDE DEF NoChat
  <2>3. /\ chat' \in [Chats -> ChatRecords] /\ chat'[c] = NoChat
        /\ \A d \in Chats : d # c => chat'[d] = chat[d]
    BY <1>0, <2>1, <2>2
  <2>4. Advances(turn, told, met, dropped, turn, told, met, dropped')
    BY <1>0, <2>1 DEF Advances, Extends
  <2>5. TypedLists' /\ MeetingKnown' /\ ThreadsOwned'
    <3>1. TypedLists'
      BY <1>0, <2>1, <2>3 DEF TypedLists
    <3>2. MeetingKnown'
      BY <1>0, <2>1 DEF MeetingKnown, UnderWay
    <3>3. ThreadsOwned'
      BY <1>0, <2>1, <2>2, <2>3 DEF ThreadsOwned
    <3>. QED BY <3>1, <3>2, <3>3
  <2>6. ASSUME NEW d \in Chats
        PROVE  ThreadSound(d, chat'[d].messages, turn, told, met, dropped')
    <3>1. CASE d # c
      BY <1>0, <2>3, <2>4, <3>1, ThreadGrows
    <3>2. CASE d = c
      <4>1. chat'[d].messages = <<>> /\ ToSet(<<>>) = {} /\ Chain(<<>>, told, met)
        BY <2>2, <2>3, <3>2 DEF ToSet, Chain
      <4>. QED BY <2>1, <3>2, <4>1 DEF ThreadSound
    <3>. QED BY <3>1, <3>2
  <2>7. ASSUME NEW t \in Turns PROVE TurnSound(t, turn[t], turn, told, met, dropped')
    BY <1>0, <1>21, <2>4, TurnGrows
  <2>8. ASSUME NEW t \in Turns, turn[t].at = "remember"
        PROVE  \/ t \in ToSet(chat'[turn[t].of].messages) \/ turn[t].of \in dropped'
               \/ Excused(t, turn, met)
    <3>1. turn[t].of \in Chats
      BY <1>0, <2>8 DEF TurnSound
    <3>. QED BY <1>b, <2>1, <2>3, <2>8, <3>1
  <2>. QED BY <1>0, <2>1, <2>5, <2>6, <2>7, <2>8 DEF ChatInv
<1>8. CASE UNCHANGED chatVars
  BY <1>8 DEF chatVars, ChatInv, TypedLists, MeetingKnown, UnderWay, ThreadsOwned
<1>. QED BY <1>1, <1>2, <1>3, <1>4, <1>5, <1>6, <1>7, <1>8 DEF ChatNext

\* For any number of turns and threads and any caps: a turn the user was
\* answered stays in its thread, and what it taught in the memory, until newer
\* ones push it out or the thread is deleted, unless another turn was under way
\* at the same time; and a thread is left without an owner only if it was
\* deleted under a turn (process_chat, ws_assistant_chat, _merge_memory,
\* delete_conversation).
THEOREM TurnStaysKept == ChatSpec => []TurnsKept
<1>1. ChatInv => TurnsKept
  <2>. SUFFICES ASSUME ChatInv PROVE TurnsKept
    OBVIOUS
  <2>1. \A t, b : Precedes(told, t, b) => b \notin ToSet(told) \/ Before(t, b)
    BY DEF Precedes, Before
  <2>2. \A t, list, cap : Holds(t, list, cap, told) =>
          t \in ToSet(list) \/ (Len(list) = cap /\ Later(t, list))
    BY <2>1 DEF Holds, Later
  <2>3. ASSUME NEW t \in ToSet(told)
        PROVE  LET c == turn[t].of IN
               /\ \/ t \in ToSet(chat[c].messages) \/ c \in dropped
                  \/ Len(chat[c].messages) = HistoryCap /\ Later(t, chat[c].messages)
                  \/ \E u \in met[t] : turn[u].of = c
               /\ \/ t \in ToSet(memory) \/ met[t] # {}
                  \/ Len(memory) = MemoryCap /\ Later(t, memory)
    <3>. DEFINE c == turn[t].of
    <3>1. c \in Chats
      BY DEF ChatInv
    <3>2. c \in dropped \/ Excused(t, turn, met) \/ Holds(t, chat[c].messages, HistoryCap, told)
      BY <3>1 DEF ChatInv, ThreadSound
    <3>3. met[t] # {} \/ Holds(t, memory, MemoryCap, told)
      BY DEF ChatInv, MemorySound
    <3>. QED BY <2>2, <3>2, <3>3 DEF Excused
  <2>. QED BY <2>3 DEF TurnsKept, ChatInv, ThreadsOwned
<1>. QED BY <1>1, ChatStarts, ChatStep, PTL DEF ChatSpec

------------------------------------------------------------------------------
(***************************************************************************)
(* ExtractJobs.  A job is put on the queue by the one call that created    *)
(* it, runs once and then has one event; unless a job was cleaned up under *)
(* its run, all that is under way is about the job of the document.        *)
(***************************************************************************)
\* The document under the key.
DocRecords == [status : Statuses \cup {"absent"}, whole : BOOLEAN, of : 0 .. MaxJobs]

\* A request.
PosterRecords ==
    [at : {"idle", "create", "dispatch", "mark", "replay"}, of : 0 .. MaxJobs]

\* Where the task of a job stands.
RunStates == {"none", "queued", "start", "extract", "hook", "over"}

\* The callback of a job.
HookRecords ==
    [is : {"none", "queued", "over"}, event : {"none"} \cup Outcomes, tries : Nat]

\* Every variable has its type.
JobsTyped ==
    /\ doc \in DocRecords /\ made \in 0 .. MaxJobs
    /\ poster \in [Posters -> PosterRecords] /\ runs \in [JobIds -> RunStates]
    /\ dispatched \in [JobIds -> Nat] /\ hook \in [JobIds -> HookRecords]
    /\ received \in [JobIds -> SUBSET Outcomes]
    /\ doubted \in SUBSET JobIds /\ outlived \in BOOLEAN

\* The calls that have created a job and are not done with it.
Posting(p) == poster[p].at \in {"dispatch", "mark"}

\* A job has one creator, and is not queued while that has yet to do so.
PostersSound ==
    /\ \A p \in Posters : Posting(p) =>
         /\ poster[p].of \in JobIds /\ poster[p].of <= made
         /\ poster[p].at = "dispatch" => dispatched[poster[p].of] = 0
    /\ \A p, q \in Posters : Posting(p) /\ Posting(q) /\ poster[p].of = poster[q].of => p = q

\* A job is queued once, runs once, and then has one event.
JobSound(j) ==
    /\ dispatched[j] <= 1 /\ (runs[j] = "none" <=> dispatched[j] = 0)
    /\ j > made => dispatched[j] = 0
    /\ hook[j].event # "none" => runs[j] \in {"hook", "over"}
    /\ runs[j] = "hook" => hook[j].event # "none"
    /\ hook[j].is # "none" => hook[j].event # "none" /\ runs[j] = "over"
    /\ received[j] \subseteq {hook[j].event}
    /\ received[j] # {} => hook[j].is # "none"

\* Unless a job was cleaned up under its run, all that is under way is about the
\* job of the document.
DocSound ==
    ~outlived =>
      /\ \A p \in Posters : Posting(p) => doc.status # "absent" /\ poster[p].of = doc.of
      /\ \A j \in JobIds : runs[j] \notin {"none", "over"} => doc.status # "absent" /\ doc.of = j
      /\ \A j \in JobIds : doc.of = j /\ hook[j].event # "none" /\ j \notin doubted =>
                              doc.status = hook[j].event

\* The inductive invariant.
JobsInv ==
    /\ JobsTyped
    /\ PostersSound
    /\ \A j \in JobIds : JobSound(j)
    /\ DocSound

\* Initially there is no job.
LEMMA ExtractStarts == ExtractInit => JobsInv
<1>. SUFFICES ASSUME ExtractInit PROVE JobsInv
  OBVIOUS
<1>1. /\ NoDoc \in DocRecords /\ NoHook \in HookRecords /\ [at |-> "idle", of |-> 0] \in PosterRecords
      /\ NoHook.is = "none" /\ NoHook.event = "none" /\ 0 \in 0 .. MaxJobs
  BY ExtractAssumption DEF NoDoc, NoHook, DocRecords, HookRecords, PosterRecords
<1>. HIDE DEF NoDoc, NoHook
<1>. QED
  <2>1. /\ doc = NoDoc /\ made = 0 /\ doubted = {} /\ outlived = FALSE
        /\ poster = [p \in Posters |-> [at |-> "idle", of |-> 0]]
        /\ runs = [j \in JobIds |-> "none"] /\ dispatched = [j \in JobIds |-> 0]
        /\ hook = [j \in JobIds |-> NoHook] /\ received = [j \in JobIds |-> {}]
    BY DEF ExtractInit
  <2>2. JobsTyped
    BY <1>1, <2>1 DEF JobsTyped, RunStates
  <2>3. \A p \in Posters : ~Posting(p)
    BY <2>1 DEF Posting
  <2>4. \A j \in JobIds : JobSound(j)
    BY <1>1, <2>1 DEF JobSound
  <2>. QED BY <1>1, <2>1, <2>2, <2>3, <2>4 DEF JobsInv, PostersSound, DocSound

\* A request goes on and writes nothing.
LEMMA PosterMoves ==
    ASSUME JobsInv, NEW p \in Posters, NEW r \in PosterRecords, poster' = [poster EXCEPT ![p] = r],
           r.at \in {"dispatch", "mark"} => poster[p].at = "dispatch" /\ r.at = "mark" /\ r.of = poster[p].of,
           UNCHANGED <<doc, made, runs, dispatched, hook, received, doubted, outlived>>
    PROVE  JobsInv'
<1>1. /\ poster' \in [Posters -> PosterRecords] /\ poster'[p] = r
      /\ \A q \in Posters : q # p => poster'[q] = poster[q]
  BY DEF JobsInv, JobsTyped
<1>2. \A q \in Posters : Posting(q)' => Posting(q) /\ poster'[q].of = poster[q].of
                           /\ (poster'[q].at = "dispatch" => poster[q].at = "dispatch")
  BY <1>1 DEF Posting
<1>3. PostersSound'
  BY <1>2 DEF JobsInv, PostersSound
<1>4. DocSound'
  BY <1>2 DEF JobsInv, DocSound
<1>. QED BY <1>1, <1>3, <1>4 DEF JobsInv, JobsTyped, JobSound

\* The task of a job moves on.
LEMMA RunMoves ==
    ASSUME JobsInv, NEW j \in JobIds, NEW to \in RunStates, runs' = [runs EXCEPT ![j] = to],
           runs[j] \notin {"none", "over"}, to \notin {"none", "hook"}, runs[j] = "hook" => to = "over",
           UNCHANGED <<doc, made, poster, dispatched, hook, received, doubted, outlived>>
    PROVE  JobsInv'
<1>1. /\ runs' \in [JobIds -> RunStates] /\ runs'[j] = to
      /\ \A k \in JobIds : k # j => runs'[k] = runs[k]
  BY DEF JobsInv, JobsTyped
<1>2. DocSound'
  BY <1>1 DEF JobsInv, DocSound, Posting
<1>3. \A k \in JobIds : JobSound(k)'
  BY <1>1 DEF JobsInv, JobSound
<1>. QED BY <1>1, <1>2, <1>3 DEF JobsInv, JobsTyped, PostersSound, Posting

\* What becomes of the event of a job that has run.
LEMMA HookMoves ==
    ASSUME JobsInv, NEW j \in JobIds, NEW r \in HookRecords, hook' = [hook EXCEPT ![j] = r],
           r.event = hook[j].event, r.is # "none", hook[j].event # "none",
           runs' \in [JobIds -> RunStates], runs'[j] = "over", runs[j] # "none",
           \A k \in JobIds : k # j => runs'[k] = runs[k],
           received' \in [JobIds -> SUBSET Outcomes], received'[j] \subseteq {hook[j].event},
           \A k \in JobIds : k # j => received'[k] = received[k],
           UNCHANGED <<doc, made, poster, dispatched, doubted, outlived>>
    PROVE  JobsInv'
<1>1. /\ hook' \in [JobIds -> HookRecords] /\ hook'[j] = r
      /\ \A k \in JobIds : k # j => hook'[k] = hook[k]
  BY DEF JobsInv, JobsTyped
<1>2. DocSound'
  BY <1>1 DEF JobsInv, DocSound, Posting
<1>3. \A k \in JobIds : JobSound(k)'
  BY <1>1 DEF JobsInv, JobSound
<1>. QED BY <1>1, <1>2, <1>3 DEF JobsInv, JobsTyped, PostersSound, Posting

\* Every step keeps the invariant.
LEMMA ExtractStep == JobsInv /\ [ExtractNext]_extractVars => JobsInv'
<1>. SUFFICES ASSUME JobsInv, [ExtractNext]_extractVars PROVE JobsInv'
  OBVIOUS
<1>0. /\ JobsTyped /\ MaxJobs \in Nat /\ doc \in DocRecords
      /\ \A p \in Posters : poster[p] \in PosterRecords
      /\ \A j \in JobIds : hook[j] \in HookRecords /\ JobSound(j)
      /\ [at |-> "idle", of |-> 0] \in PosterRecords
  BY ExtractAssumption DEF JobsInv, JobsTyped, PosterRecords
<1>21. ASSUME NEW p \in Posters, NEW at \in {"idle", "create", "dispatch", "mark", "replay"},
             PosterGoes(p, at)
      PROVE  \E r \in PosterRecords : /\ poster' = [poster EXCEPT ![p] = r]
                                      /\ r.at = at /\ r.of = poster[p].of
  <2>. DEFINE r == [poster[p] EXCEPT !.at = at]
  <2>1. poster[p] \in PosterRecords
    BY <1>0
  <2>2. r \in PosterRecords /\ r.at = at /\ r.of = poster[p].of
    BY <2>1 DEF PosterRecords
  <2>3. poster' = [poster EXCEPT ![p] = r]
    BY <1>21 DEF PosterGoes, JobsInv, JobsTyped
  <2>. HIDE DEF r
  <2>. QED BY <2>2, <2>3
<1>b. ASSUME NEW p \in Posters, Answered(p)
      PROVE  \E r \in PosterRecords : poster' = [poster EXCEPT ![p] = r] /\ r.at = "idle"
  BY <1>0, <1>b DEF Answered
<1>c. ASSUME NEW j \in JobIds, NEW status \in Statuses, Merged(j, status)
      PROVE  doc' \in DocRecords /\ doc'.status = status
             /\ doc'.of = IF doc.status = "absent" THEN j ELSE doc.of
  <2>1. CASE doc.status = "absent"
    BY <1>0, <1>c, <2>1 DEF Merged, DocRecords, JobIds
  <2>2. CASE doc.status # "absent"
    BY <1>0, <1>c, <2>2 DEF Merged, DocRecords
  <2>. QED BY <2>1, <2>2
<1>1. ASSUME NEW p \in Posters, Posts(p) \/ Replayed(p) PROVE JobsInv'
  BY <1>1, <1>21, <1>b, PosterMoves DEF Posts, Replayed, PosterAt
<1>2. ASSUME NEW p \in Posters, CreatesJob(p) PROVE JobsInv'
  <2>1. poster[p].at = "create" /\ UNCHANGED <<runs, dispatched, hook, received, doubted, outlived>>
    BY <1>2 DEF CreatesJob, PosterAt
  <2>2. CASE doc.status = "absent"
    <3>. DEFINE r == [at |-> "dispatch", of |-> made + 1]
                d == [status |-> "queued", whole |-> TRUE, of |-> made + 1]
    <3>1. /\ made < MaxJobs /\ made' = made + 1 /\ doc' = d /\ poster' = [poster EXCEPT ![p] = r]
      BY <1>2, <2>2 DEF CreatesJob
    <3>2. made \in Nat /\ made + 1 \in JobIds /\ made + 1 \in 0 .. MaxJobs /\ made + 1 > made
      BY <1>0, <3>1 DEF JobsTyped, JobIds
    <3>3. /\ r \in PosterRecords /\ d \in DocRecords /\ d.of = made + 1 /\ d.status = "queued"
          /\ r.at = "dispatch" /\ r.of = made + 1
      BY <3>2 DEF PosterRecords, DocRecords, Statuses
    <3>. HIDE DEF r, d
    <3>4. /\ poster' \in [Posters -> PosterRecords] /\ poster'[p] = r /\ ~Posting(p)
          /\ \A q \in Posters : q # p => poster'[q] = poster[q]
      BY <1>0, <2>1, <3>1, <3>3 DEF JobsTyped, Posting
    <3>5. \A q \in Posters : Posting(q) => poster[q].of < made + 1 /\ poster[q].of \in JobIds
      BY <1>0, <3>2 DEF JobsInv, PostersSound, JobIds
    <3>6. dispatched[made + 1] = 0 /\ runs[made + 1] = "none" /\ hook[made + 1].event = "none"
      BY <1>0, <3>2 DEF JobSound
    <3>7. PostersSound'
      <4>1. \A q \in Posters : Posting(q)' /\ q # p =>
              Posting(q) /\ poster'[q] = poster[q] /\ poster[q].of # made + 1
        BY <3>2, <3>4, <3>5 DEF Posting, JobIds
      <4>2. \A q \in Posters : Posting(q)' =>
              /\ poster'[q].of \in JobIds /\ poster'[q].of <= made + 1
              /\ poster'[q].at = "dispatch" => dispatched[poster'[q].of] = 0
        <5>. TAKE q \in Posters
        <5>. HAVE Posting(q)'
        <5>1. CASE q = p
          BY <3>2, <3>3, <3>4, <3>6, <5>1
        <5>2. CASE q # p
          BY <3>2, <3>5, <4>1, <5>2 DEF JobsInv, PostersSound, JobIds
        <5>. QED BY <5>1, <5>2
      <4>3. \A q, s \in Posters : Posting(q)' /\ Posting(s)' /\ poster'[q].of = poster'[s].of => q = s
        BY <3>3, <3>4, <4>1 DEF JobsInv, PostersSound
      <4>. QED BY <2>1, <3>1, <4>2, <4>3 DEF PostersSound
    <3>8. \A j \in JobIds : JobSound(j)'
      BY <1>0, <2>1, <3>1, <3>2 DEF JobSound, JobIds
    <3>9. DocSound'
      <4>1. ~outlived => \A q \in Posters : ~Posting(q)
        BY <2>2 DEF JobsInv, DocSound
      <4>2. ~outlived => \A j \in JobIds : runs[j] \in {"none", "over"}
        BY <2>2 DEF JobsInv, DocSound
      <4>. QED BY <2>1, <3>1, <3>3, <3>4, <3>6, <4>1, <4>2 DEF DocSound, Posting
    <3>. QED BY <1>0, <2>1, <3>1, <3>2, <3>3, <3>4, <3>7, <3>8, <3>9 DEF JobsInv, JobsTyped
  <2>3. CASE doc.status # "absent"
    BY <1>2, <1>21, <2>1, <2>3, PosterMoves DEF CreatesJob
  <2>. QED BY <2>2, <2>3
\* A poster puts its job on the queue, and is done or goes to mark it failed.
<1>3. ASSUME NEW p \in Posters, poster[p].at = "dispatch", OnQueue(poster[p].of),
             NEW r \in PosterRecords, poster' = [poster EXCEPT ![p] = r],
             r.at = "idle" \/ (r.at = "mark" /\ r.of = poster[p].of),
             UNCHANGED <<doc, made, hook, received, doubted, outlived>>
      PROVE  JobsInv'
  <2>. DEFINE j == poster[p].of
  <2>1. j \in JobIds /\ j <= made /\ dispatched[j] = 0 /\ runs[j] = "none"
    BY <1>0, <1>3 DEF JobsInv, PostersSound, Posting, JobSound
  <2>2. /\ poster' \in [Posters -> PosterRecords] /\ poster'[p] = r
        /\ \A q \in Posters : q # p => poster'[q] = poster[q]
    BY <1>0, <1>3 DEF JobsTyped
  <2>3. /\ dispatched' \in [JobIds -> Nat] /\ dispatched'[j] = 1
        /\ \A k \in JobIds : k # j => dispatched'[k] = dispatched[k]
        /\ runs' \in [JobIds -> RunStates] /\ runs'[j] = "queued"
        /\ \A k \in JobIds : k # j => runs'[k] = runs[k]
    BY <1>0, <1>3, <2>1 DEF OnQueue, JobsTyped, RunStates
  <2>4. \A q \in Posters : Posting(q)' => Posting(q) /\ poster'[q].of = poster[q].of
                           /\ (poster'[q].at = "dispatch" => poster[q].at = "dispatch" /\ q # p)
    BY <1>3, <2>2 DEF Posting
  <2>5. PostersSound'
    <3>1. \A q \in Posters : Posting(q) /\ q # p => poster[q].of # j
      BY <1>3 DEF JobsInv, PostersSound, Posting
    <3>. HIDE DEF j
    <3>. QED BY <1>3, <2>3, <2>4, <3>1 DEF JobsInv, PostersSound
  <2>6. \A k \in JobIds : JobSound(k)'
    <3>1. \A k \in JobIds : k # j => JobSound(k)'
      BY <1>0, <1>3, <2>3 DEF JobSound
    <3>2. JobSound(poster[p].of) /\ made \in Nat
      BY <1>0, <2>1 DEF JobsTyped
    <3>3. ASSUME NEW k \in JobIds, k = j PROVE JobSound(k)'
      BY <1>3, <2>1, <2>3, <3>2, <3>3 DEF JobSound, JobIds
    <3>. QED BY <3>1, <3>3
  <2>7. DocSound'
    <3>1. ~outlived => doc.status # "absent" /\ doc.of = j
      BY <1>3 DEF JobsInv, DocSound, Posting
    <3>. HIDE DEF j
    <3>. QED BY <1>3, <2>3, <2>4, <3>1 DEF JobsInv, DocSound
  <2>. QED BY <1>0, <1>3, <2>2, <2>3, <2>5, <2>6, <2>7 DEF JobsInv, JobsTyped
<1>4. ASSUME NEW p \in Posters, DispatchesJob(p) PROVE JobsInv'
  BY <1>3, <1>4, <1>b DEF DispatchesJob, PosterAt
<1>5. ASSUME NEW p \in Posters, DispatchErrs(p) PROVE JobsInv'
  <2>1. PICK r \in PosterRecords : /\ poster' = [poster EXCEPT ![p] = r]
                                   /\ r.at = "mark" /\ r.of = poster[p].of
    BY <1>5, <1>21 DEF DispatchErrs
  <2>2. CASE OnQueue(poster[p].of)
    BY <1>3, <1>5, <2>1, <2>2 DEF DispatchErrs, PosterAt
  <2>3. CASE UNCHANGED <<runs, dispatched>>
    BY <1>5, <2>1, <2>3, PosterMoves DEF DispatchErrs, PosterAt
  <2>. QED BY <1>5, <2>2, <2>3 DEF DispatchErrs
<1>6. ASSUME NEW p \in Posters, MarksDispatch(p) PROVE JobsInv'
  <2>. DEFINE j == poster[p].of
  <2>1. /\ poster[p].at = "mark" /\ (Merged(j, "failed") \/ UNCHANGED doc)
        /\ doubted' = doubted \cup {k \in {j} : dispatched[k] > 0}
        /\ UNCHANGED <<made, runs, dispatched, hook, received, outlived>>
    BY <1>6 DEF MarksDispatch, PosterAt
  <2>2. PICK r \in PosterRecords : poster' = [poster EXCEPT ![p] = r] /\ r.at = "idle"
    BY <1>6, <1>b DEF MarksDispatch
  <2>3. /\ poster' \in [Posters -> PosterRecords]
        /\ \A q \in Posters : Posting(q)' => Posting(q) /\ poster'[q] = poster[q]
    BY <1>0, <2>2 DEF JobsTyped, Posting
  <2>4. j \in JobIds /\ doubted' \in SUBSET JobIds
    BY <1>0, <2>1 DEF JobsInv, PostersSound, Posting, JobsTyped
  <2>5. /\ doc' \in DocRecords /\ "failed" \in Statuses
        /\ doc.status # "absent" => doc'.of = doc.of /\ doc'.status # "absent"
        /\ doc' = doc \/ doc'.status = "failed"
    <3>1. "failed" \in Statuses /\ "failed" # "absent"
      BY DEF Statuses
    <3>. HIDE DEF j
    <3>. QED BY <1>0, <1>c, <2>1, <2>4, <3>1
  <2>6. DocSound'
    <3>1. ~outlived => doc.status # "absent" /\ doc.of = j
      BY <2>1 DEF JobsInv, DocSound, Posting
    <3>2. hook[j].event # "none" => dispatched[j] > 0
      <4>1. JobSound(j) /\ dispatched[j] \in Nat
        BY <1>0, <2>4 DEF JobsTyped
      <4>. QED BY <4>1 DEF JobSound
    <3>3. hook[j].event # "none" => j \in doubted'
      BY <2>1, <3>2
    <3>. HIDE DEF j
    <3>. QED BY <2>1, <2>3, <2>5, <3>1, <3>3 DEF JobsInv, DocSound
  <2>. QED BY <1>0, <2>1, <2>3, <2>4, <2>5, <2>6 DEF JobsInv, JobsTyped, PostersSound, JobSound
<1>7. ASSUME NEW j \in JobIds, TakesJob(j) \/ RunLost(j) PROVE JobsInv'
  BY <1>7, RunMoves DEF TakesJob, RunLost, RunGoes, Others, RunStates
\* A step of a job's task writes a status.
<1>8. ASSUME NEW j \in JobIds, NEW status \in Statuses, Merged(j, status),
             runs[j] \in {"start", "extract"}, NEW to \in RunStates, to \notin {"none", "over"},
             runs' = [runs EXCEPT ![j] = to],
             NEW r \in HookRecords, hook' = [hook EXCEPT ![j] = r], r.is = hook[j].is,
             r.event = (IF to = "hook" THEN status ELSE hook[j].event),
             UNCHANGED <<made, poster, dispatched, received, doubted, outlived>>
      PROVE  JobsInv'
  <2>1. JobSound(j) /\ hook[j].event = "none" /\ hook[j].is = "none" /\ received[j] = {}
    BY <1>0, <1>8 DEF JobSound
  <2>2. /\ runs' \in [JobIds -> RunStates] /\ runs'[j] = to
        /\ \A k \in JobIds : k # j => runs'[k] = runs[k]
        /\ hook' \in [JobIds -> HookRecords] /\ hook'[j] = r
        /\ \A k \in JobIds : k # j => hook'[k] = hook[k]
    BY <1>0, <1>8 DEF JobsTyped
  <2>3. doc' \in DocRecords /\ doc'.status = status
        /\ doc'.of = IF doc.status = "absent" THEN j ELSE doc.of
    BY <1>8, <1>c
  <2>4. "absent" \notin Statuses
    BY DEF Statuses
  <2>5. ~outlived => doc.status # "absent" /\ doc.of = j /\ doc'.of = j
    BY <1>8, <2>3 DEF JobsInv, DocSound
  <2>6. \A k \in JobIds : JobSound(k)'
    <3>1. \A k \in JobIds : k # j => JobSound(k)'
      BY <1>0, <1>8, <2>2 DEF JobSound
    <3>2. status # "none"
      BY DEF Statuses
    <3>3. ASSUME NEW k \in JobIds, k = j PROVE JobSound(k)'
      <4>1. CASE to = "hook"
        BY <1>8, <2>1, <2>2, <3>2, <3>3, <4>1 DEF JobSound
      <4>2. CASE to # "hook"
        BY <1>8, <2>1, <2>2, <3>3, <4>2 DEF JobSound
      <4>. QED BY <4>1, <4>2
    <3>. QED BY <3>1, <3>3
  <2>7. DocSound'
    BY <1>8, <2>1, <2>2, <2>3, <2>4, <2>5 DEF JobsInv, DocSound, Posting
  <2>. QED BY <1>0, <1>8, <2>2, <2>3, <2>6, <2>7 DEF JobsInv, JobsTyped, PostersSound, Posting
<1>9. ASSUME NEW j \in JobIds, MarksProcessing(j) PROVE JobsInv'
  <2>1. hook' = [hook EXCEPT ![j] = hook[j]] /\ "processing" \in Statuses /\ "extract" \in RunStates
    BY <1>0, <1>9 DEF MarksProcessing, JobsTyped, Statuses, RunStates
  <2>2. /\ hook[j].event = (IF "extract" = "hook" THEN "processing" ELSE hook[j].event)
        /\ runs[j] \in {"start", "extract"} /\ runs' = [runs EXCEPT ![j] = "extract"]
        /\ Merged(j, "processing") /\ hook[j] \in HookRecords
        /\ UNCHANGED <<made, poster, dispatched, received, doubted, outlived>>
    BY <1>0, <1>9 DEF MarksProcessing, RunGoes, Others
  <2>. QED BY <1>8, <2>1, <2>2
<1>10. ASSUME NEW j \in JobIds, Extracts(j) PROVE JobsInv'
  <2>1. PICK outcome \in Outcomes :
          Merged(j, outcome) /\ hook' = [hook EXCEPT ![j].event = outcome]
    BY <1>10 DEF Extracts
  <2>. DEFINE r == [hook[j] EXCEPT !.event = outcome]
  <2>2. r \in HookRecords /\ r.is = hook[j].is /\ r.event = outcome
    BY <1>0 DEF HookRecords
  <2>3. hook' = [hook EXCEPT ![j] = r] /\ outcome \in Statuses /\ "hook" \in RunStates
    BY <1>0, <2>1 DEF JobsTyped, Outcomes, Statuses, RunStates
  <2>. HIDE DEF r
  <2>4. /\ r.event = (IF "hook" = "hook" THEN outcome ELSE hook[j].event)
        /\ runs[j] \in {"start", "extract"} /\ runs' = [runs EXCEPT ![j] = "hook"]
        /\ UNCHANGED <<made, poster, dispatched, received, doubted, outlived>>
    BY <1>10, <2>2 DEF Extracts, RunGoes, Others
  <2>5. Merged(j, outcome)
    BY <2>1
  <2>. QED BY <1>8, <2>2, <2>3, <2>4, <2>5
<1>11. ASSUME NEW j \in JobIds, QueuesHook(j) PROVE JobsInv'
  <2>1. /\ runs[j] = "hook" /\ runs' = [runs EXCEPT ![j] = "over"]
        /\ UNCHANGED <<doc, made, poster, dispatched, received, doubted, outlived>>
    BY <1>11 DEF QueuesHook, RunGoes, Others
  <2>2. "over" \in RunStates /\ received[j] \subseteq {hook[j].event}
    BY <1>0 DEF RunStates, JobSound
  <2>3. CASE UNCHANGED hook
    BY <2>1, <2>2, <2>3, RunMoves
  <2>4. CASE hook' = [hook EXCEPT ![j].is = "queued"]
    <3>1. hook[j].event # "none"
      BY <1>0, <2>1 DEF JobSound
    <3>. DEFINE r == [hook[j] EXCEPT !.is = "queued"]
    <3>2. r \in HookRecords /\ r.is = "queued" /\ r.event = hook[j].event
        BY <1>0 DEF HookRecords
    <3>3. hook' = [hook EXCEPT ![j] = r]
        BY <1>0, <2>4 DEF JobsTyped
    <3>4. /\ runs' \in [JobIds -> RunStates] /\ runs'[j] = "over"
            /\ \A k \in JobIds : k # j => runs'[k] = runs[k]
        BY <1>0, <2>1, <2>2 DEF JobsTyped
    <3>. HIDE DEF r
    <3>. QED BY <1>0, <2>1, <2>2, <3>1, <3>2, <3>3, <3>4, HookMoves DEF JobsTyped
  <2>. QED BY <1>11, <2>3, <2>4 DEF QueuesHook
<1>12. ASSUME NEW j \in JobIds, hook[j].is = "queued", NEW r \in HookRecords,
              hook' = [hook EXCEPT ![j] = r], r.is # "none", r.event = hook[j].event,
              received' = received \/ received' = [received EXCEPT ![j] = @ \cup {hook[j].event}],
              UNCHANGED <<doc, made, poster, runs, dispatched, doubted, outlived>>
       PROVE  JobsInv'
  <2>1. /\ runs[j] = "over" /\ hook[j].event # "none" /\ received[j] \subseteq {hook[j].event}
        /\ hook[j].event \in Outcomes
    BY <1>0, <1>12 DEF JobSound, HookRecords
  <2>2. /\ received' \in [JobIds -> SUBSET Outcomes] /\ received'[j] \subseteq {hook[j].event}
        /\ \A k \in JobIds : k # j => received'[k] = received[k]
    BY <1>0, <1>12, <2>1 DEF JobsTyped
  <2>3. runs' \in [JobIds -> RunStates]
    BY <1>0, <1>12 DEF JobsTyped
  <2>. QED BY <1>12, <2>1, <2>2, <2>3, HookMoves
<1>13. ASSUME NEW j \in JobIds, DeliversHook(j) PROVE JobsInv'
  <2>1. hook[j].is = "queued" /\ hook[j] \in HookRecords /\ hook[j].tries + 1 \in Nat
    BY <1>0, <1>13 DEF DeliversHook, HookRecords
  <2>2. CASE hook' = [hook EXCEPT ![j].is = "over"]
    <3>. DEFINE r == [hook[j] EXCEPT !.is = "over"]
    <3>1. r \in HookRecords /\ r.is = "over" /\ r.event = hook[j].event
      BY <2>1 DEF HookRecords
    <3>2. hook' = [hook EXCEPT ![j] = r]
      BY <1>0, <2>2 DEF JobsTyped
    <3>. HIDE DEF r
    <3>. QED BY <1>12, <1>13, <2>1, <3>1, <3>2 DEF DeliversHook
  <2>3. CASE hook' = [hook EXCEPT ![j].tries = @ + 1]
    <3>. DEFINE r == [hook[j] EXCEPT !.tries = hook[j].tries + 1]
    <3>1. r \in HookRecords /\ r.is = "queued" /\ r.event = hook[j].event
      BY <2>1 DEF HookRecords
    <3>2. hook' = [hook EXCEPT ![j] = r]
      BY <1>0, <2>3 DEF JobsTyped
    <3>. HIDE DEF r
    <3>. QED BY <1>12, <1>13, <2>1, <3>1, <3>2 DEF DeliversHook
  <2>. QED BY <1>13, <2>2, <2>3 DEF DeliversHook
<1>14. ASSUME NEW j \in JobIds, HookFails(j) PROVE JobsInv'
  <2>1. hook[j].is = "queued" /\ hook[j] \in HookRecords /\ hook[j].tries + 1 \in Nat
    BY <1>0, <1>14 DEF HookFails, HookRecords
  <2>. DEFINE r == IF hook[j].tries < HookRetries
                   THEN [hook[j] EXCEPT !.tries = hook[j].tries + 1]
                   ELSE [hook[j] EXCEPT !.is = "over"]
  <2>2. r \in HookRecords /\ r.is # "none" /\ r.event = hook[j].event
    BY <2>1 DEF HookRecords
  <2>3. hook' = [hook EXCEPT ![j] = r]
    <3>1. CASE hook[j].tries < HookRetries
      BY <1>0, <1>14, <3>1 DEF HookFails, JobsTyped
    <3>2. CASE ~(hook[j].tries < HookRetries)
      BY <1>0, <1>14, <3>2 DEF HookFails, JobsTyped
    <3>. QED BY <3>1, <3>2
  <2>. HIDE DEF r
  <2>. QED BY <1>12, <1>14, <2>1, <2>2, <2>3 DEF HookFails
<1>15. CASE CleansUp
  <2>1. /\ doc.whole /\ doc' = NoDoc
        /\ outlived' = (outlived \/ runs[doc.of] \notin {"none", "over"}
                                 \/ \E p \in Posters : poster[p].at \in {"dispatch", "mark"})
        /\ UNCHANGED <<made, poster, runs, dispatched, hook, received, doubted>>
    BY <1>15 DEF CleansUp
  <2>2. NoDoc \in DocRecords /\ NoDoc.of \notin JobIds
    BY <1>0 DEF NoDoc, DocRecords, JobIds
  <2>. HIDE DEF NoDoc
  <2>3. outlived' \in BOOLEAN
    BY <2>1
  <2>4. DocSound'
    <3>1. SUFFICES ASSUME ~outlived' PROVE DocSound'
      BY DEF DocSound
    <3>2. ~outlived /\ runs[doc.of] \in {"none", "over"} /\ \A p \in Posters : ~Posting(p)
      BY <2>1, <3>1 DEF Posting
    <3>3. \A j \in JobIds : runs[j] \in {"none", "over"}
      BY <3>2 DEF JobsInv, DocSound
    <3>. QED BY <2>1, <2>2, <3>2, <3>3 DEF DocSound, Posting
  <2>. QED BY <1>0, <2>1, <2>2, <2>3, <2>4 DEF JobsInv, JobsTyped, PostersSound, JobSound, Posting
<1>16. CASE UNCHANGED extractVars
  BY <1>16 DEF extractVars, JobsInv, JobsTyped, PostersSound, JobSound, DocSound, Posting
<1>. QED
  BY <1>1, <1>2, <1>4, <1>5, <1>6, <1>7, <1>9, <1>10, <1>11, <1>13, <1>14, <1>15, <1>16
     DEF ExtractNext

\* For any number of requests under one key, of jobs and of retries: a job is
\* queued once at most, its receiver is never told two outcomes, and what it is
\* told is what the document says, unless a dispatch that did queue the job was
\* taken for a failure or the job was cleaned up under its run
\* (create_extract_job, process_extract_job, deliver_extract_webhook).
THEOREM JobIsToldOnce == ExtractSpec => []JobToldOnce
<1>1. JobsInv => JobToldOnce
  <2>. SUFFICES ASSUME JobsInv, NEW j \in JobIds
                PROVE  /\ dispatched[j] <= 1
                       /\ Cardinality(received[j]) <= 1
                       /\ doc.of = j /\ received[j] # {} =>
                            doc.status \in received[j] \/ j \in doubted \/ outlived
    BY DEF JobToldOnce
  <2>1. JobSound(j)
    BY DEF JobsInv
  <2>2. Cardinality(received[j]) <= 1
    <3>1. received[j] = {} \/ received[j] = {hook[j].event}
      BY <2>1 DEF JobSound
    <3>2. Cardinality({}) = 0 /\ Cardinality({hook[j].event}) = 1
      BY FS_EmptySet, FS_Singleton
    <3>3. Cardinality(received[j]) \in {0, 1}
      BY <3>1, <3>2
    <3>. QED BY <3>3
  <2>3. received[j] # {} => received[j] = {hook[j].event} /\ hook[j].event # "none"
    BY <2>1 DEF JobSound
  <2>. QED BY <2>1, <2>2, <2>3 DEF JobsInv, JobSound, DocSound
<1>. QED
  BY <1>1, ExtractStarts, ExtractStep, PTL DEF ExtractSpec

------------------------------------------------------------------------------
(***************************************************************************)
(* Catalogue.  Who is about to choose a model has seen it offered; what    *)
(* else is stale when it is written is noted in the history as overlooked. *)
(***************************************************************************)
\* A request of an administrator.
Steps == {"idle", "choose", "add", "listed", "remove"}

\* With the model it names and the array it read.
Request == [at : Steps, model : Models \cup {"unset"}, seen : SUBSET Models]

\* Who is about to choose a model has seen it offered.
CatalogueInv ==
    /\ CatalogueTyped /\ CatalogueKept
    /\ \A a \in Admins : admin[a].at \in {"choose", "listed", "add", "remove"} => admin[a].model \in Models
    /\ \A a \in Admins : admin[a].at = "choose" => admin[a].model \in admin[a].seen

\* Initially nothing was chosen.
LEMMA CatalogueStarts == CatalogueInit => CatalogueInv
<1>1. Nothing \in Request /\ Nothing.at = "idle"
  BY DEF Nothing, Request, Steps
<1> QED
  BY <1>1 DEF CatalogueInit, CatalogueInv, CatalogueTyped, CatalogueKept, Request, Steps

\* A request that goes on stays one that has seen what it will choose.
LEMMA RequestMoves ==
    ASSUME CatalogueInv, NEW a \in Admins, NEW r \in Request, admin' = [admin EXCEPT ![a] = r],
           r.at # "idle" => r.model \in Models, r.at = "choose" => r.model \in r.seen
    PROVE  /\ admin' \in [Admins -> Request]
           /\ \A b \in Admins : admin'[b].at \in {"choose", "listed", "add", "remove"} => admin'[b].model \in Models
           /\ \A b \in Admins : admin'[b].at = "choose" => admin'[b].model \in admin'[b].seen
BY DEF CatalogueInv, CatalogueTyped, Request, Steps

\* Every step keeps the invariant.
LEMMA CatalogueStep == CatalogueInv /\ [CatalogueNext]_catalogueVars => CatalogueInv'
<1> SUFFICES ASSUME CatalogueInv, [CatalogueNext]_catalogueVars PROVE CatalogueInv'
  OBVIOUS
<1>0. Nothing \in Request /\ Nothing.at = "idle"
  BY DEF Nothing, Request, Steps
<1>1. \A seen \in Readings : seen \subseteq Models
  BY CatalogueAssumption DEF Readings, Offered, CatalogueInv, CatalogueTyped
<1>2. ASSUME NEW a \in Admins, NEW step \in Steps \ {"idle"}, NEW m \in Models, NEW seen \in SUBSET Models,
             step = "choose" => m \in seen, Reads(a, step, m, seen)
      PROVE  CatalogueInv'
  <2>1. /\ [at |-> step, model |-> m, seen |-> seen] \in Request
        /\ admin' = [admin EXCEPT ![a] = [at |-> step, model |-> m, seen |-> seen]]
        /\ UNCHANGED <<curated, platform, sequential, overlooked>>
    BY <1>2 DEF Reads, Request
  <2> DEFINE r == [at |-> step, model |-> m, seen |-> seen]
  <2>2. r.model \in Models /\ (r.at = "choose" => r.model \in r.seen) /\ r \in Request /\ admin' = [admin EXCEPT ![a] = r]
    BY <1>2, <2>1
  <2> HIDE DEF r
  <2>3. /\ admin' \in [Admins -> Request]
        /\ \A b \in Admins : admin'[b].at \in {"choose", "listed", "add", "remove"} => admin'[b].model \in Models
        /\ \A b \in Admins : admin'[b].at = "choose" => admin'[b].model \in admin'[b].seen
    BY <2>2, RequestMoves
  <2> QED
    BY <2>1, <2>3 DEF CatalogueInv, CatalogueTyped, CatalogueKept, Request, Steps
<1>3. ASSUME NEW a \in Admins, Done(a)
      PROVE  /\ admin' \in [Admins -> Request]
             /\ \A b \in Admins : admin'[b].at \in {"choose", "listed", "add", "remove"} => admin'[b].model \in Models
             /\ \A b \in Admins : admin'[b].at = "choose" => admin'[b].model \in admin'[b].seen
  BY <1>0, <1>3, RequestMoves DEF Done
<1>4. ASSUME NEW a \in Admins, Chosen(a) PROVE CatalogueInv'
  BY <1>3, <1>4 DEF Chosen, CatalogueInv, CatalogueTyped, CatalogueKept, Request, Steps
<1>5. ASSUME NEW a \in Admins, Added(a) PROVE CatalogueInv'
  BY <1>3, <1>5, CatalogueAssumption DEF Added, CatalogueInv, CatalogueTyped, CatalogueKept, Request, Steps, Offered
<1>6. ASSUME NEW a \in Admins, Removed(a) PROVE CatalogueInv'
  BY <1>3, <1>6, CatalogueAssumption DEF Removed, CatalogueInv, CatalogueTyped, CatalogueKept, Request, Steps, Offered
<1>7. ASSUME NEW a \in Admins, ModelLists(a) PROVE CatalogueInv'
  <2>1. PICK seen \in Readings :
         IF admin[a].model \in seen THEN Reads(a, "remove", admin[a].model, seen)
         ELSE Done(a) /\ UNCHANGED <<curated, platform, sequential, overlooked>>
    BY <1>7 DEF ModelLists
  <2>2. admin[a].model \in Models
    BY <1>7 DEF ModelLists, CatalogueInv
  <2>3. CASE admin[a].model \in seen
    BY <1>1, <1>2, <2>1, <2>2, <2>3 DEF Steps
  <2>4. CASE admin[a].model \notin seen
    BY <1>3, <2>1, <2>4 DEF CatalogueInv, CatalogueTyped, CatalogueKept, Request, Steps
  <2> QED BY <2>3, <2>4
<1>8. ASSUME NEW a \in Admins, NEW m \in Models, Choose(a, m) \/ Add(a, m) \/ TakeOff(a, m) PROVE CatalogueInv'
  <2>1. PICK step \in Steps \ {"idle"}, seen \in SUBSET Models : (step = "choose" => m \in seen) /\ Reads(a, step, m, seen)
    BY <1>1, <1>8 DEF Choose, Add, TakeOff, Steps
  <2> QED BY <1>2, <2>1
<1>9. CASE UNCHANGED catalogueVars
  BY <1>9 DEF catalogueVars, CatalogueInv, CatalogueTyped, CatalogueKept
<1> QED
  BY <1>4, <1>5, <1>6, <1>7, <1>8, <1>9 DEF CatalogueNext

\* For any number of administrators and models: unless a request wrote over
\* what it had not read, the array is what adding and removing one after
\* another make of it, and the platform's model is one that users are offered
\* (add_build_model, remove_build_model, set_build_model_setting).
THEOREM CatalogueIsKept == CatalogueSpec => []CatalogueKept
<1>1. CatalogueInv => CatalogueKept
  BY DEF CatalogueInv
<1> QED BY <1>1, CatalogueStarts, CatalogueStep, PTL DEF CatalogueSpec
==============================================================================
