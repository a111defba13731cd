------------------------------ MODULE MeetingBot ------------------------------
(***************************************************************************)
(* The self-hosted Zoom bot of one session.  dispatch_connector stores a   *)
(* webhook secret, starts a container named after the session and then     *)
(* stores which container it is; the container's sidecar reports to the    *)
(* webhook, which believes what is signed with the stored secret; the end  *)
(* of the meeting, seen by the user or told by the bot, queues a cleanup   *)
(* that looks the container up, stops it and clears the keys.  Redis may   *)
(* refuse any call, and forgets the keys after a day.                      *)
(***************************************************************************)
EXTENDS Naturals

CONSTANTS
    Reapers,     \* cleanup and removal tasks that can be under way together
    BotRetries,  \* max_retries of dispatch_connector
    MaxBotCrashes \* bound: workers lost in one behaviour

ASSUME BotAssumption == BotRetries \in Nat /\ MaxBotCrashes \in Nat

VARIABLES
    talk,        \* the session: joining, listening, or ended
    secret,      \* zoombot:secret of the session; 0 is none
    container,   \* the container of that name, and the secret it was given
    mapped,      \* zoombot:session names the container
    connector,   \* where the connector's task is, its retries and its secret
    reaper,      \* where each cleanup task is
    telling,     \* how far the bot's terminal status has come
    early,       \* history: the last cleanup to look came before the connector
                 \* was done
    strays,      \* history: why a container may run on
    botCrashes

botVars == <<talk, secret, container, mapped, connector, reaper, telling, early,
             strays, botCrashes>>

NoContainer == [is |-> "none", secret |-> 0]
MaxSecret == BotRetries + 1 + MaxBotCrashes

BotTyped ==
    /\ talk \in {"joining", "listening", "ended"}
    /\ secret \in 0 .. MaxSecret
    /\ container \in [is : {"none", "running", "exited"}, secret : 0 .. MaxSecret]
    /\ mapped \in BOOLEAN /\ early \in BOOLEAN
    /\ connector \in [at : {"queued", "secret", "run", "map", "done"},
                      tries : 0 .. BotRetries, secret : 0 .. MaxSecret]
    /\ reaper \in [Reapers -> {"none", "queued", "stop", "clear", "done"}]
    /\ telling \in {"not", "posted", "ended", "told", "lost"}
    /\ strays \subseteq {"stop failed", "unmapped", "no cleanup"}
    /\ botCrashes \in 0 .. MaxBotCrashes

\* join_session has queued the connector.
BotInit ==
    /\ talk = "joining" /\ secret = 0 /\ container = NoContainer /\ mapped = FALSE
    /\ connector = [at |-> "queued", tries |-> 0, secret |-> 0]
    /\ reaper = [p \in Reapers |-> "none"] /\ telling = "not" /\ early = FALSE
    /\ strays = {} /\ botCrashes = 0

ConnectorAt(step) == connector.at = step

\* join: a fresh secret replaces whichever was stored ...
TakesConnector ==
    /\ ConnectorAt("queued")
    /\ connector' = [connector EXCEPT !.at = "secret", !.secret = @ + 1]
    /\ UNCHANGED <<talk, secret, container, mapped, reaper, telling, early, strays,
                   botCrashes>>

StoresSecret ==
    /\ ConnectorAt("secret")
    /\ secret' = connector.secret /\ connector' = [connector EXCEPT !.at = "run"]
    /\ UNCHANGED <<talk, container, mapped, reaper, telling, early, strays, botCrashes>>

\* ... the container is started, if its name is free ...
RunsContainer ==
    /\ ConnectorAt("run") /\ container.is = "none"
    /\ container' = [is |-> "running", secret |-> connector.secret]
    /\ connector' = [connector EXCEPT !.at = "map"]
    /\ UNCHANGED <<talk, secret, mapped, reaper, telling, early, strays, botCrashes>>

\* ... and then the mapping is stored.
StoresMapping ==
    /\ ConnectorAt("map")
    /\ mapped' = TRUE /\ connector' = [connector EXCEPT !.at = "done"]
    /\ UNCHANGED <<talk, secret, container, reaper, telling, early, strays, botCrashes>>

\* What is left of a mapping that was being stored: the session's key goes first.
LeftUnmapped ==
    IF ConnectorAt("map")
    THEN mapped' \in {mapped, TRUE} /\ strays' = strays \cup {"unmapped"}
    ELSE UNCHANGED <<mapped, strays>>

\* Redis, the daemon or the name refuses: the task retries while it may, from
\* the start; what has been started by then runs on.
ConnectorErrs ==
    /\ connector.at \in {"secret", "run", "map"}
    /\ connector' = IF connector.tries < BotRetries
                    THEN [connector EXCEPT !.at = "queued", !.tries = @ + 1]
                    ELSE [connector EXCEPT !.at = "done"]
    /\ LeftUnmapped
    /\ UNCHANGED <<talk, secret, container, reaper, telling, early, botCrashes>>

\* The connector's worker is lost: acks_late, the task is delivered again.
ConnectorLost ==
    /\ connector.at \in {"secret", "run", "map"} /\ botCrashes < MaxBotCrashes
    /\ botCrashes' = botCrashes + 1 /\ connector' = [connector EXCEPT !.at = "queued"]
    /\ LeftUnmapped
    /\ UNCHANGED <<talk, secret, container, reaper, telling, early>>

\* _MAPPING_TTL_SECONDS after they were stored, the keys are gone.
SecretLapses ==
    /\ secret # 0 /\ secret' = 0
    /\ UNCHANGED <<talk, container, mapped, connector, reaper, telling, early, strays,
                   botCrashes>>

MappingLapses ==
    /\ mapped /\ mapped' = FALSE /\ strays' = strays \cup {"unmapped"}
    /\ UNCHANGED <<talk, secret, container, connector, reaper, telling, early, botCrashes>>

-----------------------------------------------------------------------------
\* _verify: what the bot signs is believed while its secret is the stored one.
Heard == container.is = "running" /\ secret # 0 /\ container.secret = secret

\* The bot tells that it records: _transition ignores a move that is illegal.
BotRecords ==
    /\ Heard /\ telling = "not"
    /\ talk' = IF talk = "joining" THEN "listening" ELSE talk
    /\ UNCHANGED <<secret, container, mapped, connector, reaper, telling, early, strays,
                   botCrashes>>

\* The bot's process reaches a terminal status, which the sidecar posts.
BotEnds ==
    /\ container.is = "running" /\ telling = "not"
    /\ telling' = "posted"
    /\ UNCHANGED <<talk, secret, container, mapped, connector, reaper, early, strays,
                   botCrashes>>

\* _handle_status, terminal: end the session ...
StatusEnds ==
    /\ telling = "posted" /\ Heard
    /\ talk' = "ended" /\ telling' = "ended"
    /\ UNCHANGED <<secret, container, mapped, connector, reaper, early, strays, botCrashes>>

Dispatched(p) == reaper[p] = "none" /\ reaper' = [reaper EXCEPT ![p] = "queued"]

\* ... then queue the cleanup.
StatusReaps ==
    /\ telling = "ended" /\ \E p \in Reapers : Dispatched(p)
    /\ telling' = "told"
    /\ UNCHANGED <<talk, secret, container, mapped, connector, early, strays, botCrashes>>

\* The post is refused, _post gives up, or run cancels the status reader before
\* the answer; what the webhook had done by then stands.
StatusLost ==
    /\ telling \in {"posted", "ended"} /\ telling' = "lost"
    /\ UNCHANGED <<talk, secret, container, mapped, connector, reaper, early, strays,
                   botCrashes>>

\* The sidecar ends after its bot, and the container with it.
ContainerExits ==
    /\ container.is = "running" /\ telling \in {"told", "lost"}
    /\ container' = [container EXCEPT !.is = "exited"]
    /\ UNCHANGED <<talk, secret, mapped, connector, reaper, telling, early, strays,
                   botCrashes>>

\* end_session: the meeting ends and remove_bot_for_session is queued, unless a
\* call between fails.
UserEnds ==
    /\ talk # "ended" /\ talk' = "ended"
    /\ \/ (\E p \in Reapers : Dispatched(p)) /\ UNCHANGED strays
       \/ strays' = strays \cup {"no cleanup"} /\ UNCHANGED reaper
    /\ UNCHANGED <<secret, container, mapped, connector, telling, early, botCrashes>>

-----------------------------------------------------------------------------
ReaperSteps(p, from, to) == reaper[p] = from /\ reaper' = [reaper EXCEPT ![p] = to]

\* Variant: the keys are cleared as soon as the container is known.
LooksUpAndClears(p) ==
    /\ ReaperSteps(p, "queued", IF mapped THEN "stop" ELSE "done")
    /\ early' = ~ConnectorAt("done")
    /\ mapped' = FALSE /\ secret' = IF mapped THEN 0 ELSE secret
    /\ UNCHANGED <<talk, container, connector, telling, strays, botCrashes>>

\* zoom_bot_cleanup: without a mapping there is nothing to do.
LooksUp(p) ==
    /\ ReaperSteps(p, "queued", IF mapped THEN "stop" ELSE "done")
    /\ early' = ~ConnectorAt("done")
    /\ UNCHANGED <<talk, secret, container, mapped, connector, telling, strays, botCrashes>>

\* Redis refuses the look-up, or the keys' deletion: nothing retries the task.
ReaperErrs(p) ==
    /\ ReaperSteps(p, "queued", "done") \/ ReaperSteps(p, "clear", "done")
    /\ strays' = strays \cup {"no cleanup"}
    /\ UNCHANGED <<talk, secret, container, mapped, connector, telling, early, botCrashes>>

\* stop_container: stopped and removed, or gone already.
StopsContainer(p) ==
    /\ ReaperSteps(p, "stop", "clear")
    /\ container' = NoContainer
    /\ UNCHANGED <<talk, secret, mapped, connector, telling, early, strays, botCrashes>>

\* stop_container swallows what the daemon refuses.
StopFails(p) ==
    /\ ReaperSteps(p, "stop", "clear")
    /\ strays' = strays \cup {"stop failed"}
    /\ UNCHANGED <<talk, secret, container, mapped, connector, telling, early, botCrashes>>

\* clear_mapping: the session's key and its secret go in one call.
ClearsMapping(p) ==
    /\ ReaperSteps(p, "clear", "done")
    /\ mapped' = FALSE /\ secret' = 0
    /\ UNCHANGED <<talk, container, connector, telling, early, strays, botCrashes>>

\* A cleanup's worker is lost: the task is delivered again from its start.
ReaperLost(p) ==
    /\ reaper[p] \in {"stop", "clear"} /\ botCrashes < MaxBotCrashes
    /\ botCrashes' = botCrashes + 1 /\ reaper' = [reaper EXCEPT ![p] = "queued"]
    /\ UNCHANGED <<talk, secret, container, mapped, connector, telling, early, strays>>

BotNext ==
    \/ TakesConnector \/ StoresSecret \/ RunsContainer \/ StoresMapping
    \/ ConnectorErrs \/ ConnectorLost \/ SecretLapses \/ MappingLapses
    \/ BotRecords \/ BotEnds \/ StatusEnds \/ StatusReaps \/ StatusLost
    \/ ContainerExits \/ UserEnds
    \/ \E p \in Reapers :
         \/ LooksUp(p) \/ StopsContainer(p) \/ StopFails(p) \/ ClearsMapping(p)
         \/ ReaperErrs(p) \/ ReaperLost(p)

BotSpec == BotInit /\ [][BotNext]_botVars
-----------------------------------------------------------------------------
\* Nothing more will happen to the session's bot from the API's side.
Over ==
    /\ talk = "ended" /\ connector.at = "done" /\ telling # "ended"
    /\ \A p \in Reapers : reaper[p] \in {"none", "done"}

\* The end of a meeting is the end of its bot, whoever ended it and whatever was
\* repeated on the way, but for these: the last cleanup to look came while the
\* connector's task had still to run or to retry; the container was never mapped
\* (Redis or the worker failed between its start and the mapping, which no
\* cleanup then finds) or its mapping lapsed after a day; no cleanup was queued,
\* or it met an error of Redis, which nothing retries; or the daemon did not
\* stop the container.  In the last case alone the bot is no longer believed.
BotEndsWithMeeting ==
    Over /\ container.is = "running" /\ telling = "not" /\ ~early =>
        strays # {} /\ (Heard => strays # {"stop failed"})
=============================================================================
