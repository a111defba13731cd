-------------------------------- MODULE LogFeed --------------------------------
(***************************************************************************)
(* The log of a project's runs as a browser sees it.  A worker publishes   *)
(* every event on a channel and appends it to a bounded history in one     *)
(* pipeline; a socket subscribes, replays the history, gives that          *)
(* subscription up and forwards what a second one receives.  Events are    *)
(* numbered in the order they were published.                              *)
(***************************************************************************)
EXTENDS Integers, Sequences

CONSTANTS
    Browsers,    \* sockets of /ws/projects/{id}/logs
    HistoryMax,  \* _LOG_HISTORY_MAX
    MaxEvents    \* bound: events published

ASSUME FeedAssumption == HistoryMax \in Nat \ {0} /\ MaxEvents \in Nat

VARIABLES
    published,  \* how many events were published
    oldest,     \* the first event the history holds; it ends with the last
    socket,     \* where each socket's handler is
    replay,     \* the events the handler has still to replay
    inbox,      \* what its subscription has received and nobody has read
    displayed,  \* the events the browser was sent, in order
    readAt,     \* history: how many events there were when it read the history
    refusedBy   \* history: sockets whose forwarder stopped at an error

feedVars == <<published, oldest, socket, replay, inbox, displayed, readAt, refusedBy>>

Events == 1 .. MaxEvents
Upto(a, b) == [i \in 1 .. (IF b < a THEN 0 ELSE b + 1 - a) |-> a + i - 1]

FeedTyped ==
    /\ published \in 0 .. MaxEvents /\ oldest \in 1 .. MaxEvents + 1
    /\ socket \in [Browsers -> {"away", "first", "replay", "second", "live"}]
    /\ replay \in [Browsers -> Seq(Events)] /\ inbox \in [Browsers -> Seq(Events)]
    /\ displayed \in [Browsers -> Seq(Events)] /\ refusedBy \subseteq Browsers
    /\ readAt \in [Browsers -> 0 .. MaxEvents]

FeedInit ==
    /\ published = 0 /\ oldest = 1 /\ refusedBy = {}
    /\ socket = [b \in Browsers |-> "away"]
    /\ replay = [b \in Browsers |-> <<>>] /\ inbox = [b \in Browsers |-> <<>>]
    /\ displayed = [b \in Browsers |-> <<>>]
    /\ readAt = [b \in Browsers |-> 0]

Subscribed == {b \in Browsers : socket[b] \in {"first", "replay", "live"}}

\* publish: one pipeline sends, appends and trims.
Publishes ==
    /\ published < MaxEvents
    /\ published' = published + 1
    /\ inbox' = [b \in Browsers |-> IF b \in Subscribed THEN Append(inbox[b], published')
                                                        ELSE inbox[b]]
    /\ oldest' = IF published' + 1 - oldest > HistoryMax THEN oldest + 1 ELSE oldest
    /\ UNCHANGED <<socket, replay, displayed, readAt, refusedBy>>

\* The history expires when nothing was published for long.
HistoryExpires ==
    /\ oldest <= published /\ oldest' = published + 1
    /\ UNCHANGED <<published, socket, replay, inbox, displayed, readAt, refusedBy>>

Opens(b) ==
    /\ socket[b] = "away" /\ displayed[b] = <<>>
    /\ socket' = [socket EXCEPT ![b] = "first"]
    /\ UNCHANGED <<published, oldest, replay, inbox, displayed, readAt, refusedBy>>

ReadsHistory(b) ==
    /\ socket[b] = "first"
    /\ socket' = [socket EXCEPT ![b] = "replay"]
    /\ replay' = [replay EXCEPT ![b] = Upto(oldest, published)]
    /\ readAt' = [readAt EXCEPT ![b] = published]
    /\ UNCHANGED <<published, oldest, inbox, displayed, refusedBy>>

Replays(b) ==
    /\ socket[b] = "replay" /\ replay[b] # <<>>
    /\ displayed' = [displayed EXCEPT ![b] = Append(@, Head(replay[b]))]
    /\ replay' = [replay EXCEPT ![b] = Tail(@)]
    /\ UNCHANGED <<published, oldest, socket, inbox, readAt, refusedBy>>

\* Variant: the first subscription goes on to be the live one.
KeepsSubscription(b) ==
    /\ socket[b] = "replay" /\ replay[b] = <<>>
    /\ socket' = [socket EXCEPT ![b] = "live"]
    /\ UNCHANGED <<published, oldest, replay, inbox, displayed, readAt, refusedBy>>

\* The first subscription ends with all it received, unread.
Unsubscribes(b) ==
    /\ socket[b] = "replay" /\ replay[b] = <<>>
    /\ socket' = [socket EXCEPT ![b] = "second"]
    /\ inbox' = [inbox EXCEPT ![b] = <<>>]
    /\ UNCHANGED <<published, oldest, replay, displayed, readAt, refusedBy>>

SubscribesAgain(b) ==
    /\ socket[b] = "second"
    /\ socket' = [socket EXCEPT ![b] = "live"]
    /\ UNCHANGED <<published, oldest, replay, inbox, displayed, readAt, refusedBy>>

\* forward_logs.
Forwards(b) ==
    /\ socket[b] = "live" /\ inbox[b] # <<>> /\ b \notin refusedBy
    /\ displayed' = [displayed EXCEPT ![b] = Append(@, Head(inbox[b]))]
    /\ inbox' = [inbox EXCEPT ![b] = Tail(@)]
    /\ UNCHANGED <<published, oldest, socket, replay, readAt, refusedBy>>

\* An error of Redis ends the forwarder; the socket stays open.
ForwarderStops(b) ==
    /\ socket[b] = "live" /\ refusedBy' = refusedBy \cup {b}
    /\ UNCHANGED <<published, oldest, socket, replay, inbox, displayed, readAt>>

FeedNext ==
    \/ Publishes \/ HistoryExpires
    \/ \E b \in Browsers :
         \/ Opens(b) \/ ReadsHistory(b) \/ Replays(b) \/ Unsubscribes(b)
         \/ SubscribesAgain(b) \/ Forwards(b) \/ ForwarderStops(b)

FeedSpec == FeedInit /\ [][FeedNext]_feedVars
-----------------------------------------------------------------------------
\* The event that a browser is to be sent next.
Due(b) ==
    IF socket[b] \in {"away", "first"} THEN 0
    ELSE IF socket[b] = "live"
         THEN IF inbox[b] # <<>> THEN Head(inbox[b]) ELSE published + 1
    ELSE IF socket[b] = "replay" /\ replay[b] # <<>> THEN Head(replay[b])
    ELSE readAt[b] + 1

Promise == INSTANCE OrderedFeed WITH
    Readers <- Browsers, total <- published, seen <- displayed,
    due <- [b \in Browsers |-> Due(b)], joinedAt <- readAt,
    live <- {b \in Browsers : socket[b] = "live"}

\* However the history, its expiry and the two subscriptions meet, a browser is
\* sent all that the history held when it was read, in order and none twice, and
\* all that comes after the second subscription; what is published between the
\* two it is never sent, whichever subscription has received it.  This is what
\* the code does.  The comment above the replay says otherwise ("so the client
\* never misses earlier entries ... any events emitted between the two steps
\* arrive via pub/sub", app/api/ws/build_logs.py:44-47): the subscription they
\* arrive on is closed, unread, at line 56.
FeedKept == Promise!OrderedSpec
=============================================================================
