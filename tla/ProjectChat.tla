------------------------------ MODULE ProjectChat ------------------------------
(***************************************************************************)
(* The chat of one project.  A message is answered, asked back about, or   *)
(* queued as an update, by what a language model makes of it; OpenRouter's *)
(* models are tried along a chain until one answers.  The project is read  *)
(* when the message comes, and the runs that messages and others queue     *)
(* start and end while the model thinks.                                   *)
(***************************************************************************)
EXTENDS Naturals

CONSTANTS
    Messages,   \* messages of the user, from any of her tabs
    Coders,     \* SUPPORTED_AGENTS
    FreeRoute,  \* the length of a task's free chain
    PaidRoute   \* the length of what OPENROUTER_ALLOW_PAID appends

ASSUME ChatRouteAssumption == FreeRoute \in Nat \ {0} /\ PaidRoute \in Nat

VARIABLES
    working,    \* is_updating of the project document
    coder,      \* agent of the project document
    chain,      \* how many models the settings give the classifier
    message,    \* what is to be done with each message, and what was read for it
    answer,     \* what each message was answered
    queuedFor   \* history: the updates queued for each message

projectChatVars == <<working, coder, chain, message, answer, queuedFor>>

\* What a model's text comes to, once its JSON is looked for: a chat or a
\* clarifying question, an update with or without its prompt, and needs_database.
Text == [type : {"chat", "update", "bare update"}, database : BOOLEAN]
NoText == [type |-> "none", database |-> FALSE]
NotJson == [type |-> "not json", database |-> FALSE]
Malformed == [type |-> "malformed", database |-> FALSE]

Unsent == [at |-> "idle", updating |-> FALSE, asked |-> 0, text |-> NoText]

\* resolve_models: a pinned model, or the free route and perhaps the paid one;
\* none without a key.  Any other provider is a chain of one.
Chains == {0, 1, FreeRoute, FreeRoute + PaidRoute}

ProjectChatTyped ==
    /\ working \in BOOLEAN /\ coder \in Coders
    /\ chain \in Chains
    /\ message \in [Messages ->
           [at : {"idle", "agent", "sort", "ask", "decide", "queue", "over"},
            updating : BOOLEAN, asked : 0 .. FreeRoute + PaidRoute,
            text : Text \cup {NoText, NotJson, Malformed}]]
    /\ answer \in [Messages -> {"none", "chat", "busy", "queued", "database?", "unclear",
                                "trouble", "error"}]
    /\ queuedFor \in [Messages -> Nat]

ProjectChatInit ==
    /\ working \in BOOLEAN /\ coder \in Coders /\ chain \in Chains
    /\ message = [m \in Messages |-> Unsent]
    /\ answer = [m \in Messages |-> "none"] /\ queuedFor = [m \in Messages |-> 0]

MessageGoes(m, to) == message' = [message EXCEPT ![m].at = to]
Answers(m, what) ==
    /\ message' = [message EXCEPT ![m].at = "over", ![m].updating = FALSE]
    /\ answer' = [answer EXCEPT ![m] = what]

\* chat_with_project: the budget is checked and the project read once.
Sends(m) ==
    /\ message[m].at = "idle"
    /\ message' = [message EXCEPT ![m].at = "agent", ![m].updating = working]
    /\ UNCHANGED <<working, coder, chain, answer, queuedFor>>

\* An empty message ends here; an agent that the message names is stored, one
\* that is not supported is refused.
ChoosesAgent(m) ==
    /\ message[m].at = "agent"
    /\ \/ Answers(m, "chat") /\ UNCHANGED coder
       \/ coder' \in Coders /\ MessageGoes(m, "sort") /\ UNCHANGED answer
       \/ Answers(m, "error") /\ UNCHANGED coder
    /\ UNCHANGED <<working, chain, queuedFor>>

\* An update is queued unless the project was being updated when it was read.
QueueOrBusy(m) ==
    IF message[m].updating THEN Answers(m, "busy") ELSE MessageGoes(m, "queue") /\ UNCHANGED answer

\* A long or structured message is an update; another is put to the classifier,
\* with the blueprint and the last ten messages.
Sorts(m) ==
    /\ message[m].at = "sort"
    /\ \/ QueueOrBusy(m)
       \/ MessageGoes(m, "ask") /\ UNCHANGED answer
    /\ UNCHANGED <<working, coder, chain, queuedFor>>

\* One completion. A status, an error body, a cut or an empty answer and a
\* network error are failures; other answers are of the API's shape.
Completes(m) ==
    \/ message' = [message EXCEPT ![m].asked = @ + 1]
    \/ \E t \in Text \cup {NotJson, Malformed} :
         message' = [message EXCEPT ![m].at = "decide", ![m].asked = @ + 1, ![m].text = t]

\* The classifier of the settings has raised: operators are told why, the user
\* of trouble.
Troubled(m) == Answers(m, "trouble")

\* chat_openrouter: each model of the chain in turn, until one answers.
AsksModel(m) ==
    /\ message[m].at = "ask"
    /\ \/ message[m].asked < chain /\ Completes(m) /\ UNCHANGED answer
       \/ message[m].asked = chain /\ Troubled(m)
    /\ UNCHANGED <<working, coder, chain, queuedFor>>

\* Variant: an update is queued before the question about a database is looked at.
QueuesAnyway(m) ==
    LET t == message[m].text IN
    \/ t.type \in {"not json", "update"} /\ QueueOrBusy(m)
    \/ t.type = "malformed" /\ Answers(m, "error")
    \/ t.type = "bare update" /\ Answers(m, "unclear")
    \/ t.type = "chat" /\ Answers(m, IF t.database THEN "database?" ELSE "chat")

\* What is no JSON is queued as it was written; asking for a database wins
\* over an update; a JSON of another shape than asked for raises.
Resolves(m) ==
    LET t == message[m].text IN
    \/ t.database /\ Answers(m, "database?")
    \/ ~t.database /\ t.type \in {"not json", "update"} /\ QueueOrBusy(m)
    \/ t.type = "malformed" /\ Answers(m, "error")
    \/ ~t.database /\ t.type = "bare update" /\ Answers(m, "unclear")
    \/ ~t.database /\ t.type = "chat" /\ Answers(m, "chat")

Decides(m) ==
    /\ message[m].at = "decide" /\ Resolves(m)
    /\ UNCHANGED <<working, coder, chain, queuedFor>>

\* dispatch: the task is queued, refused, or queued without the request
\* hearing of it.
QueuesUpdate(m) ==
    /\ message[m].at = "queue"
    /\ \/ Answers(m, "queued") /\ queuedFor' = [queuedFor EXCEPT ![m] = @ + 1]
       \/ Answers(m, "error") /\ queuedFor' \in {queuedFor, [queuedFor EXCEPT ![m] = @ + 1]}
    /\ UNCHANGED <<working, coder, chain>>

\* Runs of the project begin and end.
ProjectWorks ==
    /\ working' = ~working
    /\ UNCHANGED <<coder, chain, message, answer, queuedFor>>

ProjectChatNext ==
    \/ ProjectWorks
    \/ \E m \in Messages : \/ Sends(m) \/ ChoosesAgent(m) \/ Sorts(m) \/ AsksModel(m)
                           \/ Decides(m) \/ QueuesUpdate(m)

ProjectChatSpec == ProjectChatInit /\ [][ProjectChatNext]_projectChatVars
-----------------------------------------------------------------------------
\* What an answer leaves to be done for its message is settled by it: an update
\* the user is told of was queued, once; after an answer that promises nothing,
\* above all one that asks for a database ("asking always wins"), nothing is;
\* and one of a run in progress, which does promise ("I'll queue this as soon as
\* it finishes"), is never followed by an update either, whenever the run ends.
\* She is told of trouble only when every model of the chain was asked
\* (chat_with_project, chat_openrouter).
Promising == {"busy"}
Closing == {"chat", "database?", "unclear", "trouble"}

AnswersAreFinal ==
    \A m \in Messages :
      /\ answer[m] = "queued" => queuedFor[m] = 1
      /\ answer[m] \in Closing \cup {"none"} => queuedFor[m] = 0
      /\ answer[m] \in Promising => queuedFor[m] = 0
      /\ message[m].text.database => queuedFor[m] = 0
      /\ queuedFor[m] <= 1
      /\ answer[m] = "trouble" => message[m].asked = chain
===============================================================================
