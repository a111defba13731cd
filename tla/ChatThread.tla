------------------------------- MODULE ChatThread -------------------------------
(***************************************************************************)
(* The assistant's threads and memory of one user.  A turn reads the       *)
(* memory and its thread, has the model answer, and writes both back whole;*)
(* the turns of several tabs, by HTTP or by socket, overlap at the awaits  *)
(* in between.  A turn stands for its two messages and for the fact that   *)
(* it may teach.                                                           *)
(***************************************************************************)
EXTENDS Naturals, Sequences, SequencesExt

CONSTANTS
    Turns,       \* the turns of the user, each taken once
    Chats,       \* identities of conversation documents
    HistoryCap,  \* _HISTORY_CAP, in turns
    MemoryCap    \* _MEMORY_CAP

ASSUME ChatAssumption ==
    /\ HistoryCap \in Nat \ {0} /\ MemoryCap \in Nat \ {0} /\ "new" \notin Chats

VARIABLES
    chat,      \* the conversation documents: who owns each, and its messages
    memory,    \* user_assistant/{user}.memory
    turn,      \* what each turn is about to do, and what it has read
    told,      \* the turns answered, in order
    dropped,   \* history: conversations deleted
    met        \* history: the turns each turn was under way with

chatVars == <<chat, memory, turn, told, dropped, met>>

NoChat == [owner |-> "absent", messages |-> <<>>]
Fresh == [at |-> "idle", of |-> "new", messages |-> <<>>, memory |-> <<>>]

\* A turn is in a list once.
Lists == {s \in BoundedSeq(Turns, HistoryCap + MemoryCap) : IsInjective(s)}

ChatTyped ==
    /\ chat \in [Chats -> [owner : {"absent", "user", "nobody"}, messages : Lists]]
    /\ memory \in Lists /\ told \in Seq(Turns)
    /\ turn \in [Turns -> [at : {"idle", "memory", "thread", "think", "write", "remember", "over"},
                           of : Chats \cup {"new"}, messages : Lists, memory : Lists]]
    /\ dropped \subseteq Chats /\ met \in [Turns -> SUBSET Turns]

ChatInit ==
    /\ chat = [c \in Chats |-> NoChat] /\ memory = <<>>
    /\ turn = [t \in Turns |-> Fresh] /\ told = <<>>
    /\ dropped = {} /\ met = [t \in Turns |-> {}]

UnderWay == {t \in Turns : turn[t].at \notin {"idle", "over"}}
TurnGoes(t, from, to) == turn[t].at = from /\ turn' = [turn EXCEPT ![t].at = to]

\* process_chat: the budget is checked; the thread is one that was shown to
\* the user or a new one.
Asks(t) ==
    /\ turn[t].at = "idle"
    /\ \E c \in {d \in Chats : chat[d].owner = "user"} \cup {"new"} :
         turn' = [turn EXCEPT ![t].at = "memory", ![t].of = c]
    /\ met' = [u \in Turns |-> IF u = t THEN UnderWay
                               ELSE IF u \in UnderWay THEN met[u] \cup {t} ELSE met[u]]
    /\ UNCHANGED <<chat, memory, told, dropped>>

LoadsMemory(t) ==
    /\ turn[t].at = "memory"
    /\ turn' = [turn EXCEPT ![t].memory = memory,
                            ![t].at = IF turn[t].of = "new" THEN "think" ELSE "thread"]
    /\ UNCHANGED <<chat, memory, told, dropped, met>>

\* _owned_conversation, which refuses what is gone or has no owner.
LoadsThread(t) ==
    /\ turn[t].at = "thread"
    /\ LET c == turn[t].of IN
         IF chat[c].owner = "user"
         THEN turn' = [turn EXCEPT ![t].at = "think", ![t].messages = chat[c].messages]
         ELSE turn' = [turn EXCEPT ![t].at = "over"]
    /\ UNCHANGED <<chat, memory, told, dropped, met>>

\* The model answers, or fails: then nothing is persisted.
Thinks(t) ==
    /\ TurnGoes(t, "think", "write") \/ TurnGoes(t, "think", "over")
    /\ UNCHANGED <<chat, memory, told, dropped, met>>

\* Variant: the oldest are retained.
CappedOldest(list, cap) == SubSeq(list, 1, IF Len(list) < cap THEN Len(list) ELSE cap)

\* Only the newest are retained.
Capped(list, cap) == SubSeq(list, IF Len(list) < cap THEN 1 ELSE Len(list) + 1 - cap, Len(list))

\* A new document for a new thread; otherwise a merging set, which makes a
\* document without an owner when the thread is no more.
WritesThread(t) ==
    /\ turn[t].at = "write"
    /\ \E c \in Chats :
         /\ IF turn[t].of = "new" THEN chat[c].owner = "absent" /\ c \notin dropped
                                  ELSE c = turn[t].of
         /\ chat' = [chat EXCEPT ![c] =
                [owner |-> IF turn[t].of = "new" THEN "user"
                           ELSE IF @.owner = "absent" THEN "nobody" ELSE @.owner,
                 messages |-> Capped(Append(turn[t].messages, t), HistoryCap)]]
         /\ turn' = [turn EXCEPT ![t].at = "remember", ![t].of = c]
    /\ UNCHANGED <<memory, told, dropped, met>>

\* _merge_memory into what was read at the start; the turn is answered.
Remembers(t) ==
    /\ TurnGoes(t, "remember", "over")
    /\ memory' = Capped(Append(turn[t].memory, t), MemoryCap)
    /\ told' = Append(told, t)
    /\ UNCHANGED <<chat, dropped, met>>

\* delete_conversation.
DropsChat(c) ==
    /\ chat[c].owner = "user"
    /\ chat' = [chat EXCEPT ![c] = NoChat] /\ dropped' = dropped \cup {c}
    /\ UNCHANGED <<memory, turn, told, met>>

ChatNext ==
    \/ \E t \in Turns :
         \/ Asks(t) \/ LoadsMemory(t) \/ LoadsThread(t) \/ Thinks(t)
         \/ WritesThread(t) \/ Remembers(t)
    \/ \E c \in Chats : DropsChat(c)

ChatSpec == ChatInit /\ [][ChatNext]_chatVars
-----------------------------------------------------------------------------
\* t was answered before u, or u is still to be.
Before(t, u) == \E i, j \in 1 .. Len(told) : i < j /\ told[i] = t /\ told[j] = u
Later(t, list) == \A u \in ToSet(list) : u \notin ToSet(told) \/ Before(t, u)

\* A turn the user was answered stays in its thread, and what it taught in the
\* memory, until newer ones push it out or the thread is deleted: it is missing
\* otherwise only if another turn, of the same thread or of any thread for the
\* memory, was under way at the same time.  A thread is left without an owner
\* only if it was deleted under such a turn.
TurnsKept ==
    /\ \A t \in ToSet(told) :
         LET c == turn[t].of IN
         /\ \/ t \in ToSet(chat[c].messages) \/ c \in dropped
            \/ Len(chat[c].messages) = HistoryCap /\ Later(t, chat[c].messages)
            \/ \E u \in met[t] : turn[u].of = c
         /\ \/ t \in ToSet(memory) \/ met[t] # {}
            \/ Len(memory) = MemoryCap /\ Later(t, memory)
    /\ \A c \in Chats : chat[c].owner = "nobody" => c \in dropped
=============================================================================
