------------------------------- MODULE LiveAudio -------------------------------
(***************************************************************************)
(* The microphone of a physical meeting.  The sockets of one session share *)
(* a DeepgramLiveSession in the process's _live_sessions: it buffers the   *)
(* audio, a loop sends what has gathered to be transcribed, and the first  *)
(* socket to end the meeting or to leave takes it out of the registry and  *)
(* finishes it while other sockets may go on sending to the next one.      *)
(* Only an await lets another coroutine in: a chunk is taken or a piece    *)
(* buffered in one step.  A socket that waits for its own finish takes no  *)
(* message meanwhile; what another may do then, the model lets it do too.  *)
(***************************************************************************)
EXTENDS Naturals, FiniteSets

CONSTANTS
    Sockets,       \* the WebSockets of the session
    AudioRetries,  \* _retries of _transcribe_chunk
    MinPieces,     \* _MIN_CHUNK_BYTES, in pieces of audio
    MaxPieces,     \* bound: pieces of audio sent
    MaxStreams     \* bound: live sessions created

ASSUME AudioAssumption ==
    /\ AudioRetries \in Nat /\ MinPieces \in Nat /\ MaxPieces \in Nat
    /\ MaxStreams \in Nat

VARIABLES
    joined,     \* the sockets that have joined the session
    sent,       \* how many pieces were sent: piece 1 is the first
    live,       \* _live_sessions[session_id]; 0 is none
    stream,     \* every live session created, by number
    kept,       \* how often each piece is in the persisted transcript
    unkept,     \* pieces given up: too short, cut off, failed, or silent
    unqueued    \* pieces whose extraction the broker refused to queue

audioVars == <<joined, sent, live, stream, kept, unkept, unqueued>>

Streams == 1 .. MaxStreams
Pieces == 1 .. MaxPieces
Reasons == {"short", "cut", "failed", "silent", "unwritten"}
Unborn == [is |-> "none", buffer |-> {}, chunk |-> {}, at |-> "sleep", tries |-> 0]

AudioTyped ==
    /\ joined \subseteq Sockets /\ sent \in 0 .. MaxPieces /\ live \in 0 .. MaxStreams
    /\ stream \in [Streams -> [is : {"none", "open", "finishing", "finished"},
                               buffer : SUBSET Pieces, chunk : SUBSET Pieces,
                               at : {"sleep", "transcribe", "queue"},
                               tries : 0 .. AudioRetries]]
    /\ kept \in [Pieces -> 0 .. AudioRetries + 1]
    /\ unkept \in [Reasons -> SUBSET Pieces] /\ unqueued \subseteq Pieces

AudioInit ==
    /\ joined = {} /\ sent = 0 /\ live = 0 /\ stream = [o \in Streams |-> Unborn]
    /\ kept = [a \in Pieces |-> 0] /\ unkept = [y \in Reasons |-> {}] /\ unqueued = {}

GivesUp(y, pieces) == unkept' = [unkept EXCEPT ![y] = @ \cup pieces]

JoinsSession(s) ==
    /\ s \notin joined /\ joined' = joined \cup {s}
    /\ UNCHANGED <<sent, live, stream, kept, unkept, unqueued>>

\* streamAudio: the live session is made at the first chunk, or at the first
\* one after it was finished.
StreamsAudio(s) ==
    /\ s \in joined /\ sent < MaxPieces
    /\ \E o \in Streams :
         /\ IF live = 0 THEN stream[o].is = "none" /\ \A q \in 1 .. o - 1 : stream[q].is # "none"
                        ELSE o = live
         /\ live' = o
         /\ stream' = [stream EXCEPT ![o].is = "open", ![o].buffer = @ \cup {sent + 1}]
    /\ sent' = sent + 1
    /\ UNCHANGED <<joined, kept, unkept, unqueued>>

-----------------------------------------------------------------------------
\* Variant: the buffer is emptied when the chunk has been transcribed, not
\* when it is taken.
TakenLater(o) ==
    LET long == Cardinality(stream[o].buffer) >= MinPieces
    IN  /\ GivesUp("short", {})
        /\ stream' = [stream EXCEPT ![o].chunk = IF long THEN stream[o].buffer ELSE {},
                                    ![o].at = IF long THEN "transcribe" ELSE "sleep",
                                    ![o].is = IF @ = "finishing" /\ ~long THEN "finished" ELSE @,
                                    ![o].tries = 0]

\* Takes what the buffer holds, if that is long enough to transcribe.
Taken(o) ==
    LET long == Cardinality(stream[o].buffer) >= MinPieces
    IN  /\ GivesUp("short", IF long THEN {} ELSE stream[o].buffer)
        /\ stream' = [stream EXCEPT ![o].buffer = {},
                                    ![o].chunk = IF long THEN @ \cup stream[o].buffer ELSE {},
                                    ![o].at = IF long THEN "transcribe" ELSE "sleep",
                                    ![o].is = IF @ = "finishing" /\ ~long THEN "finished" ELSE @,
                                    ![o].tries = 0]

\* _flush_loop wakes up and _flush finds something.
FlushTakes(o) ==
    /\ stream[o].is = "open" /\ stream[o].at = "sleep" /\ stream[o].buffer # {}
    /\ Taken(o)
    /\ UNCHANGED <<joined, sent, live, kept, unqueued>>

\* finish, after its loop was cancelled: whatever remains in the buffer.
FinishTakes(o) ==
    /\ stream[o].is = "finishing" /\ stream[o].at = "sleep"
    /\ Taken(o)
    /\ UNCHANGED <<joined, sent, live, kept, unqueued>>

\* The chunk is done with; finish then closes its Redis client.
ChunkDone(o) ==
    stream' = [stream EXCEPT ![o].chunk = {}, ![o].at = "sleep",
                             ![o].is = IF @ = "finishing" THEN "finished" ELSE @]

\* _transcribe_chunk: the text is published and persisted, or the failure of
\* _persist_transcript only logged ...
Transcribed(o) ==
    /\ stream[o].at = "transcribe"
    /\ \/ /\ kept' = [a \in Pieces |-> IF a \in stream[o].chunk THEN kept[a] + 1 ELSE kept[a]]
          /\ UNCHANGED unkept
       \/ GivesUp("unwritten", stream[o].chunk) /\ UNCHANGED kept
    /\ stream' = [stream EXCEPT ![o].at = "queue"]
    /\ UNCHANGED <<joined, sent, live, unqueued>>

\* ... and its extraction queued;
ExtractionQueued(o) ==
    /\ stream[o].at = "queue" /\ ChunkDone(o)
    /\ UNCHANGED <<joined, sent, live, kept, unkept, unqueued>>

\* there may be nothing said in it;
NothingSaid(o) ==
    /\ stream[o].at = "transcribe" /\ ChunkDone(o)
    /\ GivesUp("silent", stream[o].chunk)
    /\ UNCHANGED <<joined, sent, live, kept, unqueued>>

\* and an error anywhere in it, at the queueing too, starts it all over.
AttemptFails(o) ==
    /\ stream[o].at # "sleep"
    /\ unqueued' = unqueued \cup IF stream[o].at = "queue" THEN stream[o].chunk ELSE {}
    /\ IF stream[o].tries < AudioRetries
       THEN /\ stream' = [stream EXCEPT ![o].at = "transcribe", ![o].tries = @ + 1]
            /\ UNCHANGED unkept
       ELSE ChunkDone(o) /\ GivesUp("failed", stream[o].chunk)
    /\ UNCHANGED <<joined, sent, live, kept>>

-----------------------------------------------------------------------------
\* finish: the loop is cancelled wherever it waits, and what it was having
\* transcribed is gone with it.
Cancelled(o) ==
    /\ live' = 0
    /\ stream' = [stream EXCEPT ![o].is = "finishing", ![o].chunk = {}, ![o].at = "sleep"]
    /\ GivesUp("cut", stream[o].chunk)

\* endMeeting, from any socket of the session: the live session is popped.
EndsMeeting(s) ==
    /\ s \in joined /\ live # 0 /\ Cancelled(live)
    /\ UNCHANGED <<joined, sent, kept, unqueued>>

\* The socket closes, and the live session with it, whoever else uses it.
Disconnects(s) ==
    /\ s \in joined /\ joined' = joined \ {s}
    /\ IF live # 0 THEN Cancelled(live) ELSE UNCHANGED <<live, stream, unkept>>
    /\ UNCHANGED <<sent, kept, unqueued>>

AudioNext ==
    \/ \E s \in Sockets :
         JoinsSession(s) \/ StreamsAudio(s) \/ EndsMeeting(s) \/ Disconnects(s)
    \/ \E o \in Streams :
         \/ FlushTakes(o) \/ FinishTakes(o) \/ Transcribed(o) \/ ExtractionQueued(o)
         \/ NothingSaid(o) \/ AttemptFails(o)

AudioSpec == AudioInit /\ [][AudioNext]_audioVars
-----------------------------------------------------------------------------
\* What one coroutine or another still holds of the audio.
InHand == UNION {stream[o].buffer \cup stream[o].chunk : o \in Streams}

\* Every piece of audio a browser sent is still in hand, or is persisted, or
\* was given up for a reason the code names, whichever sockets come, go and
\* end the meeting meanwhile; and it is in the transcript once, unless the
\* broker refused its extraction and the whole attempt was made again.
AudioAccounted ==
    \A a \in 1 .. sent :
        /\ a \in InHand \/ kept[a] > 0 \/ \E y \in Reasons : a \in unkept[y]
        /\ kept[a] > 1 => a \in unqueued
=============================================================================
