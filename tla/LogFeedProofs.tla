----------------------------- MODULE LogFeedProofs ------------------------------
(***************************************************************************)
(* The log feed implements OrderedFeed, for every number of browsers and   *)
(* events and every length of the history; and in an OrderedFeed nothing   *)
(* is shown twice or late.                                                 *)
(***************************************************************************)
EXTENDS LogFeed, OrderedFeed, TLAPS

\* A run of consecutive numbers.
Consecutive(s) == \A i \in 1 .. Len(s) : s[i] = s[1] + i - 1

\* What the history and the subscription hold are runs of events; the one ends
\* where the history was read, the other with the last event published.
FeedRuns ==
    /\ published \in Nat /\ oldest \in Nat \ {0} /\ oldest <= published + 1
    /\ socket \in [Browsers -> {"away", "first", "replay", "second", "live"}]
    /\ replay \in [Browsers -> Seq(Nat)] /\ inbox \in [Browsers -> Seq(Nat)]
    /\ displayed \in [Browsers -> Seq(Nat)] /\ readAt \in [Browsers -> Nat]
    /\ \A b \in Browsers :
         /\ readAt[b] <= published
         /\ socket[b] = "replay" /\ replay[b] # <<>> =>
              /\ Consecutive(replay[b]) /\ replay[b][1] >= 1
              /\ replay[b][1] + Len(replay[b]) = readAt[b] + 1
         /\ socket[b] = "second" => inbox[b] = <<>>
         /\ socket[b] = "live" /\ inbox[b] # <<>> =>
              /\ Consecutive(inbox[b]) /\ inbox[b][1] >= 1
              /\ inbox[b][1] + Len(inbox[b]) = published + 1

-----------------------------------------------------------------------------
\* A run of numbers starts with its first and has as many as it says.
LEMMA UptoIs ==
    ASSUME NEW a \in Nat \ {0}, NEW n \in Nat, a <= n + 1
    PROVE  /\ Upto(a, n) \in Seq(Nat) /\ Consecutive(Upto(a, n))
           /\ Len(Upto(a, n)) = n + 1 - a
           /\ Upto(a, n) # <<>> => Upto(a, n)[1] = a
<1> DEFINE k == n + 1 - a
<1>1. k \in Nat /\ k = (IF n < a THEN 0 ELSE n + 1 - a)
  OBVIOUS
<1>2. Upto(a, n) = [i \in 1 .. k |-> a + i - 1]
  BY <1>1 DEF Upto
<1>3. \A i \in 1 .. k : a + i - 1 \in Nat
  OBVIOUS
<1>4. Upto(a, n) \in Seq(Nat) /\ Len(Upto(a, n)) = k
  BY <1>1, <1>2, <1>3
<1>5. \A i \in 1 .. k : Upto(a, n)[i] = a + i - 1
  BY <1>2
<1> QED
  BY <1>4, <1>5 DEF Consecutive

\* What is left of a run when its first is taken is a run, from the next on.
LEMMA TailIs ==
    ASSUME NEW s \in Seq(Nat), s # <<>>, Consecutive(s)
    PROVE  /\ Tail(s) \in Seq(Nat) /\ Len(Tail(s)) = Len(s) - 1
           /\ Head(s) = s[1] /\ Head(s) \in Nat
           /\ Tail(s) # <<>> => Tail(s)[1] = s[1] + 1
           /\ Tail(s) = <<>> => Len(s) = 1
           /\ Consecutive(Tail(s))
<1>1. /\ Tail(s) \in Seq(Nat) /\ Len(Tail(s)) = Len(s) - 1 /\ Head(s) = s[1]
      /\ \A i \in 1 .. Len(s) - 1 : Tail(s)[i] = s[i + 1]
      /\ Len(s) >= 1 /\ Head(s) \in Nat
  <2>1. Tail(s) \in Seq(Nat)
    OBVIOUS
  <2>2. Len(Tail(s)) = Len(s) - 1
    OBVIOUS
  <2>3. Head(s) = s[1] /\ Head(s) \in Nat
    OBVIOUS
  <2>4. \A i \in 1 .. Len(s) - 1 : Tail(s)[i] = s[i + 1]
    OBVIOUS
  <2>5. Len(s) >= 1
    OBVIOUS
  <2> QED
    BY <2>1, <2>2, <2>3, <2>4, <2>5
<1>2. \A i \in 1 .. Len(s) - 1 : Tail(s)[i] = s[1] + i
  BY <1>1 DEF Consecutive
<1>3. \A t \in Seq(Nat) : t = <<>> => Len(t) = 0
  OBVIOUS
<1>4. ASSUME Tail(s) = <<>> PROVE Len(s) = 1
  <2> DEFINE t == Tail(s)
  <2>1. t \in Seq(Nat) /\ t = <<>> /\ Len(t) = Len(s) - 1
    BY <1>1, <1>4
  <2> HIDE DEF t
  <2>2. Len(t) = 0
    BY <1>3, <2>1
  <2>3. Len(s) \in Nat
    OBVIOUS
  <2> QED
    BY <2>1, <2>2, <2>3
<1>5. s[1] \in Nat /\ Len(s) \in Nat
  BY <1>1
<1>6. Tail(s) # <<>> => Len(s) - 1 >= 1
  <2> DEFINE t == Tail(s)
  <2>1. t \in Seq(Nat) /\ Len(t) = Len(s) - 1
    BY <1>1
  <2> HIDE DEF t
  <2>2. t # <<>> => Len(t) >= 1
    BY ONLY <2>1
  <2>3. t # <<>> => Len(s) - 1 >= 1
    BY ONLY <2>1, <2>2
  <2> QED
    BY <2>3 DEF t
<1>7. Tail(s) # <<>> => Tail(s)[1] = s[1] + 1
  BY ONLY <1>2, <1>5, <1>6
<1>8. Consecutive(Tail(s))
  <2>1. ASSUME NEW i \in 1 .. Len(Tail(s)) PROVE Tail(s)[i] = Tail(s)[1] + i - 1
    <3>1. i \in 1 .. Len(s) - 1 /\ 1 \in 1 .. Len(s) - 1
      BY <1>1, <1>5
    <3>2. Tail(s)[i] = s[1] + i /\ Tail(s)[1] = s[1] + 1
      BY <1>2, <3>1
    <3> QED
      BY ONLY <1>5, <3>1, <3>2
  <2> QED
    BY <2>1 DEF Consecutive
<1> QED
  BY <1>1, <1>4, <1>7, <1>8

\* The next number may be appended to a run.
LEMMA AppendIs ==
    ASSUME NEW s \in Seq(Nat), NEW n \in Nat, Consecutive(s),
           s # <<>> => s[1] + Len(s) = n
    PROVE  /\ Append(s, n) \in Seq(Nat) /\ Consecutive(Append(s, n))
           /\ Append(s, n) # <<>> /\ Len(Append(s, n)) = Len(s) + 1
           /\ Head(Append(s, n)) = Append(s, n)[1]
           /\ Append(s, n)[1] = IF s = <<>> THEN n ELSE s[1]
<1>1. /\ Append(s, n) \in Seq(Nat) /\ Len(Append(s, n)) = Len(s) + 1
      /\ Append(s, n)[Len(s) + 1] = n /\ Append(s, n) # <<>>
      /\ \A i \in 1 .. Len(s) : Append(s, n)[i] = s[i]
  <2>1. Append(s, n) \in Seq(Nat)
    OBVIOUS
  <2>2. Len(Append(s, n)) = Len(s) + 1
    OBVIOUS
  <2>3. Append(s, n)[Len(s) + 1] = n
    OBVIOUS
  <2>4. Append(s, n) # <<>>
    <3>1. Len(s) \in Nat /\ Len(<<>>) = 0
      OBVIOUS
    <3> DEFINE t == Append(s, n)
    <3>2. Len(t) = Len(s) + 1
      BY <2>2
    <3> HIDE DEF t
    <3>3. t = <<>> => Len(t) = 0
      BY ONLY <3>1
    <3>4. t # <<>>
      BY ONLY <3>1, <3>2, <3>3
    <3> QED
      BY <3>4 DEF t
  <2>5. \A i \in 1 .. Len(s) : Append(s, n)[i] = s[i]
    OBVIOUS
  <2> QED
    BY <2>1, <2>2, <2>3, <2>4, <2>5
<1>2. s = <<>> <=> Len(s) = 0
  OBVIOUS
<1>3. Head(Append(s, n)) = Append(s, n)[1]
  BY <1>1
<1>4. CASE s = <<>>
  <2>1. Len(s) = 0 /\ Append(s, n)[1] = n
    BY <1>1, <1>2, <1>4
  <2> QED
    BY <1>1, <1>3, <1>4, <2>1 DEF Consecutive
<1>5. CASE s # <<>>
  <2>1. Len(s) >= 1 /\ Len(s) \in Nat /\ Append(s, n)[1] = s[1] /\ s[1] \in Nat
    BY <1>1, <1>2, <1>5
  <2>2. Append(s, n)[Len(s) + 1] = Append(s, n)[1] + Len(s)
    BY <1>1, <1>5, <2>1
  <2>3. \A i \in 1 .. Len(s) : Append(s, n)[i] = Append(s, n)[1] + i - 1
    BY <1>1, <2>1 DEF Consecutive
  <2>4. Consecutive(Append(s, n))
    <3>1. ASSUME NEW i \in 1 .. Len(Append(s, n))
          PROVE  Append(s, n)[i] = Append(s, n)[1] + i - 1
      <4>1. i \in 1 .. Len(s) \/ i = Len(s) + 1
        BY <1>1, <2>1
      <4>2. i \in Nat /\ i = Len(s) + 1 => Append(s, n)[i] = Append(s, n)[1] + i - 1
        BY <2>1, <2>2, <1>1
      <4> QED
        BY <4>1, <4>2, <2>3
    <3> QED
      BY <3>1 DEF Consecutive
  <2> QED
    BY <1>1, <1>3, <1>5, <2>1, <2>4
<1> QED
  BY <1>4, <1>5

-----------------------------------------------------------------------------
\* The first state holds no events.
LEMMA RunsInit == FeedInit => FeedRuns
BY DEF FeedInit, FeedRuns

\* Publishing lengthens what the subscriptions of live sockets hold, by the
\* event that comes after its last.
LEMMA RunsPublish == FeedRuns /\ Publishes => FeedRuns'
<1> SUFFICES ASSUME FeedRuns, Publishes PROVE FeedRuns'
  OBVIOUS
<1>1. published' = published + 1 /\ published' \in Nat
  BY DEF FeedRuns, Publishes
<1>2. oldest' \in Nat \ {0} /\ oldest' <= published' + 1
  BY <1>1, FeedAssumption DEF FeedRuns, Publishes, FeedAssumption
<1>3. \A b \in Browsers : inbox'[b] = IF b \in Subscribed THEN Append(inbox[b], published')
                                                          ELSE inbox[b]
  BY DEF Publishes
<1>4. inbox' \in [Browsers -> Seq(Nat)]
  <2>1. \A b \in Browsers : inbox'[b] \in Seq(Nat)
    <3> TAKE b \in Browsers
    <3>1. inbox[b] \in Seq(Nat)
      BY DEF FeedRuns
    <3>2. Append(inbox[b], published') \in Seq(Nat)
      BY <1>1, <3>1
    <3> QED
      BY <1>3, <3>1, <3>2
  <2> QED
    BY <2>1 DEF Publishes
<1>5. UNCHANGED <<socket, replay, displayed, readAt>>
  BY DEF Publishes
<1>6. ASSUME NEW b \in Browsers
      PROVE  /\ readAt[b] <= published'
             /\ socket[b] = "second" => inbox'[b] = <<>>
             /\ socket[b] = "live" /\ inbox'[b] # <<>> =>
                  /\ Consecutive(inbox'[b]) /\ inbox'[b][1] >= 1
                  /\ inbox'[b][1] + Len(inbox'[b]) = published' + 1
  <2>1. readAt[b] <= published'
    BY <1>1 DEF FeedRuns
  <2>2. socket[b] = "second" => inbox'[b] = <<>>
    BY <1>3 DEF FeedRuns, Subscribed
  <2>3. ASSUME socket[b] = "live"
        PROVE  /\ Consecutive(inbox'[b]) /\ inbox'[b][1] >= 1
               /\ inbox'[b][1] + Len(inbox'[b]) = published' + 1
    <3>1. inbox'[b] = Append(inbox[b], published')
      BY <1>3, <2>3 DEF Subscribed
    <3>2. inbox[b] \in Seq(Nat) /\ Len(inbox[b]) \in Nat
      BY DEF FeedRuns
    <3>3. inbox[b] = <<>> => Len(inbox[b]) = 0 /\ Consecutive(inbox[b])
      BY <3>2 DEF Consecutive
    <3>4. inbox[b] # <<>> => /\ inbox[b][1] + Len(inbox[b]) = published' /\ inbox[b][1] >= 1
                            /\ Consecutive(inbox[b])
      BY <1>1, <2>3 DEF FeedRuns
    <3> DEFINE s == inbox[b]  n == published'
    <3>5. s \in Seq(Nat) /\ n \in Nat /\ Consecutive(s) /\ (s # <<>> => s[1] + Len(s) = n)
      BY <1>1, <3>2, <3>3, <3>4
    <3>6. n >= 1 /\ (s = <<>> => Len(s) = 0) /\ (s # <<>> => s[1] >= 1)
      BY <1>1, <3>3, <3>4 DEF FeedRuns
    <3> HIDE DEF s, n
    <3>7. /\ Consecutive(Append(s, n)) /\ Len(Append(s, n)) = Len(s) + 1
          /\ Append(s, n)[1] = IF s = <<>> THEN n ELSE s[1]
      BY <3>5, AppendIs
    <3>8. Append(s, n)[1] >= 1 /\ Append(s, n)[1] + Len(Append(s, n)) = n + 1
      <4>1. CASE s = <<>>
        BY <3>5, <3>6, <3>7, <4>1
      <4>2. CASE s # <<>>
        <5>1. Append(s, n)[1] = s[1] /\ s[1] \in Nat /\ Len(s) \in Nat
          BY <3>5, <3>7, <4>2
        <5> QED
          BY <3>5, <3>6, <3>7, <4>2, <5>1
      <4> QED
        BY <4>1, <4>2
    <3> QED
      BY <3>1, <3>7, <3>8 DEF s, n
  <2> QED
    BY <2>1, <2>2, <2>3
<1> QED
  BY <1>1, <1>2, <1>4, <1>5, <1>6 DEF FeedRuns

\* Reading the history takes a run of events that ends with the last.
LEMMA RunsRead == ASSUME NEW b \in Browsers PROVE FeedRuns /\ ReadsHistory(b) => FeedRuns'
<1> SUFFICES ASSUME FeedRuns, ReadsHistory(b) PROVE FeedRuns'
  OBVIOUS
<1>1. published \in Nat /\ oldest \in Nat \ {0} /\ oldest <= published + 1
  BY DEF FeedRuns
<1> DEFINE u == Upto(oldest, published)
<1>2. /\ u \in Seq(Nat) /\ Consecutive(u) /\ Len(u) = published + 1 - oldest
      /\ u # <<>> => u[1] = oldest
  BY <1>1, UptoIs
<1> HIDE DEF u
<1>3. /\ replay' = [replay EXCEPT ![b] = u] /\ readAt' = [readAt EXCEPT ![b] = published]
      /\ socket' = [socket EXCEPT ![b] = "replay"]
      /\ UNCHANGED <<published, oldest, inbox, displayed>>
  BY DEF ReadsHistory, u
<1>4. /\ \A c \in Browsers : replay'[c] = IF c = b THEN u ELSE replay[c]
      /\ \A c \in Browsers : readAt'[c] = IF c = b THEN published ELSE readAt[c]
      /\ \A c \in Browsers : socket'[c] = IF c = b THEN "replay" ELSE socket[c]
  BY <1>3 DEF FeedRuns
<1>5. /\ replay' \in [Browsers -> Seq(Nat)] /\ readAt' \in [Browsers -> Nat]
      /\ socket' \in [Browsers -> {"away", "first", "replay", "second", "live"}]
  BY <1>1, <1>2, <1>3 DEF FeedRuns
<1>6. u # <<>> => u[1] >= 1 /\ u[1] + Len(u) = published + 1
  BY <1>1, <1>2
<1>7. ASSUME NEW c \in Browsers
      PROVE  /\ readAt'[c] <= published'
             /\ socket'[c] = "replay" /\ replay'[c] # <<>> =>
                  /\ Consecutive(replay'[c]) /\ replay'[c][1] >= 1
                  /\ replay'[c][1] + Len(replay'[c]) = readAt'[c] + 1
             /\ socket'[c] = "second" => inbox'[c] = <<>>
             /\ socket'[c] = "live" /\ inbox'[c] # <<>> =>
                  /\ Consecutive(inbox'[c]) /\ inbox'[c][1] >= 1
                  /\ inbox'[c][1] + Len(inbox'[c]) = published' + 1
  <2>1. CASE c = b
    BY <1>1, <1>2, <1>3, <1>4, <1>6, <2>1
  <2>2. CASE c # b
    BY <1>3, <1>4, <2>2 DEF FeedRuns
  <2> QED
    BY <2>1, <2>2
<1> QED
  BY <1>1, <1>3, <1>5, <1>7 DEF FeedRuns

\* Replaying and forwarding take the first event of a run.
LEMMA RunsReplay == ASSUME NEW b \in Browsers PROVE FeedRuns /\ Replays(b) => FeedRuns'
<1> SUFFICES ASSUME FeedRuns, Replays(b) PROVE FeedRuns'
  OBVIOUS
<1> DEFINE s == replay[b]
<1>1. /\ s \in Seq(Nat) /\ s # <<>> /\ Consecutive(s) /\ s[1] >= 1 /\ s[1] + Len(s) = readAt[b] + 1
      /\ s[1] \in Nat /\ Len(s) \in Nat
  BY DEF FeedRuns, Replays
<1>2. /\ Tail(s) \in Seq(Nat) /\ Len(Tail(s)) = Len(s) - 1 /\ Head(s) \in Nat
      /\ Tail(s) # <<>> => Tail(s)[1] = s[1] + 1
      /\ Consecutive(Tail(s))
  BY <1>1, TailIs
<1>3. /\ replay' = [replay EXCEPT ![b] = Tail(s)]
      /\ displayed' = [displayed EXCEPT ![b] = Append(@, Head(s))]
      /\ UNCHANGED <<published, oldest, socket, inbox, readAt>>
  BY DEF Replays
<1>4. displayed' \in [Browsers -> Seq(Nat)]
  BY <1>2, <1>3 DEF FeedRuns
<1> HIDE DEF s
<1>5. replay' \in [Browsers -> Seq(Nat)]
  BY <1>2, <1>3 DEF FeedRuns
<1>6. Tail(s) # <<>> => Tail(s)[1] >= 1 /\ Tail(s)[1] + Len(Tail(s)) = readAt[b] + 1
  BY <1>1, <1>2
<1>7. \A c \in Browsers : replay'[c] = IF c = b THEN Tail(s) ELSE replay[c]
  BY <1>3 DEF FeedRuns
<1> QED
  BY <1>2, <1>3, <1>4, <1>5, <1>6, <1>7 DEF FeedRuns

LEMMA RunsForward == ASSUME NEW b \in Browsers PROVE FeedRuns /\ Forwards(b) => FeedRuns'
<1> SUFFICES ASSUME FeedRuns, Forwards(b) PROVE FeedRuns'
  OBVIOUS
<1> DEFINE s == inbox[b]
<1>1. /\ s \in Seq(Nat) /\ s # <<>> /\ Consecutive(s) /\ s[1] >= 1 /\ s[1] + Len(s) = published + 1
      /\ s[1] \in Nat /\ Len(s) \in Nat /\ socket[b] = "live"
  BY DEF FeedRuns, Forwards
<1>2. /\ Tail(s) \in Seq(Nat) /\ Len(Tail(s)) = Len(s) - 1 /\ Head(s) \in Nat
      /\ Tail(s) # <<>> => Tail(s)[1] = s[1] + 1
      /\ Consecutive(Tail(s))
  BY <1>1, TailIs
<1>3. /\ inbox' = [inbox EXCEPT ![b] = Tail(s)]
      /\ displayed' = [displayed EXCEPT ![b] = Append(@, Head(s))]
      /\ UNCHANGED <<published, oldest, socket, replay, readAt>>
  BY DEF Forwards
<1>4. displayed' \in [Browsers -> Seq(Nat)]
  BY <1>2, <1>3 DEF FeedRuns
<1> HIDE DEF s
<1>5. inbox' \in [Browsers -> Seq(Nat)]
  BY <1>2, <1>3 DEF FeedRuns
<1>6. Tail(s) # <<>> => Tail(s)[1] >= 1 /\ Tail(s)[1] + Len(Tail(s)) = published + 1
  BY <1>1, <1>2
<1>7. \A c \in Browsers : inbox'[c] = IF c = b THEN Tail(s) ELSE inbox[c]
  BY <1>3 DEF FeedRuns
<1> QED
  BY <1>1, <1>2, <1>3, <1>4, <1>5, <1>6, <1>7 DEF FeedRuns

\* Every step leaves runs.
LEMMA RunsNext == FeedRuns /\ [FeedNext]_feedVars => FeedRuns'
<1> SUFFICES ASSUME FeedRuns, [FeedNext]_feedVars PROVE FeedRuns'
  OBVIOUS
<1>1. CASE Publishes
  BY <1>1, RunsPublish
<1>2. CASE HistoryExpires
  BY <1>2 DEF HistoryExpires, FeedRuns
<1>3. ASSUME NEW b \in Browsers, Opens(b) PROVE FeedRuns'
  BY <1>3 DEF Opens, FeedRuns
<1>4. ASSUME NEW b \in Browsers, ReadsHistory(b) PROVE FeedRuns'
  BY <1>4, RunsRead
<1>5. ASSUME NEW b \in Browsers, Replays(b) PROVE FeedRuns'
  BY <1>5, RunsReplay
<1>6. ASSUME NEW b \in Browsers, Unsubscribes(b) PROVE FeedRuns'
  BY <1>6 DEF Unsubscribes, FeedRuns
<1>7. ASSUME NEW b \in Browsers, SubscribesAgain(b) PROVE FeedRuns'
  BY <1>7 DEF SubscribesAgain, FeedRuns
<1>8. ASSUME NEW b \in Browsers, Forwards(b) PROVE FeedRuns'
  BY <1>8, RunsForward
<1>9. ASSUME NEW b \in Browsers, ForwarderStops(b) PROVE FeedRuns'
  BY <1>9 DEF ForwarderStops, FeedRuns
<1>10. CASE UNCHANGED feedVars
  BY <1>10 DEF feedVars, FeedRuns
<1> QED
  BY <1>1, <1>2, <1>3, <1>4, <1>5, <1>6, <1>7, <1>8, <1>9, <1>10 DEF FeedNext

\* What the history and the subscriptions hold are runs of events.
THEOREM RunsKept == FeedSpec => []FeedRuns
<1>1. FeedInit => FeedRuns
  BY RunsInit
<1>2. FeedRuns /\ [FeedNext]_feedVars => FeedRuns'
  BY RunsNext
<1> QED
  BY <1>1, <1>2, PTL DEF FeedSpec

-----------------------------------------------------------------------------
Dues == [b \in Browsers |-> Due(b)]
LiveOnes == {b \in Browsers : socket[b] = "live"}

\* A step that changes neither what is due nor who is live, and shows nothing,
\* is no step of the abstract feed.
LEMMA Stutters ==
    ASSUME UNCHANGED <<published, displayed, readAt>>, \A c \in Browsers : Due(c)' = Due(c),
           LiveOnes' = LiveOnes
    PROVE  UNCHANGED Promise!orderedVars
<1>1. Dues' = Dues
  BY DEF Dues
<1> QED
  BY <1>1 DEF Promise!orderedVars, Dues, LiveOnes

\* Publishing leaves what is due: where it was the event after the last, that
\* event is now what the subscription holds.
LEMMA PublishGrows == FeedRuns /\ Publishes => Promise!OrderedNext
<1> SUFFICES ASSUME FeedRuns, Publishes PROVE Promise!Grows
  BY DEF Promise!OrderedNext
<1>1. ASSUME NEW c \in Browsers PROVE Due(c)' = Due(c)
  <2>1. published' = published + 1 /\ UNCHANGED <<socket, replay, readAt>>
    BY DEF Publishes
  <2>2. inbox'[c] = IF c \in Subscribed THEN Append(inbox[c], published') ELSE inbox[c]
    BY DEF Publishes
  <2>3. CASE socket[c] = "live"
    <3>1. inbox'[c] = Append(inbox[c], published')
      BY <2>2, <2>3 DEF Subscribed
    <3> DEFINE s == inbox[c]  n == published'
    <3>2. s \in Seq(Nat) /\ n \in Nat /\ n = published + 1
      BY <2>1 DEF FeedRuns
    <3>3. /\ Append(s, n) # <<>>
          /\ Head(Append(s, n)) = IF s = <<>> THEN n ELSE Head(s)
      <4> HIDE DEF s, n
      <4>1. CASE s = <<>>
        BY <3>2, <4>1
      <4>2. CASE s # <<>>
        BY <3>2, <4>2
      <4> QED
        BY <4>1, <4>2
    <3> QED
      BY <2>1, <2>3, <3>1, <3>2, <3>3 DEF Due
  <2>4. CASE socket[c] # "live"
    BY <2>1, <2>4 DEF Due
  <2> QED
    BY <2>3, <2>4
<1>2. Dues' = Dues
  BY <1>1 DEF Dues
<1>3. /\ LiveOnes' = LiveOnes /\ published' = published + 1
      /\ UNCHANGED <<displayed, readAt>>
  BY DEF LiveOnes, Publishes
<1> QED
  BY <1>2, <1>3 DEF Promise!Grows, Dues, LiveOnes

\* Reading the history joins the feed at its first event, or after the last.
LEMMA ReadJoins ==
    ASSUME NEW b \in Browsers PROVE FeedRuns /\ ReadsHistory(b) => Promise!OrderedNext
<1> SUFFICES ASSUME FeedRuns, ReadsHistory(b) PROVE Promise!Joins(b)
  BY DEF Promise!OrderedNext
<1>1. published \in Nat /\ oldest \in Nat \ {0} /\ oldest <= published + 1
  BY DEF FeedRuns
<1> DEFINE u == Upto(oldest, published)
<1>2. /\ u \in Seq(Nat) /\ Len(u) = published + 1 - oldest /\ (u # <<>> => u[1] = oldest)
  BY <1>1, UptoIs
<1> HIDE DEF u
<1>3. /\ replay' = [replay EXCEPT ![b] = u] /\ readAt' = [readAt EXCEPT ![b] = published]
      /\ socket' = [socket EXCEPT ![b] = "replay"] /\ socket[b] = "first"
      /\ UNCHANGED <<published, inbox, displayed>>
  BY DEF ReadsHistory, u
<1> DEFINE n == IF u # <<>> THEN Head(u) ELSE published + 1
<1>4. n \in 1 .. published + 1
  <2>1. CASE u = <<>>
    BY <1>1, <2>1
  <2>2. CASE u # <<>>
    <3>1. Head(u) = oldest
      BY <1>2, <2>2
    <3> QED
      BY <1>1, <2>2, <3>1
  <2> QED
    BY <2>1, <2>2
<1>5. Due(b) = 0 /\ Due(b)' = n
  <2>1. socket'[b] = "replay" /\ replay'[b] = u /\ readAt'[b] = published
    BY <1>3 DEF FeedRuns
  <2> QED
    BY <1>3, <2>1 DEF Due
<1>6. \A c \in Browsers \ {b} : Due(c)' = Due(c)
  BY <1>3 DEF FeedRuns, Due
<1> HIDE DEF n
<1>7. Dues[b] = 0 /\ Dues' = [Dues EXCEPT ![b] = n]
  BY <1>5, <1>6 DEF Dues
<1>8. LiveOnes' = LiveOnes
  BY <1>3 DEF LiveOnes, FeedRuns
<1> QED
  BY <1>3, <1>4, <1>7, <1>8 DEF Promise!Joins, Dues, LiveOnes

\* Replaying shows the event that is due.
LEMMA ReplayShows ==
    ASSUME NEW b \in Browsers PROVE FeedRuns /\ Replays(b) => Promise!OrderedNext
<1> SUFFICES ASSUME FeedRuns, Replays(b) PROVE Promise!IsShown(b)
  BY DEF Promise!OrderedNext
<1> DEFINE s == replay[b]
<1>1. /\ s \in Seq(Nat) /\ s # <<>> /\ Consecutive(s) /\ s[1] >= 1
      /\ s[1] + Len(s) = readAt[b] + 1 /\ s[1] \in Nat /\ Len(s) \in Nat
      /\ socket[b] = "replay" /\ readAt[b] \in Nat /\ published \in Nat
      /\ readAt[b] <= published
  BY DEF FeedRuns, Replays
<1>2. /\ Tail(s) \in Seq(Nat) /\ Len(Tail(s)) = Len(s) - 1 /\ Head(s) = s[1]
      /\ Tail(s) # <<>> => Tail(s)[1] = s[1] + 1
      /\ Tail(s) = <<>> => Len(s) = 1
  BY <1>1, TailIs
<1>3. /\ replay' = [replay EXCEPT ![b] = Tail(s)]
      /\ displayed' = [displayed EXCEPT ![b] = Append(@, Head(s))]
      /\ UNCHANGED <<published, oldest, socket, inbox, readAt>>
  BY DEF Replays
<1>4. replay'[b] = Tail(s) /\ \A c \in Browsers \ {b} : replay'[c] = replay[c]
  BY <1>3 DEF FeedRuns
<1>5. Due(b) = s[1]
  BY <1>1, <1>2 DEF Due
<1> HIDE DEF s
<1>6. s[1] \in 1 .. readAt[b] /\ b \notin LiveOnes
  <2>1. Len(s) >= 1
    BY <1>1
  <2> QED
    BY <1>1, <2>1 DEF LiveOnes
<1>7. Due(b)' = s[1] + 1
  <2>1. CASE Tail(s) = <<>>
    <3>1. Len(s) = 1
      BY <1>2, <2>1
    <3> QED
      BY <1>1, <1>3, <1>4, <2>1, <3>1 DEF Due
  <2>2. CASE Tail(s) # <<>>
    <3>1. Head(Tail(s)) = s[1] + 1
      BY <1>2, <2>2
    <3> QED
      BY <1>1, <1>3, <1>4, <2>2, <3>1 DEF Due
  <2> QED
    BY <2>1, <2>2
<1>8. \A c \in Browsers \ {b} : Due(c)' = Due(c)
  BY <1>3, <1>4 DEF Due
<1>9. Dues[b] = s[1] /\ Dues' = [Dues EXCEPT ![b] = @ + 1]
  BY <1>5, <1>7, <1>8 DEF Dues
<1>10. LiveOnes' = LiveOnes
  BY <1>3 DEF LiveOnes
<1> QED
  BY <1>2, <1>3, <1>6, <1>9, <1>10 DEF Promise!IsShown, Dues, LiveOnes

\* So does forwarding.
LEMMA ForwardShows ==
    ASSUME NEW b \in Browsers PROVE FeedRuns /\ Forwards(b) => Promise!OrderedNext
<1> SUFFICES ASSUME FeedRuns, Forwards(b) PROVE Promise!IsShown(b)
  BY DEF Promise!OrderedNext
<1> DEFINE s == inbox[b]
<1>1. /\ s \in Seq(Nat) /\ s # <<>> /\ Consecutive(s) /\ s[1] >= 1
      /\ s[1] + Len(s) = published + 1 /\ s[1] \in Nat /\ Len(s) \in Nat
      /\ socket[b] = "live" /\ published \in Nat
  BY DEF FeedRuns, Forwards
<1>2. /\ Tail(s) \in Seq(Nat) /\ Len(Tail(s)) = Len(s) - 1 /\ Head(s) = s[1]
      /\ Tail(s) # <<>> => Tail(s)[1] = s[1] + 1
      /\ Tail(s) = <<>> => Len(s) = 1
  BY <1>1, TailIs
<1>3. /\ inbox' = [inbox EXCEPT ![b] = Tail(s)]
      /\ displayed' = [displayed EXCEPT ![b] = Append(@, Head(s))]
      /\ UNCHANGED <<published, oldest, socket, replay, readAt>>
  BY DEF Forwards
<1>4. inbox'[b] = Tail(s) /\ \A c \in Browsers \ {b} : inbox'[c] = inbox[c]
  BY <1>3 DEF FeedRuns
<1>5. Due(b) = s[1]
  BY <1>1, <1>2 DEF Due
<1> HIDE DEF s
<1>6. s[1] \in 1 .. published /\ b \in LiveOnes
  <2>1. Len(s) >= 1
    BY <1>1
  <2> QED
    BY <1>1, <2>1 DEF LiveOnes
<1>7. Due(b)' = s[1] + 1
  <2>1. CASE Tail(s) = <<>>
    <3>1. Len(s) = 1
      BY <1>2, <2>1
    <3> QED
      BY <1>1, <1>3, <1>4, <2>1, <3>1 DEF Due
  <2>2. CASE Tail(s) # <<>>
    <3>1. Head(Tail(s)) = s[1] + 1
      BY <1>2, <2>2
    <3> QED
      BY <1>1, <1>3, <1>4, <2>2, <3>1 DEF Due
  <2> QED
    BY <2>1, <2>2
<1>8. \A c \in Browsers \ {b} : Due(c)' = Due(c)
  BY <1>3, <1>4 DEF Due
<1>9. Dues[b] = s[1] /\ Dues' = [Dues EXCEPT ![b] = @ + 1]
  BY <1>5, <1>7, <1>8 DEF Dues
<1>10. LiveOnes' = LiveOnes
  BY <1>3 DEF LiveOnes
<1> QED
  BY <1>2, <1>3, <1>6, <1>9, <1>10 DEF Promise!IsShown, Dues, LiveOnes

\* The second subscription begins after the last event: the one skip.
LEMMA ResubscribeSkips ==
    ASSUME NEW b \in Browsers PROVE FeedRuns /\ SubscribesAgain(b) => Promise!OrderedNext
<1> SUFFICES ASSUME FeedRuns, SubscribesAgain(b) PROVE Promise!GoesLive(b)
  BY DEF Promise!OrderedNext
<1>1. /\ socket[b] = "second" /\ socket' = [socket EXCEPT ![b] = "live"]
      /\ UNCHANGED <<published, replay, inbox, displayed, readAt>>
      /\ inbox[b] = <<>> /\ readAt[b] \in Nat /\ published \in Nat /\ readAt[b] <= published
  BY DEF FeedRuns, SubscribesAgain
<1>2. socket'[b] = "live" /\ \A c \in Browsers \ {b} : socket'[c] = socket[c]
  BY <1>1 DEF FeedRuns
<1>3. Due(b) = readAt[b] + 1 /\ Due(b)' = published + 1
  BY <1>1, <1>2 DEF Due
<1>4. \A c \in Browsers \ {b} : Due(c)' = Due(c)
  BY <1>1, <1>2 DEF Due
<1>5. Dues[b] = readAt[b] + 1 /\ Dues' = [Dues EXCEPT ![b] = published + 1]
  BY <1>3, <1>4 DEF Dues
<1>6. published + 1 \in Dues[b] .. published + 1 /\ Dues[b] # 0
  BY <1>1, <1>5
<1>7. b \notin LiveOnes /\ LiveOnes' = LiveOnes \cup {b}
  BY <1>1, <1>2 DEF LiveOnes
<1> QED
  BY <1>1, <1>5, <1>6, <1>7 DEF Promise!GoesLive, Dues, LiveOnes

\* Nothing else shows.
LEMMA RestStutters ==
    ASSUME NEW b \in Browsers, FeedRuns,
           \/ HistoryExpires \/ Opens(b) \/ Unsubscribes(b) \/ ForwarderStops(b)
    PROVE  UNCHANGED Promise!orderedVars
<1>1. UNCHANGED <<published, replay, displayed, readAt>>
  BY DEF HistoryExpires, Opens, Unsubscribes, ForwarderStops
<1>2. ASSUME NEW c \in Browsers PROVE Due(c)' = Due(c)
  <2>1. CASE HistoryExpires \/ ForwarderStops(b)
    BY <2>1 DEF HistoryExpires, ForwarderStops, Due
  <2>2. CASE Opens(b)
    BY <2>2 DEF Opens, Due, FeedRuns
  <2>3. CASE Unsubscribes(b)
    BY <2>3 DEF Unsubscribes, Due, FeedRuns
  <2> QED
    BY <2>1, <2>2, <2>3
<1>3. LiveOnes' = LiveOnes
  BY DEF HistoryExpires, Opens, Unsubscribes, ForwarderStops, LiveOnes, FeedRuns
<1> QED
  BY <1>1, <1>2, <1>3, Stutters

\* At the start nobody is due anything.
LEMMA StartsOrdered == FeedInit => Promise!OrderedInit
<1> SUFFICES ASSUME FeedInit PROVE Promise!OrderedInit
  OBVIOUS
<1>1. Dues = [b \in Browsers |-> 0]
  BY DEF FeedInit, Dues, Due
<1>2. LiveOnes = {}
  BY DEF FeedInit, LiveOnes
<1> QED
  BY <1>1, <1>2 DEF FeedInit, Promise!OrderedInit, Dues, LiveOnes

\* Every step of the feed is a step of the abstract one, or none.
LEMMA StepsOrdered ==
    FeedRuns /\ [FeedNext]_feedVars => [Promise!OrderedNext]_(Promise!orderedVars)
<1> SUFFICES ASSUME FeedRuns, [FeedNext]_feedVars
             PROVE  Promise!OrderedNext \/ UNCHANGED Promise!orderedVars
  OBVIOUS
<1>1. CASE Publishes
  BY <1>1, PublishGrows
<1>2. CASE HistoryExpires
  <2>1. \A c \in Browsers : Due(c)' = Due(c)
    BY <1>2 DEF HistoryExpires, Due
  <2>2. LiveOnes' = LiveOnes /\ UNCHANGED <<published, displayed, readAt>>
    BY <1>2 DEF HistoryExpires, LiveOnes
  <2> QED
    BY <2>1, <2>2, Stutters
<1>3. ASSUME NEW b \in Browsers, Opens(b) \/ Unsubscribes(b) \/ ForwarderStops(b)
      PROVE  UNCHANGED Promise!orderedVars
  BY <1>3, RestStutters
<1>4. ASSUME NEW b \in Browsers,
             ReadsHistory(b) \/ Replays(b) \/ SubscribesAgain(b) \/ Forwards(b)
      PROVE  Promise!OrderedNext
  BY <1>4, ReadJoins, ReplayShows, ResubscribeSkips, ForwardShows
<1>5. CASE UNCHANGED feedVars
  <2>1. \A c \in Browsers : Due(c)' = Due(c)
    BY <1>5 DEF feedVars, Due
  <2>2. LiveOnes' = LiveOnes /\ UNCHANGED <<published, displayed, readAt>>
    BY <1>5 DEF feedVars, LiveOnes
  <2> QED
    BY <2>1, <2>2, Stutters
<1> QED
  BY <1>1, <1>2, <1>3, <1>4, <1>5 DEF FeedNext

\* The log a browser is sent is an OrderedFeed: in order, none twice, and with
\* one gap at most (ws_build_logs).
THEOREM FeedImplements == FeedSpec => FeedKept
<1>1. FeedSpec => []FeedRuns
  BY RunsKept
<1>2. FeedInit => Promise!OrderedInit
  BY StartsOrdered
<1>3. FeedRuns /\ [FeedNext]_feedVars => [Promise!OrderedNext]_(Promise!orderedVars)
  BY StepsOrdered
<1> QED
  BY <1>1, <1>2, <1>3, PTL DEF FeedSpec, FeedKept, Promise!OrderedSpec

-----------------------------------------------------------------------------
(***************************************************************************)
(* The abstract feed: what a reader has seen comes before what it is due.  *)
(***************************************************************************)
OrderedInv ==
    /\ total \in Nat /\ due \in [Readers -> Nat] /\ seen \in [Readers -> Seq(Nat)]
    /\ joinedAt \in [Readers -> Nat]
    /\ \A r \in Readers :
         /\ due[r] = 0 => seen[r] = <<>>
         /\ \A i \in 1 .. Len(seen[r]) : seen[r][i] < due[r]
         /\ joinedAt[r] <= total
    /\ InOrder

\* Initially no reader has joined.
LEMMA OrderedInvInit == OrderedInit => OrderedInv
BY DEF OrderedInit, OrderedInv, InOrder

\* Every step shows at most the event that is due.
LEMMA OrderedInvNext == OrderedInv /\ [OrderedNext]_orderedVars => OrderedInv'
<1> SUFFICES ASSUME OrderedInv, [OrderedNext]_orderedVars PROVE OrderedInv'
  OBVIOUS
<1>1. CASE Grows
  BY <1>1 DEF Grows, OrderedInv, InOrder
<1>2. ASSUME NEW r \in Readers, Joins(r) PROVE OrderedInv'
  <2>1. PICK n \in 1 .. total + 1 : due' = [due EXCEPT ![r] = n]
    BY <1>2 DEF Joins
  <2>2. seen[r] = <<>> /\ n \in Nat /\ UNCHANGED <<total, seen>>
    BY <1>2 DEF Joins, OrderedInv
  <2>5. joinedAt' \in [Readers -> Nat] /\ \A q \in Readers : joinedAt'[q] <= total
    BY <1>2 DEF Joins, OrderedInv
  <2>3. due' \in [Readers -> Nat]
    BY <2>1, <2>2 DEF OrderedInv
  <2>4. \A q \in Readers : due'[q] = IF q = r THEN n ELSE due[q]
    BY <2>1 DEF OrderedInv
  <2> QED
    BY <2>2, <2>3, <2>4, <2>5 DEF OrderedInv, InOrder
<1>3. ASSUME NEW r \in Readers, IsShown(r) PROVE OrderedInv'
  <2> DEFINE s == seen[r]  n == due[r]
  <2>1. s \in Seq(Nat) /\ n \in Nat /\ n # 0
    BY <1>3 DEF IsShown, OrderedInv
  <2>2. /\ \A i \in 1 .. Len(s) : s[i] < n
        /\ \A i, j \in 1 .. Len(s) : i < j => s[i] < s[j]
    BY DEF OrderedInv, InOrder
  <2>3. /\ seen' = [seen EXCEPT ![r] = Append(s, n)] /\ due' = [due EXCEPT ![r] = n + 1]
        /\ UNCHANGED <<total, joinedAt>>
    BY <1>3 DEF IsShown
  <2> HIDE DEF s, n
  <2>4. /\ Append(s, n) \in Seq(Nat) /\ Len(Append(s, n)) = Len(s) + 1 /\ Len(s) \in Nat
        /\ \A i \in 1 .. Len(s) : Append(s, n)[i] = s[i]
        /\ Append(s, n)[Len(s) + 1] = n
    BY <2>1
  <2>5. \A i \in 1 .. Len(s) : s[i] \in Nat
    BY <2>1
  <2>6. \A i \in 1 .. Len(Append(s, n)) : Append(s, n)[i] < n + 1
    BY <2>1, <2>2, <2>4, <2>5
  <2>7. \A i, j \in 1 .. Len(Append(s, n)) : i < j => Append(s, n)[i] < Append(s, n)[j]
    BY <2>1, <2>2, <2>4, <2>5
  <2>8. /\ \A q \in Readers : seen'[q] = IF q = r THEN Append(s, n) ELSE seen[q]
        /\ \A q \in Readers : due'[q] = IF q = r THEN n + 1 ELSE due[q]
        /\ due' \in [Readers -> Nat] /\ seen' \in [Readers -> Seq(Nat)]
    BY <2>1, <2>3, <2>4 DEF OrderedInv
  <2>9. n + 1 # 0
    BY <2>1
  <2> QED
    BY <2>3, <2>6, <2>7, <2>8, <2>9 DEF OrderedInv, InOrder
<1>4. ASSUME NEW r \in Readers, GoesLive(r) PROVE OrderedInv'
  <2> DEFINE n == total + 1
  <2>1. due' = [due EXCEPT ![r] = n]
    BY <1>4 DEF GoesLive
  <2>2. n \in Nat /\ n >= due[r] /\ due[r] \in Nat /\ UNCHANGED <<total, seen, joinedAt>>
    BY <1>4 DEF GoesLive, OrderedInv
  <2>3. \A i \in 1 .. Len(seen[r]) : seen[r][i] < n
    <3> TAKE i \in 1 .. Len(seen[r])
    <3>1. seen[r][i] \in Nat /\ seen[r][i] < due[r]
      BY DEF OrderedInv
    <3> QED
      BY <2>2, <3>1
  <2>4. due' \in [Readers -> Nat] /\ \A q \in Readers : due'[q] = IF q = r THEN n ELSE due[q]
    BY <2>1, <2>2 DEF OrderedInv
  <2>5. n # 0
    BY DEF OrderedInv
  <2> HIDE DEF n
  <2> QED
    BY <2>2, <2>3, <2>4, <2>5 DEF OrderedInv, InOrder
<1>5. CASE UNCHANGED orderedVars
  BY <1>5 DEF orderedVars, OrderedInv, InOrder
<1> QED
  BY <1>1, <1>2, <1>3, <1>4, <1>5 DEF OrderedNext

\* Whatever implements OrderedFeed shows no reader an event twice or late.
THEOREM Ordered == OrderedSpec => []InOrder
<1>1. OrderedInit => OrderedInv
  BY OrderedInvInit
<1>2. OrderedInv /\ [OrderedNext]_orderedVars => OrderedInv'
  BY OrderedInvNext
<1>3. OrderedInv => InOrder
  BY DEF OrderedInv
<1> QED
  BY <1>1, <1>2, <1>3, PTL DEF OrderedSpec
=============================================================================
