--------------------------- MODULE AgentLoopProofs ---------------------------
(***************************************************************************)
(* Proofs about AgentLoop: type correctness, the bound on turns without a  *)
(* write, the honesty of the repeat notice, what a run's end as done means *)
(* and that no job's process outlives its run.                             *)
(***************************************************************************)
EXTENDS AgentLoop, SequenceTheorems, TLAPS

\* A loop that goes on is below its streak, and every nudge bought one.
StallInv ==
    /\ loop.idle <= loop.streak + MaxStreak * loop.nudges
    /\ at \in {"top", "calls"} => loop.streak < MaxStreak

\* What the validator's report says is what this run's validator filed.
Underway == at \in {"top", "calls", "left"}
ReportIsOurs ==
    /\ Underway /\ phase = "validate" /\ report # "none" => verdict = report
    /\ at # "idle" /\ phase = "fix" => verdict = "fixed"

\* Between runs the table is empty.
TableIsEmptied == at = "idle" => registered = {}

\* The kept messages: only the first may have lost its neighbour, and the
\* last is a call exactly while its tools run.
Chained(m) ==
    \A i \in 1..(Len(m) - 1) : m[i] = "call" <=> m[i + 1] = "results"
EndsOpen(m) == Len(m) > 0 /\ m[Len(m)] = "call"
ConversationInv ==
    /\ at \in {"top", "calls"} => Chained(messages)
    /\ at = "top" => ~EndsOpen(messages)
    /\ at = "calls" => EndsOpen(messages)

IInv ==
    /\ TypeOK /\ StallInv /\ NoticeIsHonest /\ ReportIsOurs /\ SignedOff
    /\ JobsEndWithRun /\ TableIsEmptied /\ ConversationInv

-----------------------------------------------------------------------------
\* Multiplication by a natural number keeps the order, and one more factor
\* adds one more summand.
LEMMA Products ==
    ASSUME NEW a \in Nat, NEW m \in Nat, NEW n \in Nat
    PROVE  /\ a * m \in Nat
           /\ a * (m + 1) = a * m + a
           /\ m <= n => a * m <= a * n
<1>1. a * m \in Nat /\ a * n \in Nat /\ a * (m + 1) = a * m + a
  OBVIOUS
<1>2. ASSUME m <= n PROVE a * m <= a * n
  <2>1. PICK d \in Nat : n = m + d
    BY <1>2
  <2>2. a * n = a * m + a * d /\ a * d \in Nat
    BY <2>1
  <2>. QED
    BY <1>1, <2>2
<1>. QED
  BY <1>1, <1>2

\* The kept part of a conversation is a conversation.
LEMMA KeepTyped ==
    ASSUME NEW m \in Seq(MessageKinds)
    PROVE  Keep(m) \in Seq(MessageKinds)
<1>. DEFINE n == 2 * HistoryPairs
<1>1. n \in Nat /\ Len(m) \in Nat
  BY LoopAssumption
<1>2. CASE Len(m) <= n
  BY <1>2 DEF Keep
<1>3. CASE Len(m) > n
  <2>1. Len(m) - n + 1 \in 1..Len(m) + 1 /\ Len(m) \in 0..Len(m)
    BY <1>1, <1>3
  <2>2. \A i \in (Len(m) - n + 1)..Len(m) : m[i] \in MessageKinds
    BY <1>1, <1>3
  <2>3. SubSeq(m, Len(m) - n + 1, Len(m)) \in Seq(MessageKinds)
    BY <2>1, <2>2, SubSeqProperties
  <2>. QED
    BY <1>1, <1>3, <2>3 DEF Keep
<1>. QED
  BY <1>1, <1>2, <1>3

\* Locals of a loop that begins.
LEMMA FreshTyped ==
    /\ FreshLoop \in Loops
    /\ << >> \in Seq(MessageKinds)
BY LoopAssumption DEF FreshLoop, Loops

\* The table's operations keep the types of the table.
LEMMA JobsStay ==
    ASSUME JobsTyped,
           \/ UNCHANGED jobVars \/ JobMoves \/ KillAllJobs \/ LoseTable
           \/ \E j \in Jobs : StartJob(j) \/ KillJob(j)
    PROVE  JobsTyped'
BY DEF JobsTyped, jobVars, JobMoves, KillAllJobs, LoseTable, StartJob, KillJob,
       Forks, LeaderEnds, ChildEnds, Live

\* A counter within its range, put in its place, keeps the loop typed.
LEMMA Updates ==
    ASSUME NEW l \in Loops
    PROVE  /\ \A n \in 0..MaxIterations : [l EXCEPT !.iteration = n] \in Loops
           /\ \A n \in 0..MaxNudges : [l EXCEPT !.nudges = n] \in Loops
           /\ \A n \in 0..MaxStreak : [l EXCEPT !.streak = n] \in Loops
           /\ \A n \in 0..MaxCalls : [l EXCEPT !.calls = n] \in Loops
           /\ \A n \in Nat : [l EXCEPT !.idle = n] \in Loops
           /\ \A b \in BOOLEAN : [l EXCEPT !.wrote = b] \in Loops
           /\ \A b \in BOOLEAN : [l EXCEPT !.wroteNow = b] \in Loops
BY DEF Loops

\* The counters after a request, and what a message appended to a
\* conversation makes of it.
LEMMA Turns ==
    ASSUME loop \in Loops, messages \in Seq(MessageKinds)
    PROVE  /\ Turning => NextTurn \in Loops
           /\ Calling => OneCall \in Loops
           /\ \A k \in MessageKinds : Keep(Append(messages, k)) \in Seq(MessageKinds)
           /\ Keep(messages \o <<"say", "user">>) \in Seq(MessageKinds)
<1>1. Turning => NextTurn \in Loops
  <2>1. Turning => loop.iteration + 1 \in 0..MaxIterations
    BY LoopAssumption DEF Turning, Loops
  <2>. QED
    BY <2>1, Updates DEF NextTurn
<1>2. Calling => OneCall \in Loops
  <2>1. Calling => loop.calls + 1 \in 0..MaxCalls
    BY LoopAssumption DEF Calling, Loops
  <2>. QED
    BY <2>1, Updates DEF OneCall
<1>3. \A k \in MessageKinds : Append(messages, k) \in Seq(MessageKinds)
  OBVIOUS
<1>4. <<"say", "user">> \in Seq(MessageKinds)
  BY DEF MessageKinds
<1>5. messages \o <<"say", "user">> \in Seq(MessageKinds)
  BY <1>4
<1>. QED
  BY <1>1, <1>2, <1>3, <1>5, KeepTyped

-----------------------------------------------------------------------------
LEMMA InitInv == Init => IInv
<1>. SUFFICES ASSUME Init PROVE IInv
  OBVIOUS
<1>1. TypeOK
  <2>1. loop \in Loops /\ messages \in Seq(MessageKinds)
    BY FreshTyped DEF Init
  <2>2. runs \in 0..MaxRuns /\ crashes \in 0..MaxCrashes
    BY LoopAssumption DEF Init
  <2>. QED
    BY <2>1, <2>2 DEF Init, JobsInit, JobsTyped, TypeOK, Phases, Places, Reports
<1>2. StallInv
  BY LoopAssumption, Products DEF Init, FreshLoop, StallInv
<1>. QED
  BY <1>1, <1>2 DEF Init, JobsInit, IInv, NoticeIsHonest, ReportIsOurs, SignedOff,
     Underway, JobsEndWithRun, TableIsEmptied, ConversationInv

\* Every step keeps the types.
LEMMA TypeStep == TypeOK /\ StallInv /\ [Next]_vars => TypeOK'
<1>. SUFFICES ASSUME TypeOK, StallInv, [Next]_vars PROVE TypeOK'
  OBVIOUS
<1>1. /\ JobsTyped /\ phase \in Phases /\ at \in Places
      /\ messages \in Seq(MessageKinds) /\ loop \in Loops
      /\ seen \subseteq Reads /\ stale \subseteq Reads \X {"agent", "job"}
      /\ report \in Reports /\ verdict \in Reports \cup {"fixed"}
      /\ cancelled \in BOOLEAN /\ runs \in 0..MaxRuns /\ crashes \in 0..MaxCrashes
  BY DEF TypeOK
<1>2. Taken \in Reports
  BY <1>1 DEF Taken, Reports
<1>3. Forget => /\ messages' \in Seq(MessageKinds) /\ loop' \in Loops
                /\ seen' \subseteq Reads /\ stale' \subseteq Reads \X {"agent", "job"}
  BY FreshTyped DEF Forget
<1>4. ASSUME NEW p \in Phases, NEW kept \in Reports, EnterPhase(p, kept)
      PROVE  /\ phase' \in Phases /\ at' \in Places /\ Forget
             /\ report' \in Reports /\ verdict' \in Reports \cup {"fixed"}
  BY <1>1, <1>4 DEF EnterPhase, Reports, Places
<1>5. JobsTyped'
  BY <1>1, JobsStay
     DEF Next, SequenceStep, LoopStep, CallStep, StartRun, PhaseEnds, SequenceStops, Cleanup,
         StopsByUser, ReachesLimit, AnswersCalls, AnswersText, AnswersNothing, SendFails,
         TurnEnds, Read, WriteFile, OtherTool, JobTool, ReportFindings, JobsRun, JobWrites,
         Stop, Crash, vars
<1>6. (runs \in 0..MaxRuns /\ crashes \in 0..MaxCrashes /\ cancelled \in BOOLEAN)'
  <2>1. /\ runs < MaxRuns => runs + 1 \in 0..MaxRuns
        /\ crashes < MaxCrashes => crashes + 1 \in 0..MaxCrashes
    BY <1>1, LoopAssumption
  <2>. QED
    BY <1>1, <2>1
     DEF Next, SequenceStep, LoopStep, CallStep, StartRun, PhaseEnds, SequenceStops, Cleanup,
         StopsByUser, ReachesLimit, AnswersCalls, AnswersText, AnswersNothing, SendFails,
         TurnEnds, Read, WriteFile, OtherTool, JobTool, ReportFindings, JobsRun, JobWrites,
         Stop, Crash, vars, bounds
<1>. USE <1>1, <1>2, <1>3, <1>5, <1>6 DEF TypeOK, talk
<1>7. CASE StartRun
  <2>1. CASE \E p \in Phases : EnterPhase(p, report)
    BY <1>4, <2>1
  <2>2. CASE Forget /\ at' = "over" /\ phase' = "execute" /\ verdict' = "none" /\ UNCHANGED report
    BY <2>2 DEF Places, Phases, Reports
  <2>. QED
    BY <1>7, <2>1, <2>2 DEF StartRun, Successors, Phases
<1>8. CASE PhaseEnds
  <2>1. CASE \E p \in Phases : EnterPhase(p, Taken)
    BY <1>4, <2>1
  <2>2. CASE at' = "done" /\ Forget /\ report' = Taken /\ UNCHANGED <<phase, verdict>>
    BY <2>2 DEF Places
  <2>3. (IF NeedsFix THEN {"fix"} ELSE Successors[phase] \ Unplanned) \subseteq Phases \cup {"done"}
    BY DEF Successors, Phases
  <2>. QED
    BY <1>8, <2>1, <2>2, <2>3 DEF PhaseEnds
<1>9. CASE SequenceStops
  BY <1>9 DEF SequenceStops, Places
<1>10. CASE Cleanup
  BY <1>10 DEF Cleanup, Places
<1>11. CASE StopsByUser \/ ReachesLimit \/ SendFails
  BY <1>11 DEF StopsByUser, ReachesLimit, SendFails, Places
<1>12. CASE AnswersCalls
  <2>1. loop' \in Loops
    <3>. DEFINE l == [NextTurn EXCEPT !.calls = 0]
    <3>1. l \in Loops
      <4>1. NextTurn \in Loops /\ 0 \in 0..MaxCalls
        BY <1>12, Turns, LoopAssumption DEF AnswersCalls
      <4>. QED
        BY <4>1, Updates
    <3>2. [l EXCEPT !.wroteNow = FALSE] \in Loops
      BY <3>1, Updates
    <3>. QED
      BY <1>12, <3>2 DEF AnswersCalls
  <2>. QED
    BY <1>12, <2>1, Turns DEF AnswersCalls, MessageKinds, Places
<1>13. CASE AnswersText
  <2>1. loop' \in Loops
    <3>1. NextTurn \in Loops
      BY <1>13, Turns DEF AnswersText
    <3>2. NextTurn.nudges = loop.nudges /\ loop.nudges \in 0..MaxNudges
      BY DEF NextTurn, Loops
    <3>3. loop.nudges < MaxNudges => NextTurn.nudges + 1 \in 0..MaxNudges
      BY <3>2, LoopAssumption
    <3>. QED
      BY <1>13, <3>1, <3>2, <3>3, Updates DEF AnswersText
  <2>2. messages' \in Seq(MessageKinds)
    BY <1>13, Turns DEF AnswersText, MessageKinds
  <2>. QED
    BY <1>13, <2>1, <2>2 DEF AnswersText, Places
<1>14. CASE AnswersNothing
  BY <1>14, Turns DEF AnswersNothing, MessageKinds, Places
<1>15. CASE TurnEnds
  <2>1. loop' \in Loops
    <3>1. /\ loop.streak \in 0..MaxStreak /\ loop.streak < MaxStreak
          /\ loop.nudges \in 0..MaxNudges /\ loop.idle \in Nat
      BY <1>15 DEF TurnEnds, StallInv, Loops
    <3>2. \A n \in 0..MaxStreak, m \in 0..MaxNudges, k \in Nat :
            [loop EXCEPT !.streak = n, !.nudges = m, !.idle = k] \in Loops
      BY DEF Loops
    <3>. DEFINE streak == IF loop.wroteNow THEN 0 ELSE loop.streak + 1
                idle == IF loop.wroteNow THEN 0 ELSE loop.idle + 1
                pushed == streak >= MaxStreak /\ loop.nudges < MaxNudges
                n == IF pushed THEN 0 ELSE streak
                m == IF pushed THEN loop.nudges + 1 ELSE loop.nudges
    <3>3. n \in 0..MaxStreak /\ m \in 0..MaxNudges /\ idle \in Nat
      <4>1. idle \in Nat
        BY ONLY <3>1
      <4>2. streak \in 0..MaxStreak
        BY ONLY <3>1, LoopAssumption
      <4>. HIDE DEF streak
      <4>3. n \in 0..MaxStreak
        BY ONLY <4>2, LoopAssumption
      <4>4. m \in 0..MaxNudges
        BY ONLY <3>1, LoopAssumption
      <4>. QED
        BY ONLY <4>1, <4>3, <4>4
    <3>4. loop' = [loop EXCEPT !.streak = n, !.nudges = m, !.idle = idle]
      BY <1>15 DEF TurnEnds
    <3>. HIDE DEF n, m, idle
    <3>. QED
      BY <3>2, <3>3, <3>4
  <2>2. messages' \in Seq(MessageKinds)
    BY <1>15, Turns DEF TurnEnds, MessageKinds
  <2>. QED
    BY <1>15, <2>1, <2>2 DEF TurnEnds, Places
<1>16. CASE CallStep
  <2>1. loop' \in Loops
    <3>1. CASE WriteFile
      BY <3>1, Turns DEF WriteFile, Loops
    <3>. QED
      BY <1>16, <3>1, Turns DEF CallStep, Read, OtherTool, JobTool, ReportFindings
  <2>2. seen' \subseteq Reads /\ stale' \subseteq Reads \X {"agent", "job"}
    BY <1>16 DEF CallStep, Read, WriteFile, OtherTool, JobTool, ReportFindings, Changes
  <2>3. report' \in Reports /\ verdict' \in Reports \cup {"fixed"}
    BY <1>16 DEF CallStep, Read, WriteFile, OtherTool, JobTool, ReportFindings, Reports
  <2>4. UNCHANGED <<phase, at, messages>>
    BY <1>16 DEF CallStep, Read, WriteFile, OtherTool, JobTool, ReportFindings
  <2>. QED
    BY <2>1, <2>2, <2>3, <2>4
<1>17. CASE JobsRun \/ JobWrites
  BY <1>17 DEF JobsRun, JobWrites, Changes
<1>18. CASE Stop \/ Crash
  BY <1>18 DEF Stop, Crash, Places, Reports
<1>19. CASE UNCHANGED vars
  BY <1>19 DEF vars
<1>. QED
  BY <1>7, <1>8, <1>9, <1>10, <1>11, <1>12, <1>13, <1>14, <1>15, <1>16, <1>17, <1>18, <1>19
     DEF Next, SequenceStep, LoopStep

-----------------------------------------------------------------------------
\* The streak, the nudges and the turns without a write go together.
LEMMA StallStep == TypeOK /\ StallInv /\ [Next]_vars => StallInv'
<1>. SUFFICES ASSUME TypeOK, StallInv, [Next]_vars PROVE StallInv'
  OBVIOUS
<1>1. /\ loop \in Loops /\ loop.nudges \in Nat /\ loop.streak \in Nat /\ loop.idle \in Nat
      /\ loop.idle <= loop.streak + MaxStreak * loop.nudges
      /\ MaxStreak \in Nat /\ MaxStreak > 0
  BY LoopAssumption DEF TypeOK, Loops, StallInv
<1>2. MaxStreak * loop.nudges \in Nat
      /\ MaxStreak * (loop.nudges + 1) = MaxStreak * loop.nudges + MaxStreak
  BY <1>1, Products
<1>3. ASSUME loop' = FreshLoop PROVE StallInv'
  <2>1. loop'.idle = 0 /\ loop'.streak = 0 /\ loop'.nudges = 0
    BY <1>3 DEF FreshLoop
  <2>. QED
    BY <1>1, <2>1 DEF StallInv
<1>4. ASSUME UNCHANGED loop, at' \in {"top", "calls"} => at \in {"top", "calls"}
      PROVE  StallInv'
  BY <1>4 DEF StallInv
<1>5. ASSUME at = "top", \/ loop' = NextTurn
                         \/ loop' = [NextTurn EXCEPT !.nudges = @ + 1]
                         \/ loop' = [NextTurn EXCEPT !.calls = 0, !.wroteNow = FALSE]
      PROVE  StallInv'
  <2>1. /\ loop'.idle = loop.idle /\ loop'.streak = loop.streak
        /\ loop'.nudges = loop.nudges \/ loop'.nudges = loop.nudges + 1
    BY <1>1, <1>5 DEF NextTurn, Loops
  <2>2. loop.streak < MaxStreak
    BY <1>5 DEF StallInv
  <2>3. loop'.idle <= loop'.streak + MaxStreak * loop'.nudges
    BY <1>1, <1>2, <2>1
  <2>. QED
    BY <2>1, <2>2, <2>3 DEF StallInv
<1>6. ASSUME CallStep PROVE StallInv'
  <2>1. at' = at /\ loop'.idle = loop.idle /\ loop'.streak = loop.streak
        /\ loop'.nudges = loop.nudges
    BY <1>1, <1>6 DEF CallStep, Read, WriteFile, OtherTool, JobTool, ReportFindings,
       OneCall, Loops
  <2>. QED
    BY <2>1 DEF StallInv
<1>7. ASSUME TurnEnds PROVE StallInv'
  <2>. DEFINE streak == IF loop.wroteNow THEN 0 ELSE loop.streak + 1
              idle == IF loop.wroteNow THEN 0 ELSE loop.idle + 1
              pushed == streak >= MaxStreak /\ loop.nudges < MaxNudges
  <2>1. /\ loop'.streak = IF pushed THEN 0 ELSE streak
        /\ loop'.nudges = IF pushed THEN loop.nudges + 1 ELSE loop.nudges
        /\ loop'.idle = idle
        /\ at' = "left" \/ (at' = "top" /\ (pushed \/ streak < MaxStreak))
    BY <1>1, <1>7 DEF TurnEnds, Loops
  <2>2. loop.streak < MaxStreak
    BY <1>7 DEF TurnEnds, StallInv
  <2>3. idle <= streak + MaxStreak * loop.nudges /\ streak <= MaxStreak /\ streak \in Nat
    BY <1>1, <1>2, <2>2
  <2>4. loop'.idle <= loop'.streak + MaxStreak * loop'.nudges
    BY <1>1, <1>2, <2>1, <2>3
  <2>5. at' \in {"top", "calls"} => loop'.streak < MaxStreak
    BY <1>1, <2>1
  <2>. QED
    BY <2>4, <2>5 DEF StallInv
<1>8. ASSUME SequenceStep PROVE StallInv'
  <2>1. CASE Cleanup
    BY <1>4, <2>1 DEF Cleanup, talk
  <2>. QED
    BY <1>3, <1>8, <2>1 DEF SequenceStep, StartRun, PhaseEnds, SequenceStops, EnterPhase, Forget
<1>9. ASSUME LoopStep PROVE StallInv'
  <2>1. CASE StopsByUser \/ ReachesLimit \/ SendFails
    BY <1>3, <1>4, <2>1 DEF StopsByUser, ReachesLimit, SendFails, Forget, talk
  <2>2. CASE AnswersCalls \/ AnswersText \/ AnswersNothing
    BY <1>5, <2>2 DEF AnswersCalls, AnswersText, AnswersNothing, Turning
  <2>. QED
    BY <1>7, <1>9, <2>1, <2>2 DEF LoopStep
<1>10. ASSUME JobsRun \/ JobWrites \/ Stop \/ Crash \/ UNCHANGED vars PROVE StallInv'
  BY <1>3, <1>4, <1>10 DEF JobsRun, JobWrites, Stop, Crash, Forget, vars, talk
<1>. QED
  BY <1>6, <1>8, <1>9, <1>10 DEF Next

\* The counters stay below what they bound.
LEMMA StallBound == TypeOK /\ StallInv => StallBounded
<1>. SUFFICES ASSUME TypeOK, StallInv PROVE StallBounded
  OBVIOUS
<1>1. /\ loop.nudges \in Nat /\ loop.nudges <= MaxNudges /\ loop.idle \in Nat
      /\ loop.streak \in Nat /\ loop.streak <= MaxStreak
      /\ loop.idle <= loop.streak + MaxStreak * loop.nudges
  BY LoopAssumption DEF TypeOK, Loops, StallInv
<1>2. /\ MaxStreak * loop.nudges \in Nat /\ MaxStreak * MaxNudges \in Nat
      /\ MaxStreak * loop.nudges <= MaxStreak * MaxNudges
      /\ MaxStreak * (MaxNudges + 1) = MaxStreak * MaxNudges + MaxStreak
  BY <1>1, Products, LoopAssumption
<1>. QED
  BY <1>1, <1>2, LoopAssumption DEF StallBounded

-----------------------------------------------------------------------------
\* A call that is not read-only forgets every read; one that is read is fresh.
LEMMA HonestStep == TypeOK /\ NoticeIsHonest /\ [Next]_vars => NoticeIsHonest'
<1>. SUFFICES ASSUME TypeOK, NoticeIsHonest, [Next]_vars PROVE NoticeIsHonest'
  OBVIOUS
<1>1. ASSUME seen' = {} \/ UNCHANGED <<seen, stale>> PROVE NoticeIsHonest'
  BY <1>1 DEF NoticeIsHonest
<1>2. ASSUME NEW r \in Reads, Read(r) PROVE NoticeIsHonest'
  BY <1>2 DEF Read, NoticeIsHonest
<1>3. CASE JobWrites
  <2>1. seen' = seen
    BY <1>3 DEF JobWrites
  <2>2. \A r \in Reads : <<r, "agent">> \in stale' => <<r, "agent">> \in stale
    BY <1>3 DEF JobWrites, Changes
  <2>. QED
    BY <2>1, <2>2 DEF NoticeIsHonest, TypeOK
<1>4. CASE SequenceStep \/ LoopStep
  BY <1>1, <1>4 DEF SequenceStep, LoopStep, StartRun, PhaseEnds, SequenceStops, Cleanup,
     EnterPhase, Forget, StopsByUser, ReachesLimit, AnswersCalls, AnswersText,
     AnswersNothing, SendFails, TurnEnds, talk
<1>5. CASE WriteFile \/ OtherTool \/ JobTool \/ ReportFindings
  BY <1>1, <1>5 DEF WriteFile, OtherTool, JobTool, ReportFindings
<1>6. CASE JobsRun \/ Stop \/ Crash \/ UNCHANGED vars
  BY <1>1, <1>6 DEF JobsRun, Stop, Crash, Forget, vars, talk
<1>. QED
  BY <1>2, <1>3, <1>4, <1>5, <1>6 DEF Next, CallStep

-----------------------------------------------------------------------------
\* The report a validation is judged by is the one it filed itself, and what
\* comes after it had a clean one or a fix pass.
LEMMA SignedStep ==
    TypeOK /\ ReportIsOurs /\ SignedOff /\ [Next]_vars => (ReportIsOurs /\ SignedOff)'
<1>. SUFFICES ASSUME TypeOK, ReportIsOurs, SignedOff, [Next]_vars
              PROVE  (ReportIsOurs /\ SignedOff)'
  OBVIOUS
<1>. USE DEF Underway, ReportIsOurs, SignedOff
<1>1. ASSUME UNCHANGED <<phase, report, verdict>>, at \in {"top", "calls"},
             at' \in {"top", "calls", "left", "over"}
      PROVE  (ReportIsOurs /\ SignedOff)'
  BY <1>1
<1>2. CASE StartRun
  <2>1. CASE \E p \in {"schema", "design", "execute"} : EnterPhase(p, report)
    BY <2>1 DEF EnterPhase
  <2>2. CASE at' = "over" /\ phase' = "execute"
    BY <2>2
  <2>. QED
    BY <1>2, <2>1, <2>2 DEF StartRun, Successors
<1>3. CASE PhaseEnds
  <2>1. PICK p \in IF NeedsFix THEN {"fix"} ELSE Successors[phase] \ Unplanned :
          IF p # "done" THEN EnterPhase(p, Taken)
          ELSE at' = "done" /\ Forget /\ report' = Taken /\ UNCHANGED <<phase, verdict>>
    BY <1>3 DEF PhaseEnds
  <2>2. phase \in Phases /\ at = "left"
    BY <1>3 DEF PhaseEnds, TypeOK
  <2>3. p = "fix" \/ p \in Successors[phase]
    BY <2>1
  <2>4. CASE p \in {"test", "security", "done"}
    <3>1. phase \in {"validate", "fix", "test", "security"}
      BY <2>2, <2>3, <2>4 DEF Successors, Phases
    <3>2. verdict \in {"clean", "fixed"}
      BY <2>1, <2>2, <2>4, <3>1 DEF NeedsFix
    <3>3. CASE p = "done"
      <4>1. at' = "done" /\ UNCHANGED <<phase, verdict>>
        BY <2>1, <3>3
      <4>2. phase = "fix" => verdict = "fixed"
        BY <2>2
      <4>. QED
        BY <3>2, <4>1, <4>2
    <3>4. CASE p \in {"test", "security"}
      BY <2>1, <3>2, <3>4 DEF EnterPhase
    <3>. QED
      BY <2>4, <3>3, <3>4
  <2>5. CASE p \notin {"test", "security", "done"}
    BY <2>1, <2>5 DEF EnterPhase, Review
  <2>. QED
    BY <2>4, <2>5
<1>4. CASE SequenceStops
  BY <1>4 DEF SequenceStops
<1>5. CASE Cleanup \/ Crash
  BY <1>5 DEF Cleanup, Crash
<1>6. CASE LoopStep
  BY <1>1, <1>6 DEF LoopStep, StopsByUser, ReachesLimit, AnswersCalls, AnswersText,
     AnswersNothing, SendFails, TurnEnds, Turning
<1>7. CASE CallStep
  <2>1. CASE ReportFindings
    <3>1. at = "calls" /\ at' = at /\ phase' = phase
          /\ verdict' = IF phase = "validate" THEN report' ELSE verdict
      BY <2>1 DEF ReportFindings, Calling
    <3>. QED
      BY <3>1
  <2>. QED
    BY <1>1, <1>7, <2>1 DEF CallStep, Read, WriteFile, OtherTool, JobTool, Calling
<1>8. CASE JobsRun \/ JobWrites \/ Stop \/ UNCHANGED vars
  BY <1>8 DEF JobsRun, JobWrites, Stop, vars
<1>. QED
  BY <1>2, <1>3, <1>4, <1>5, <1>6, <1>7, <1>8 DEF Next, SequenceStep

-----------------------------------------------------------------------------
\* A job that runs is in the table or excused; Cleanup empties both.
LEMMA JobsStep ==
    TypeOK /\ JobsEndWithRun /\ TableIsEmptied /\ [Next]_vars
        => (JobsEndWithRun /\ TableIsEmptied)'
<1>. SUFFICES ASSUME TypeOK, JobsEndWithRun, TableIsEmptied, [Next]_vars
              PROVE  (JobsEndWithRun /\ TableIsEmptied)'
  OBVIOUS
<1>. USE DEF JobsEndWithRun, TableIsEmptied
<1>1. ASSUME UNCHANGED <<registered, excused>>, leaders' \subseteq leaders,
             at' = "idle" => at = "idle"
      PROVE  (JobsEndWithRun /\ TableIsEmptied)'
  BY <1>1
<1>2. CASE Cleanup
  BY <1>2 DEF Cleanup, KillAllJobs, Live
<1>3. CASE Crash
  BY <1>3 DEF Crash, LoseTable
<1>4. CASE JobTool
  <2>1. at' = "calls"
    BY <1>4 DEF JobTool, Calling
  <2>2. PICK j \in Jobs : StartJob(j) \/ KillJob(j)
    BY <1>4 DEF JobTool
  <2>. QED
    BY <2>1, <2>2 DEF StartJob, KillJob
<1>5. CASE JobsRun
  BY <1>1, <1>5 DEF JobsRun, JobMoves, Forks, LeaderEnds, ChildEnds
<1>6. CASE StartRun \/ PhaseEnds \/ SequenceStops
  BY <1>1, <1>6 DEF StartRun, PhaseEnds, SequenceStops, EnterPhase, jobVars
<1>7. CASE LoopStep
  BY <1>1, <1>7 DEF LoopStep, StopsByUser, ReachesLimit, AnswersCalls, AnswersText,
     AnswersNothing, SendFails, TurnEnds, jobVars
<1>8. CASE WriteFile \/ OtherTool \/ ReportFindings \/ \E r \in Reads : Read(r)
  BY <1>1, <1>8 DEF WriteFile, OtherTool, ReportFindings, Read, jobVars
<1>9. CASE JobWrites \/ Stop \/ UNCHANGED vars
  BY <1>1, <1>9 DEF JobWrites, Stop, vars, jobVars
<1>. QED
  BY <1>2, <1>3, <1>4, <1>5, <1>6, <1>7, <1>8, <1>9 DEF Next, SequenceStep, CallStep

-----------------------------------------------------------------------------
\* A message put after a conversation keeps it chained if it is a result just
\* when a call waits for one.
LEMMA Extended ==
    ASSUME NEW m \in Seq(MessageKinds), NEW k \in MessageKinds,
           Chained(m), EndsOpen(m) <=> k = "results"
    PROVE  /\ Append(m, k) \in Seq(MessageKinds)
           /\ Chained(Append(m, k))
           /\ EndsOpen(Append(m, k)) <=> k = "call"
<1>1. /\ Append(m, k) \in Seq(MessageKinds)
      /\ Len(Append(m, k)) = Len(m) + 1 /\ Append(m, k)[Len(m) + 1] = k
      /\ \A i \in 1..Len(m) : Append(m, k)[i] = m[i]
      /\ Len(m) \in Nat
  OBVIOUS
<1>2. ASSUME NEW i \in 1..Len(m)
      PROVE  Append(m, k)[i] = "call" <=> Append(m, k)[i + 1] = "results"
  <2>1. CASE i = Len(m)
    BY <1>1, <2>1 DEF EndsOpen
  <2>2. CASE i < Len(m)
    <3>1. i \in 1..(Len(m) - 1) /\ i + 1 \in 1..Len(m)
      BY <1>1, <2>2
    <3>. QED
      BY <1>1, <3>1 DEF Chained
  <2>. QED
    BY <1>1, <2>1, <2>2
<1>3. Len(Append(m, k)) - 1 = Len(m) /\ Len(Append(m, k)) > 0
  BY <1>1
<1>. QED
  BY <1>1, <1>2, <1>3 DEF Chained, EndsOpen

\* What is kept of a conversation is as chained as the whole and ends as it.
LEMMA KeepChained ==
    ASSUME NEW m \in Seq(MessageKinds), Chained(m)
    PROVE  Chained(Keep(m)) /\ (EndsOpen(Keep(m)) <=> EndsOpen(m))
<1>. DEFINE n == 2 * HistoryPairs
<1>1. n \in Nat /\ n > 0 /\ Len(m) \in Nat
  BY LoopAssumption
<1>2. CASE Len(m) <= n
  BY <1>2 DEF Keep
<1>3. CASE Len(m) > n
  <2>. DEFINE d == Len(m) - n
              s == SubSeq(m, d + 1, Len(m))
  <2>1. Keep(m) = s
    BY <1>1, <1>3 DEF Keep
  <2>2. d \in Nat /\ d + n = Len(m)
    BY <1>1, <1>3
  <2>3. Len(s) = n /\ \A i \in 1..n : s[i] = m[d + i]
    <3>1. d + 1 \in 1..Len(m) + 1 /\ Len(m) \in (d + 1 - 1)..Len(m)
      BY <1>1, <2>2
    <3>2. \A i \in (d + 1)..Len(m) : m[i] \in MessageKinds
      BY <2>2
    <3>3. /\ Len(s) = IF d + 1 <= Len(m) THEN Len(m) - (d + 1) + 1 ELSE 0
          /\ \A i \in 1..(Len(m) - (d + 1) + 1) : s[i] = m[d + 1 + i - 1]
      BY <2>2, <3>1, <3>2, SubSeqProperties
    <3>4. Len(m) - (d + 1) + 1 = n /\ d + 1 <= Len(m)
      BY <1>1, <2>2
    <3>5. \A i \in 1..n : d + 1 + i - 1 = d + i
      BY <1>1, <2>2
    <3>. HIDE DEF d, s, n
    <3>. QED
      BY <3>3, <3>4, <3>5
  <2>. HIDE DEF s
  <2>4. Chained(s)
    <3>1. SUFFICES ASSUME NEW i \in 1..(n - 1) PROVE s[i] = "call" <=> s[i + 1] = "results"
      BY <2>3 DEF Chained
    <3>2. /\ i \in 1..n /\ i + 1 \in 1..n
          /\ d + i \in 1..(Len(m) - 1) /\ d + (i + 1) = (d + i) + 1
      BY <1>1, <2>2
    <3>3. m[d + i] = "call" <=> m[(d + i) + 1] = "results"
      BY <3>2 DEF Chained
    <3>. QED
      BY <2>3, <3>2, <3>3
  <2>5. EndsOpen(s) <=> EndsOpen(m)
    <3>1. s[n] = m[Len(m)] /\ Len(s) > 0 /\ Len(m) > 0
      BY <1>1, <1>3, <2>2, <2>3
    <3>. QED
      BY <2>3, <3>1 DEF EndsOpen
  <2>. QED
    BY <2>1, <2>4, <2>5
<1>. QED
  BY <1>1, <1>2, <1>3

\* A loop begins with nothing said.
LEMMA EmptyChained == Chained(<< >>) /\ ~EndsOpen(<< >>)
BY DEF Chained, EndsOpen

\* Every request finds the last call answered, every call its turn.
LEMMA ConversationStep == TypeOK /\ ConversationInv /\ [Next]_vars => ConversationInv'
<1>. SUFFICES ASSUME TypeOK, ConversationInv, [Next]_vars PROVE ConversationInv'
  OBVIOUS
<1>1. messages \in Seq(MessageKinds)
  BY DEF TypeOK
<1>2. ASSUME UNCHANGED <<messages, at>> PROVE ConversationInv'
  BY <1>2 DEF ConversationInv
<1>3. ASSUME at' \notin {"top", "calls"} PROVE ConversationInv'
  BY <1>3 DEF ConversationInv
<1>4. ASSUME messages' = << >>, at' = "top" PROVE ConversationInv'
  BY <1>4, EmptyChained DEF ConversationInv
<1>5. ASSUME NEW k \in MessageKinds, at = IF k = "results" THEN "calls" ELSE "top"
      PROVE  /\ Append(messages, k) \in Seq(MessageKinds)
             /\ Chained(Append(messages, k))
             /\ EndsOpen(Append(messages, k)) <=> k = "call"
  <2>1. Chained(messages) /\ (EndsOpen(messages) <=> k = "results")
    BY <1>5 DEF ConversationInv
  <2>. QED
    BY <1>1, <2>1, Extended
<1>6. ASSUME NEW k \in MessageKinds, at = IF k = "results" THEN "calls" ELSE "top",
             messages' = Keep(Append(messages, k)),
             at' = "calls" => k = "call", at' = "top" => k # "call"
      PROVE  ConversationInv'
  <2>1. Chained(messages') /\ (EndsOpen(messages') <=> k = "call")
    BY <1>5, <1>6, KeepChained
  <2>. QED
    BY <1>6, <2>1 DEF ConversationInv
<1>7. CASE AnswersText
  <2>1. CASE at' = "top"
    <3>. DEFINE m == Append(messages, "say")
    <3>1. at = "top" /\ messages' = Keep(messages \o <<"say", "user">>)
      BY <1>7, <2>1 DEF AnswersText, Turning
    <3>2. m \in Seq(MessageKinds) /\ Chained(m) /\ ~EndsOpen(m)
      BY <1>5, <3>1 DEF MessageKinds
    <3>3. /\ Append(m, "user") \in Seq(MessageKinds)
          /\ Chained(Append(m, "user")) /\ ~EndsOpen(Append(m, "user"))
      <4>. HIDE DEF m
      <4>. QED
        BY <3>2, Extended DEF MessageKinds
    <3>4. messages \o <<"say", "user">> = Append(m, "user")
      BY <1>1
    <3>5. Chained(messages') /\ ~EndsOpen(messages')
      BY <3>1, <3>3, <3>4, KeepChained
    <3>. QED
      BY <2>1, <3>5 DEF ConversationInv
  <2>2. at' \in {"top", "left"}
    BY <1>7 DEF AnswersText
  <2>. QED
    BY <1>3, <2>1, <2>2
<1>8. CASE AnswersCalls \/ AnswersNothing \/ TurnEnds
  <2>1. CASE AnswersCalls
    BY <1>6, <2>1 DEF AnswersCalls, Turning, MessageKinds
  <2>2. CASE AnswersNothing
    BY <1>6, <2>2 DEF AnswersNothing, Turning, MessageKinds
  <2>3. CASE TurnEnds
    <3>1. at = "calls" /\ messages' = Keep(Append(messages, "results")) /\ at' \in {"left", "top"}
      BY <2>3 DEF TurnEnds
    <3>. QED
      BY <1>6, <3>1 DEF MessageKinds
  <2>. QED
    BY <1>8, <2>1, <2>2, <2>3
<1>9. CASE StopsByUser \/ ReachesLimit \/ SendFails
  BY <1>3, <1>9 DEF StopsByUser, ReachesLimit, SendFails
<1>10. CASE SequenceStep
  BY <1>3, <1>4, <1>10 DEF SequenceStep, StartRun, PhaseEnds, SequenceStops, Cleanup,
     EnterPhase, Forget
<1>11. CASE CallStep
  BY <1>2, <1>11 DEF CallStep, Read, WriteFile, OtherTool, JobTool, ReportFindings
<1>12. CASE JobsRun \/ JobWrites \/ Stop \/ Crash \/ UNCHANGED vars
  BY <1>2, <1>3, <1>12 DEF JobsRun, JobWrites, Stop, Crash, vars, talk
<1>. QED
  BY <1>7, <1>8, <1>9, <1>10, <1>11, <1>12 DEF Next, LoopStep

\* A window of a chained conversation that waits for no result is well formed:
\* only its first message can be a result without a call, and it is skipped.
LEMMA WindowWellFormed ==
    ASSUME messages \in Seq(MessageKinds), Chained(messages), ~EndsOpen(messages)
    PROVE  WellFormed(Trimmed)
<1>. DEFINE n == Len(messages)
            starts == {i \in 1..n : messages[i] # "results"}
            first == CHOOSE i \in starts : \A j \in starts : i <= j
<1>1. n \in Nat
  OBVIOUS
<1>2. Trimmed = IF starts = {} THEN << >> ELSE SubSeq(messages, first, n)
  BY DEF Trimmed
<1>3. CASE starts = {}
  BY <1>2, <1>3 DEF WellFormed
<1>4. CASE starts # {}
  <2>1. n >= 1
    BY <1>1, <1>4
  <2>2. messages[1] = "results" /\ n >= 2 => messages[2] # "results"
    BY <1>1 DEF Chained
  <2>3. messages[1] = "results" => n >= 2
    BY <1>1, <1>4, <2>1
  <2>4. PICK f \in starts : f \in {1, 2} /\ \A j \in starts : f <= j
    <3>1. CASE messages[1] # "results"
      <4>1. 1 \in starts /\ \A j \in starts : 1 <= j
        BY <1>1, <2>1, <3>1
      <4>. QED
        BY <4>1
    <3>2. CASE messages[1] = "results"
      <4>1. 2 \in starts /\ \A j \in starts : j # 1 /\ j \in 1..n
        BY <1>1, <2>2, <2>3, <3>2
      <4>2. \A j \in starts : 2 <= j
        BY <1>1, <4>1
      <4>. QED
        BY <4>1, <4>2
    <3>. QED
      BY <3>1, <3>2
  <2>5. first \in starts /\ \A j \in starts : first <= j
    <3>. HIDE DEF starts
    <3>. QED
      BY <2>4
  <2>. DEFINE w == SubSeq(messages, first, n)
  <2>6. first \in 1..n /\ messages[first] # "results"
    BY <2>5
  <2>. HIDE DEF first
  <2>7. Len(w) = n - first + 1 /\ \A i \in 1..(n - first + 1) : w[i] = messages[first + i - 1]
    <3>1. first \in 1..n + 1 /\ n \in (first - 1)..n /\ first <= n
      BY <1>1, <2>6
    <3>2. \A i \in first..n : messages[i] \in MessageKinds
      BY <1>1, <2>6
    <3>. QED
      BY <3>1, <3>2, SubSeqProperties
  <2>. HIDE DEF w
  <2>8. ASSUME NEW i \in 1..Len(w)
        PROVE  /\ w[i] = "results" => i > 1 /\ w[i - 1] = "call"
               /\ w[i] = "call" => i < Len(w) /\ w[i + 1] = "results"
    <3>. DEFINE p == first + i - 1
    <3>1. p \in 1..n /\ w[i] = messages[p] /\ p >= first
      BY <1>1, <2>6, <2>7
    <3>2. CASE w[i] = "results"
      <4>1. p # first
        BY <2>6, <3>1, <3>2
      <4>2. p - 1 \in 1..(n - 1) /\ (p - 1) + 1 = p
        BY <1>1, <2>6, <3>1, <4>1
      <4>3. messages[p - 1] = "call"
        BY <3>1, <3>2, <4>2 DEF Chained
      <4>4. i > 1 /\ i - 1 \in 1..(n - first + 1) /\ first + (i - 1) - 1 = p - 1
        BY <1>1, <2>6, <2>7, <4>1
      <4>. QED
        BY <2>7, <3>2, <4>3, <4>4
    <3>3. CASE w[i] = "call"
      <4>0. messages[n] # "call"
        BY <2>1 DEF EndsOpen
      <4>1. p # n
        <5>. HIDE DEF p, n
        <5>. QED
          BY <3>1, <3>3, <4>0
      <4>2. p \in 1..(n - 1)
        BY <1>1, <3>1, <4>1
      <4>3. messages[p + 1] = "results"
        BY <3>1, <3>3, <4>2 DEF Chained
      <4>4. i < Len(w) /\ i + 1 \in 1..(n - first + 1) /\ first + (i + 1) - 1 = p + 1
        <5>1. i \in 1..(n - first + 1) /\ Len(w) = n - first + 1
          BY <2>7
        <5>2. first + i - 1 < n
          BY <4>2, <1>1
        <5>. HIDE DEF n
        <5>. QED
          BY <1>1, <2>6, <5>1, <5>2
      <4>. QED
        BY <2>7, <3>3, <4>3, <4>4
    <3>. QED
      BY <3>2, <3>3
  <2>9. Trimmed = w
    BY <1>2, <1>4 DEF w
  <2>. QED
    BY <2>8, <2>9 DEF WellFormed
<1>. QED
  BY <1>3, <1>4

-----------------------------------------------------------------------------
LEMMA NextInv == IInv /\ [Next]_vars => IInv'
BY TypeStep, StallStep, HonestStep, SignedStep, JobsStep, ConversationStep, StallBound
   DEF IInv

LEMMA Invariance == Spec => []IInv
BY InitInv, NextInv, PTL DEF Spec

\* The state of a run has its types.
THEOREM TypeCorrect == Spec => []TypeOK
<1>1. IInv => TypeOK
  BY DEF IInv
<1>. QED
  BY Invariance, <1>1, PTL

\* Whatever the model answers and wherever the window cuts, what a turn sends
\* pairs every call with its results and every results with their call.
THEOREM RequestsStayWellFormed == Spec => []RequestsWellFormed
<1>1. IInv => RequestsWellFormed
  <2>. SUFFICES ASSUME IInv, at = "top" PROVE WellFormed(Trimmed)
    BY DEF RequestsWellFormed
  <2>1. messages \in Seq(MessageKinds) /\ Chained(messages) /\ ~EndsOpen(messages)
    BY DEF IInv, TypeOK, ConversationInv
  <2>. QED
    BY <2>1, WindowWellFormed
<1>. QED
  BY Invariance, <1>1, PTL

\* A loop that writes nothing is over after one streak more than it has nudges.
THEOREM StallIsBounded == Spec => []StallBounded
<1>1. IInv => StallBounded
  BY StallBound DEF IInv
<1>. QED
  BY Invariance, <1>1, PTL

\* A read that is answered with "has not changed since" has not been changed
\* by the agent since.
THEOREM NoticeHonest == Spec => []NoticeIsHonest
<1>1. IInv => NoticeIsHonest
  BY DEF IInv
<1>. QED
  BY Invariance, <1>1, PTL

\* No run ends as done, or begins a review after the validation, on a report
\* that its own validator did not file.
THEOREM OnlySignedOffEnds == Spec => []SignedOff
<1>1. IInv => SignedOff
  BY DEF IInv
<1>. QED
  BY Invariance, <1>1, PTL

\* The process of a job ends with the run that started it, or its kill timed
\* out, or its worker was lost.
THEOREM JobsEnd == Spec => []JobsEndWithRun
<1>1. IInv => JobsEndWithRun
  BY DEF IInv
<1>. QED
  BY Invariance, <1>1, PTL
=============================================================================
