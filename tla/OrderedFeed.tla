------------------------------ MODULE OrderedFeed ------------------------------
(***************************************************************************)
(* What the live log of a project comes to for whoever watches it, without *)
(* the channel, the history or the subscriptions that bring it about: a    *)
(* reader joins somewhere in the log, is shown one event after another up  *)
(* to the last there was when it joined, goes live at the end of the log   *)
(* and is shown what comes from there on.  What was published between is   *)
(* never shown to it.                                                      *)
(***************************************************************************)
EXTENDS Integers, Sequences

CONSTANT Readers

VARIABLES
    total,    \* events of the log, numbered from 1
    due,      \* the event each reader is shown next; 0 before it joins
    seen,     \* what each reader was shown
    joinedAt, \* how many events there were when it joined
    live      \* readers that have gone live

orderedVars == <<total, due, seen, joinedAt, live>>

OrderedInit ==
    /\ total = 0 /\ live = {}
    /\ due = [r \in Readers |-> 0] /\ joinedAt = [r \in Readers |-> 0]
    /\ seen = [r \in Readers |-> <<>>]

Grows == total' = total + 1 /\ UNCHANGED <<due, seen, joinedAt, live>>

Joins(r) ==
    /\ due[r] = 0
    /\ \E n \in 1 .. total + 1 : due' = [due EXCEPT ![r] = n]
    /\ joinedAt' = [joinedAt EXCEPT ![r] = total]
    /\ UNCHANGED <<total, seen, live>>

\* A reader that is not live is shown what there was when it joined.
IsShown(r) ==
    /\ due[r] \in 1 .. (IF r \in live THEN total ELSE joinedAt[r])
    /\ seen' = [seen EXCEPT ![r] = Append(@, due[r])]
    /\ due' = [due EXCEPT ![r] = @ + 1]
    /\ UNCHANGED <<total, joinedAt, live>>

\* The one gap: what was published since it joined.
GoesLive(r) ==
    /\ due[r] = joinedAt[r] + 1 /\ r \notin live
    /\ due' = [due EXCEPT ![r] = total + 1]
    /\ live' = live \cup {r}
    /\ UNCHANGED <<total, seen, joinedAt>>

OrderedNext == Grows \/ \E r \in Readers : Joins(r) \/ IsShown(r) \/ GoesLive(r)

OrderedSpec == OrderedInit /\ [][OrderedNext]_orderedVars
-----------------------------------------------------------------------------
\* No reader is shown an event twice, or after a later one.
InOrder ==
    \A r \in Readers : \A i, j \in 1 .. Len(seen[r]) : i < j => seen[r][i] < seen[r][j]
===============================================================================
