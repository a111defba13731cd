----------------------------- MODULE Subscription -----------------------------
(***************************************************************************)
(* A user's subscription: the payments that extend it, delivered by a      *)
(* webhook at least once, and its lapse, which every reader of the tier    *)
(* performs.  Each read and each write of Firestore is a step of its own.  *)
(***************************************************************************)
EXTENDS Naturals

CONSTANTS
    Readers,      \* requests and runs that ask for the user's tier
    Handlers,     \* webhook deliveries in flight
    Payments,     \* payments a user makes
    PaidTiers,    \* the tiers of TIERS other than the free one
    Term,         \* the 31 days a payment buys
    MaxTime,      \* bound: how far the clock runs
    MaxRepeats    \* bound: redeliveries of a payment that was handled

ASSUME SubscriptionAssumption ==
    /\ "free" \notin PaidTiers
    /\ Term \in Nat \ {0} /\ MaxTime \in Nat /\ MaxRepeats \in Nat

VARIABLES
    clock,       \* the time, in parts of a term
    plan,        \* tier and tier_expires_at of the user document; 0 is None
    reader,      \* readers about to write a lapse back, with what they read
    handler,     \* what each webhook delivery has read
    charge,      \* a payment's state at the provider, and the tier it buys
    owed,        \* history: until when the payments, each counted once, pay
    bought,      \* history: the tier of the latest payment
    repeats,     \* history: redeliveries
    overlapped   \* history: a write replaced a plan its writer had not read

subscriptionVars == <<clock, plan, reader, handler, charge, owed, bought, repeats,
                      overlapped>>

Free == [tier |-> "free", until |-> 0]
Plans == [tier : PaidTiers \cup {"free"}, until : Nat]
NoDelivery == [at |-> "idle", payment |-> "none", again |-> FALSE, seen |-> Free]

SubscriptionTyped ==
    /\ clock \in 0 .. MaxTime /\ plan \in Plans /\ owed \in Nat
    /\ reader \in [Readers -> [at : {"idle", "lapsing"}, seen : Plans]]
    /\ handler \in [Handlers -> [at : {"idle", "read"}, payment : Payments \cup {"none"},
                                 again : BOOLEAN, seen : Plans]]
    /\ charge \in [Payments -> [state : {"none", "paid", "handled"},
                                tier : PaidTiers \cup {"free"}]]
    /\ bought \in PaidTiers \cup {"free"}
    /\ repeats \in 0 .. MaxRepeats /\ overlapped \in BOOLEAN

SubscriptionInit ==
    /\ clock = 1 /\ plan = Free
    /\ reader = [r \in Readers |-> [at |-> "idle", seen |-> Free]]
    /\ handler = [h \in Handlers |-> NoDelivery]
    /\ charge = [p \in Payments |-> [state |-> "none", tier |-> "free"]]
    /\ owed = 0 /\ bought = "free" /\ repeats = 0 /\ overlapped = FALSE

PassTime ==
    /\ clock < MaxTime
    /\ clock' = clock + 1
    /\ UNCHANGED <<plan, reader, handler, charge, owed, bought, repeats, overlapped>>

HasLapsed(p) == p.tier # "free" /\ p.until < clock

\* get_user_tier returns what it read, or has a lapsed tier to write back.
ReadTier(r) ==
    /\ reader[r].at = "idle" /\ HasLapsed(plan)
    /\ reader' = [reader EXCEPT ![r] = [at |-> "lapsing", seen |-> plan]]
    /\ UNCHANGED <<clock, plan, handler, charge, owed, bought, repeats, overlapped>>

Lapse(r) ==
    /\ reader[r].at = "lapsing"
    /\ plan' = Free
    /\ reader' = [reader EXCEPT ![r] = [at |-> "idle", seen |-> Free]]
    /\ overlapped' = (overlapped \/ plan \notin {reader[r].seen, Free})
    /\ UNCHANGED <<clock, handler, charge, owed, bought, repeats>>

\* The checkout names the user and the tier; the user pays at the provider.
Pay(p, tier) ==
    /\ charge[p].state = "none"
    /\ charge' = [charge EXCEPT ![p] = [state |-> "paid", tier |-> tier]]
    /\ UNCHANGED <<clock, plan, reader, handler, owed, bought, repeats, overlapped>>

\* The provider delivers a payment, and again when it saw no answer to that.
Deliver(h, p) ==
    /\ handler[h].at = "idle" /\ charge[p].state # "none"
    /\ LET again == charge[p].state = "handled" IN
         /\ handler' = [handler EXCEPT ![h] =
              [at |-> "read", payment |-> p, again |-> again, seen |-> plan]]
         /\ repeats' = IF again THEN repeats + 1 ELSE repeats
         /\ repeats' <= MaxRepeats
    /\ charge' = [charge EXCEPT ![p].state = "handled"]
    /\ UNCHANGED <<clock, plan, reader, owed, bought, overlapped>>

\* The handler's write fails, or its process ends: the provider tries again.
DeliveryFails(h) ==
    /\ handler[h].at = "read"
    /\ handler' = [handler EXCEPT ![h] = NoDelivery]
    /\ charge' = IF handler[h].again THEN charge
                 ELSE [charge EXCEPT ![handler[h].payment].state = "paid"]
    /\ UNCHANGED <<clock, plan, reader, owed, bought, repeats, overlapped>>

LaterOf(t) == IF t > clock THEN t ELSE clock

\* Variant: a renewal starts on the day it is paid.
ExtendedAfresh(until) == clock + Term

Extended(until) == LaterOf(until) + Term

\* The write takes the expiry that was read, whatever the document holds now.
Activate(h) ==
    LET seen == handler[h].seen
        tier == charge[handler[h].payment].tier IN
    /\ handler[h].at = "read"
    /\ plan' = [tier |-> tier, until |-> Extended(seen.until)]
    /\ handler' = [handler EXCEPT ![h] = NoDelivery]
    /\ overlapped' = (overlapped \/ plan # seen)
    /\ owed' = IF handler[h].again THEN owed ELSE LaterOf(owed) + Term
    /\ bought' = IF handler[h].again THEN bought ELSE tier
    /\ UNCHANGED <<clock, reader, charge, repeats>>

SubscriptionNext ==
    \/ PassTime
    \/ \E r \in Readers : ReadTier(r) \/ Lapse(r)
    \/ \E p \in Payments : \E tier \in PaidTiers : Pay(p, tier)
    \/ \E h \in Handlers :
         Activate(h) \/ DeliveryFails(h) \/ \E p \in Payments : Deliver(h, p)

SubscriptionSpec == SubscriptionInit /\ [][SubscriptionNext]_subscriptionVars
-----------------------------------------------------------------------------
\* Time that was paid for is served: unless two writers of the document
\* overlapped, a user is in a paid tier for as long as the payments delivered
\* pay for, in the tier of the latest of them if none was delivered twice, and
\* for no longer than one more term per redelivery (_handle_payment_complete,
\* get_user_tier).
PaidTimeServed ==
    overlapped \/
      /\ clock <= owed =>
           /\ plan.tier # "free" /\ plan.until >= owed
           /\ repeats = 0 => plan.tier = bought
      /\ plan.until <= LaterOf(owed) + Term * repeats
===============================================================================
