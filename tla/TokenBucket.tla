------------------------------ MODULE TokenBucket ------------------------------
(***************************************************************************)
(* The monthly token bucket.  A metered call reads what is used, is served *)
(* by a model that costs or by the free one, and adds what it consumed to  *)
(* the bucket of the month it is then: three separate steps, of several    *)
(* builds, updates, CLI and API calls at once.  The tier a call works with *)
(* is whichever get_user_tier returned to it (module Subscription).        *)
(***************************************************************************)
EXTENDS Naturals, FiniteSets, FiniteSetsExt

CONSTANTS
    Callers,      \* metered calls in flight: builds, updates, CLI and API calls
    Tiers,        \* the tiers of TIERS
    Budget,       \* monthly_tokens of every tier
    Cost,         \* the tokens of the largest call
    FreeModel,    \* whether OPENROUTER_API_KEY is set
    MaxMonth,     \* bound: the last month
    MaxServed     \* bound: calls served

ASSUME BucketAssumption ==
    /\ IsFiniteSet(Callers) /\ IsFiniteSet(Tiers) /\ "free" \in Tiers
    /\ Budget \in [Tiers -> Nat \ {0}]
    /\ Cost \in Nat \ {0} /\ FreeModel \in BOOLEAN
    /\ MaxMonth \in Nat /\ MaxServed \in Nat

VARIABLES
    month,    \* _period()
    used,     \* users/{id}/usage/{month}.tokens
    caller,   \* where each metered call is
    full,     \* history: tokens consumed of the models that cost, per month
    missed,   \* history: tokens consumed that no record was made of, per month
    served    \* history: calls served

bucketVars == <<month, used, caller, full, missed, served>>

Months == 0 .. MaxMonth

BucketTyped ==
    /\ month \in Months
    /\ used \in [Months -> Nat] /\ full \in [Months -> Nat] /\ missed \in [Months -> Nat]
    /\ caller \in [Callers -> {"idle", "full", "free"}]
    /\ served \in 0 .. MaxServed

BucketInit ==
    /\ month = 0 /\ used = [m \in Months |-> 0] /\ full = used /\ missed = used
    /\ caller = [c \in Callers |-> "idle"] /\ served = 0

NextMonth ==
    /\ month < MaxMonth
    /\ month' = month + 1
    /\ UNCHANGED <<used, caller, full, missed, served>>

\* Variant: the budget is left when it is used up to the last token.
OverLimitBeyond(tier) == used[month] > Budget[tier]

OverLimit(tier) == used[month] >= Budget[tier]

\* evaluate_quota: proceed, go on with the free model, or refuse (a stutter).
Evaluate(c, tier) ==
    /\ caller[c] = "idle"
    /\ IF OverLimit(tier)
       THEN tier # "free" /\ FreeModel /\ caller' = [caller EXCEPT ![c] = "free"]
       ELSE caller' = [caller EXCEPT ![c] = "full"]
    /\ UNCHANGED <<month, used, full, missed, served>>

\* The model was called.  The record goes to the month it is written in; one
\* that fails is swallowed, or fails a run whose tokens are spent.
Serve(c, tokens) ==
    /\ caller[c] # "idle" /\ served < MaxServed
    /\ caller' = [caller EXCEPT ![c] = "idle"]
    /\ served' = served + 1
    /\ full' = [full EXCEPT ![month] = IF caller[c] = "full" THEN @ + tokens ELSE @]
    /\ \/ used' = [used EXCEPT ![month] = @ + tokens] /\ UNCHANGED missed
       \/ missed' = [missed EXCEPT ![month] = @ + tokens] /\ UNCHANGED used
    /\ UNCHANGED month

\* The model fails, or reports no tokens.
CallFails(c) ==
    /\ caller[c] # "idle"
    /\ caller' = [caller EXCEPT ![c] = "idle"]
    /\ UNCHANGED <<month, used, full, missed, served>>

BucketNext ==
    \/ NextMonth
    \/ \E c \in Callers :
         \/ \E tier \in Tiers : Evaluate(c, tier)
         \/ \E tokens \in 1 .. Cost : Serve(c, tokens)
         \/ CallFails(c)

BucketSpec == BucketInit /\ [][BucketNext]_bucketVars
-----------------------------------------------------------------------------
\* The check is not atomic with the call and its record, and still a month's
\* consumption of models that cost exceeds the largest budget by no more than
\* one call per caller and what no record was made of (evaluate_quota,
\* record_usage).
FullPriceBounded ==
    \A m \in Months :
      full[m] + 1 <= Max({Budget[t] : t \in Tiers}) + Cardinality(Callers) * Cost + missed[m]
===============================================================================
