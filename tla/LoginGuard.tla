------------------------------ MODULE LoginGuard ------------------------------
(***************************************************************************)
(* The per-account login lockout: a Redis counter of failed attempts whose *)
(* first increment starts its time to live.  The check, the password, the  *)
(* increment and the expiry are separate steps of several logins, and any  *)
(* Redis call may fail; it is then skipped.                                *)
(***************************************************************************)
EXTENDS Naturals, FiniteSets

CONSTANTS
    Logins,        \* logins in flight for one address
    MaxAttempts,   \* _MAX_ATTEMPTS
    MaxSkipped     \* bound: Redis calls that fail in the life of a counter

ASSUME GuardAssumption ==
    IsFiniteSet(Logins) /\ MaxAttempts \in Nat \ {0} /\ MaxSkipped \in Nat

VARIABLES
    attempts,  \* login_fail:{email}; 0 is no key
    expiring,  \* whether the key has a time to live
    login,     \* where each login is
    tried,     \* history: wrong passwords tried in the life of the counter
    skipped,   \* history: checks and increments skipped in it
    unending   \* history: the call that starts its time to live was lost

guardVars == <<attempts, expiring, login, tried, skipped, unending>>

GuardTyped ==
    /\ attempts \in Nat /\ expiring \in BOOLEAN
    /\ login \in [Logins -> {"idle", "password", "failed", "expire", "clear"}]
    /\ tried \in Nat /\ skipped \in 0 .. MaxSkipped /\ unending \in BOOLEAN
    /\ expiring => attempts > 0

GuardInit ==
    /\ attempts = 0 /\ expiring = FALSE /\ login = [l \in Logins |-> "idle"]
    /\ tried = 0 /\ skipped = 0 /\ unending = FALSE

At(l, step) == login' = [login EXCEPT ![l] = step]
Skip == skipped < MaxSkipped /\ skipped' = skipped + 1

\* Variant: the last attempt is not refused.
LockedLate == attempts > MaxAttempts

Locked == attempts >= MaxAttempts

\* check_not_locked_out; skipped when Redis is unreachable.
CheckLockout(l) ==
    /\ login[l] = "idle"
    /\ \/ ~Locked /\ UNCHANGED skipped
       \/ Skip
    /\ At(l, "password")
    /\ UNCHANGED <<attempts, expiring, tried, unending>>

Wrong(l) ==
    /\ login[l] = "password" /\ At(l, "failed")
    /\ tried' = tried + 1
    /\ UNCHANGED <<attempts, expiring, skipped, unending>>

Right(l) ==
    /\ login[l] = "password" /\ At(l, "clear")
    /\ UNCHANGED <<attempts, expiring, tried, skipped, unending>>

\* record_failed_attempt: incr, and expire when it was the first.
Increment(l) ==
    /\ login[l] = "failed"
    /\ \/ /\ attempts' = attempts + 1
          /\ At(l, IF attempts = 0 THEN "expire" ELSE "idle")
          /\ UNCHANGED skipped
       \/ Skip /\ At(l, "idle") /\ UNCHANGED attempts
    /\ UNCHANGED <<expiring, tried, unending>>

StartWindow(l) ==
    /\ login[l] = "expire" /\ At(l, "idle")
    /\ \/ expiring' = (attempts > 0) /\ UNCHANGED unending
       \/ UNCHANGED expiring /\ unending' = (unending \/ attempts > 0)
    /\ UNCHANGED <<attempts, tried, skipped>>

KeyGoes ==
    /\ attempts' = 0 /\ expiring' = FALSE
    /\ tried' = 0 /\ skipped' = 0 /\ unending' = FALSE

\* clear_failed_attempts; a reset that is dropped leaves the counter.
ClearAttempts(l) ==
    /\ login[l] = "clear" /\ At(l, "idle")
    /\ KeyGoes \/ UNCHANGED <<attempts, expiring, tried, skipped, unending>>

WindowEnds == expiring /\ KeyGoes /\ UNCHANGED login

GuardNext ==
    \/ \E l \in Logins : \/ CheckLockout(l) \/ Wrong(l) \/ Right(l) \/ Increment(l)
                         \/ StartWindow(l) \/ ClearAttempts(l)
    \/ WindowEnds

GuardSpec == GuardInit /\ [][GuardNext]_guardVars
-----------------------------------------------------------------------------
\* What the lockout promises although nothing in it is atomic: in the life of
\* a counter at most one wrong password per login in flight is tried beyond
\* the limit, besides those a failing Redis let pass; and a counter ends by
\* itself unless the one call that says so was lost (check_not_locked_out,
\* record_failed_attempt, clear_failed_attempts).
LockoutHolds ==
    /\ tried + 1 <= MaxAttempts + Cardinality(Logins) + skipped
    /\ attempts > 0 => expiring \/ unending \/ \E l \in Logins : login[l] = "expire"
===============================================================================
