------------------------------- MODULE ZoomGrant -------------------------------
(***************************************************************************)
(* A user's Zoom grant.  Zoom rotates the refresh token at every refresh,  *)
(* so the one on the user document is the only one that works and a lost   *)
(* replacement ends the grant.  Meetings of several workers refresh it     *)
(* under a Redis lock that expires by itself; the user links and unlinks   *)
(* the account meanwhile.                                                  *)
(***************************************************************************)
EXTENDS Naturals

CONSTANTS
    Meetings,   \* calls of get_access_token in flight
    MaxTokens   \* bound: refresh tokens that Zoom issues

ASSUME ZoomAssumption == MaxTokens \in Nat /\ "none" \notin Meetings

VARIABLES
    issued,     \* the refresh token Zoom accepts: the latest it issued
    stored,     \* zoom_refresh_token of the user document; 0 is unlinked
    lasting,    \* whether zoom_token_expires_at lies far enough ahead
    lock,       \* the holder of the refresh lock
    joiner,     \* what each call is about to do, and its token
    linking,    \* the token the OAuth callback is about to store; 0 is none
    refused,    \* history: a token was presented that had been spent
    strayed     \* history: the lock expired under its holder, a response or its
                \* holder was lost, or link or unlink came in between

zoomVars == <<issued, stored, lasting, lock, joiner, linking, refused, strayed>>

Away == [at |-> "away", token |-> 0]

ZoomTyped ==
    /\ issued \in 0 .. MaxTokens /\ stored \in 0 .. issued /\ linking \in 0 .. issued
    /\ lasting \in BOOLEAN /\ refused \in BOOLEAN /\ strayed \in BOOLEAN
    /\ lock \in Meetings \cup {"none"}
    /\ joiner \in [Meetings -> [at : {"away", "lock", "reread", "refresh", "store"},
                                 token : 0 .. issued]]

ZoomInit ==
    /\ issued = 0 /\ stored = 0 /\ lasting = FALSE /\ lock = "none" /\ linking = 0
    /\ joiner = [m \in Meetings |-> Away] /\ refused = FALSE /\ strayed = FALSE

\* A call that works on the grant under the lock, or believes it does.
Refreshing == {m \in Meetings : joiner[m].at \in {"refresh", "store"}}

\* The callback exchanges the code, and stores the pair when it has asked for
\* the profile.
ExchangeCode ==
    /\ linking = 0 /\ issued < MaxTokens
    /\ issued' = issued + 1 /\ linking' = issued'
    /\ strayed' = (strayed \/ Refreshing # {} \/ stored # 0)
    /\ UNCHANGED <<stored, lasting, lock, joiner, refused>>

StoreTokens ==
    /\ linking # 0
    /\ stored' = linking /\ lasting' = TRUE /\ linking' = 0
    /\ strayed' = (strayed \/ Refreshing # {})
    /\ UNCHANGED <<issued, lock, joiner, refused>>

Unlink ==
    /\ stored' = 0 /\ lasting' = FALSE
    /\ strayed' = (strayed \/ Refreshing # {})
    /\ UNCHANGED <<issued, lock, joiner, linking, refused>>

HourPasses ==
    /\ lasting /\ lasting' = FALSE
    /\ UNCHANGED <<issued, stored, lock, joiner, linking, refused, strayed>>

\* get_access_token: not linked, good for a while more, or to be refreshed.
GetToken(m) ==
    /\ joiner[m].at = "away" /\ stored # 0 /\ ~lasting
    /\ joiner' = [joiner EXCEPT ![m] = [at |-> "lock", token |-> stored]]
    /\ UNCHANGED <<issued, stored, lasting, lock, linking, refused, strayed>>

Lock(m) ==
    /\ joiner[m].at = "lock" /\ lock = "none"
    /\ lock' = m
    /\ joiner' = [joiner EXCEPT ![m].at = "reread"]
    /\ UNCHANGED <<issued, stored, lasting, linking, refused, strayed>>

\* The wait for the lock is bounded.
GiveUp(m) ==
    /\ joiner[m].at = "lock"
    /\ joiner' = [joiner EXCEPT ![m] = Away]
    /\ UNCHANGED <<issued, stored, lasting, lock, linking, refused, strayed>>

Release(m) == lock' = IF lock = m THEN "none" ELSE lock

\* Variant: the token that was read before the lock is presented.
TokenRead(m) == joiner[m].token

TokenNow(m) == IF stored # 0 THEN stored ELSE joiner[m].token

\* Another worker may have refreshed during the wait.
Reread(m) ==
    /\ joiner[m].at = "reread"
    /\ IF stored # 0 /\ lasting
       THEN Release(m) /\ joiner' = [joiner EXCEPT ![m] = Away] /\ UNCHANGED strayed
       ELSE /\ joiner' = [joiner EXCEPT ![m] = [at |-> "refresh", token |-> TokenNow(m)]]
            /\ strayed' = (strayed \/ stored = 0 \/ linking # 0 \/ lock # m)
            /\ UNCHANGED lock
    /\ UNCHANGED <<issued, stored, lasting, linking, refused>>

\* Zoom rotates the token it accepts; the response may not arrive.
Refresh(m) ==
    /\ joiner[m].at = "refresh"
    /\ IF joiner[m].token = issued
       THEN /\ issued < MaxTokens /\ issued' = issued + 1
            /\ \/ /\ joiner' = [joiner EXCEPT ![m] = [at |-> "store", token |-> issued']]
                  /\ UNCHANGED <<lock, strayed>>
               \/ joiner' = [joiner EXCEPT ![m] = Away] /\ Release(m) /\ strayed' = TRUE
            /\ UNCHANGED refused
       ELSE /\ joiner' = [joiner EXCEPT ![m] = Away] /\ Release(m)
            /\ refused' = TRUE
            /\ UNCHANGED <<issued, strayed>>
    /\ UNCHANGED <<stored, lasting, linking>>

RefreshFails(m) ==
    /\ joiner[m].at = "refresh"
    /\ joiner' = [joiner EXCEPT ![m] = Away] /\ Release(m)
    /\ UNCHANGED <<issued, stored, lasting, linking, refused, strayed>>

\* The new pair is stored before the access token is handed out.
StoreRefreshed(m) ==
    /\ joiner[m].at = "store"
    /\ stored' = joiner[m].token /\ lasting' = TRUE
    /\ joiner' = [joiner EXCEPT ![m] = Away] /\ Release(m)
    /\ UNCHANGED <<issued, linking, refused, strayed>>

\* A lock that nobody gives back expires; so does one whose holder is slow.
LockExpires ==
    /\ lock # "none" /\ lock' = "none"
    /\ strayed' = (strayed \/ joiner[lock].at # "away")
    /\ UNCHANGED <<issued, stored, lasting, joiner, linking, refused>>

\* A worker is lost, and the lock stays.
WorkerLost(m) ==
    /\ joiner[m].at # "away"
    /\ joiner' = [joiner EXCEPT ![m] = Away]
    /\ strayed' = (strayed \/ joiner[m].at = "store")
    /\ UNCHANGED <<issued, stored, lasting, lock, linking, refused>>

ZoomNext ==
    \/ ExchangeCode \/ StoreTokens \/ Unlink \/ HourPasses \/ LockExpires
    \/ \E m \in Meetings : \/ GetToken(m) \/ Lock(m) \/ GiveUp(m) \/ Reread(m) \/ Refresh(m)
                           \/ RefreshFails(m) \/ StoreRefreshed(m) \/ WorkerLost(m)

ZoomSpec == ZoomInit /\ [][ZoomNext]_zoomVars
-----------------------------------------------------------------------------
\* A working grant is never lost by concurrent meetings: unless something came
\* between a refresh and its lock, no spent token is ever presented to Zoom,
\* and what the document holds is what Zoom accepts whenever nothing newer is
\* about to be stored (_refresh, whose comment promises it).
GrantKept ==
    \/ strayed
    \/ /\ ~refused
       /\ \/ stored \in {0, issued} \/ linking = issued
          \/ \E m \in Meetings : joiner[m] = [at |-> "store", token |-> issued]
===============================================================================
