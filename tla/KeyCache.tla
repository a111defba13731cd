------------------------------- MODULE KeyCache -------------------------------
(***************************************************************************)
(* Authentication by API key: every process keeps the keys it resolved for *)
(* a while, so a revoked key is accepted for some time more.  The dashboard *)
(* user's cache works the same way.  The clock that stamps an entry is     *)
(* read before the database is.                                            *)
(***************************************************************************)
EXTENDS Naturals

CONSTANTS
    KeyCalls,     \* requests that carry the key
    Servers,      \* server processes, each with a cache of its own
    CacheTTL,     \* _API_KEY_CACHE_TTL_SECONDS
    MaxClock      \* bound: how far the clock runs

ASSUME CacheAssumption ==
    CacheTTL \in Nat \ {0} /\ MaxClock \in Nat /\ "none" \notin Servers

VARIABLES
    seconds,    \* time.monotonic()
    revoked,    \* revoked_at of the key; MaxClock + 1 while it is active
    cache,      \* the key's entry in every process: its stamp, 0 for none
    request,    \* each request: its process, when it read the clock, its stage
    accepted    \* history: when the latest request accepted had begun

cacheVars == <<seconds, revoked, cache, request, accepted>>

Never == MaxClock + 1

CacheTyped ==
    /\ seconds \in 1 .. MaxClock /\ revoked \in 1 .. Never
    /\ cache \in [Servers -> 0 .. MaxClock]
    /\ request \in [KeyCalls -> [at : {"idle", "query", "store"},
                                 by : Servers \cup {"none"}, began : 0 .. MaxClock]]
    /\ accepted \in 0 .. MaxClock

NoRequest == [at |-> "idle", by |-> "none", began |-> 0]

CacheInit ==
    /\ seconds = 1 /\ revoked = Never /\ accepted = 0
    /\ cache = [p \in Servers |-> 0]
    /\ request = [r \in KeyCalls |-> NoRequest]

Second ==
    /\ seconds < MaxClock /\ seconds' = seconds + 1
    /\ UNCHANGED <<revoked, cache, request, accepted>>

RevokeKey ==
    /\ revoked = Never /\ revoked' = seconds
    /\ UNCHANGED <<seconds, cache, request, accepted>>

AcceptKey(r, began) ==
    /\ request' = [request EXCEPT ![r] = NoRequest]
    /\ accepted' = IF began > accepted THEN began ELSE accepted

FreshEntry(p) == cache[p] # 0 /\ seconds - cache[p] < CacheTTL

\* get_api_key: an entry young enough answers at once.
BeginCall(r, p) ==
    /\ request[r].at = "idle"
    /\ IF FreshEntry(p)
       THEN AcceptKey(r, seconds)
       ELSE /\ request' = [request EXCEPT ![r] = [at |-> "query", by |-> p, began |-> seconds]]
            /\ UNCHANGED accepted
    /\ UNCHANGED <<seconds, revoked, cache>>

\* The query; a revoked key loses its entry.
Query(r) ==
    /\ request[r].at = "query"
    /\ IF revoked # Never
       THEN /\ request' = [request EXCEPT ![r] = NoRequest]
            /\ cache' = [cache EXCEPT ![request[r].by] = 0]
       ELSE /\ request' = [request EXCEPT ![r].at = "store"]
            /\ UNCHANGED cache
    /\ UNCHANGED <<seconds, revoked, accepted>>

\* Variant: the entry is stamped when it is stored.
StampedLate(r) == seconds

Stamp(r) == request[r].began

\* last_used_at was written in between; then the entry is stored.
StoreEntry(r) ==
    /\ request[r].at = "store"
    /\ cache' = [cache EXCEPT ![request[r].by] = Stamp(r)]
    /\ AcceptKey(r, request[r].began)
    /\ UNCHANGED <<seconds, revoked>>

\* The cache is emptied when it is full, and goes with its process.
ClearCache(p) ==
    /\ cache' = [cache EXCEPT ![p] = 0]
    /\ UNCHANGED <<seconds, revoked, request, accepted>>

CacheNext ==
    \/ Second \/ RevokeKey
    \/ \E r \in KeyCalls : Query(r) \/ StoreEntry(r) \/ \E p \in Servers : BeginCall(r, p)
    \/ \E p \in Servers : ClearCache(p)

CacheSpec == CacheInit /\ [][CacheNext]_cacheVars
-----------------------------------------------------------------------------
\* A revoked key dies out: no request that begins a time to live or more after
\* the revocation is accepted, by any process, however slow its queries were
\* ("Revocation takes up to the auth cache TTL", revoke_api_key).
RevocationTakesHold == accepted < revoked + CacheTTL
===============================================================================
