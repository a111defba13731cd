------------------------------ MODULE AccountLink ------------------------------
(***************************************************************************)
(* A user's account at a provider, linked by OAuth: GitHub, Supabase or    *)
(* Google (for Firebase).  The user consents in flows that expire; each    *)
(* callback exchanges its code and stores the tokens; builds and requests  *)
(* take the token meanwhile, which refreshes Supabase's and Google's and   *)
(* clears GitHub's when GitHub does not accept it.                         *)
(***************************************************************************)
EXTENDS Naturals

CONSTANTS
    Flows,      \* authorisations that the user begins
    Callbacks,  \* callback requests; a browser may send one again
    Takers,     \* calls of get_valid_github/supabase/firebase_token
    Window,     \* the 600 seconds of a state and of its PKCE verifier
    MaxAge,     \* bound: how far the clock runs
    MaxGranted  \* bound: tokens that the provider grants

ASSUME LinkAssumption == Window \in Nat /\ MaxAge \in Nat /\ MaxGranted \in Nat

VARIABLES
    provider,   \* whose account it is
    age,        \* the time
    flow,       \* each flow: when it began, and whether its code was redeemed
    verifier,   \* flows whose PKCE verifier is in Redis
    callback,   \* what each callback is about to do, of which flow
    granted,    \* tokens granted: refresh tokens, or GitHub's access tokens
    honoured,   \* those of them that the provider accepts
    account,    \* the token on the user document; 0 is not linked
    current,    \* whether the access token of the document has not expired
    taker,      \* what each call for a token is about to do, and its token
    linked,     \* history: a callback has stored a token
    withdrawn,  \* history: the user revoked the grant at the provider
    excused     \* history: a link was stored while a call worked with the one before,
                \* an answer or its receiver was lost, or GitHub did not answer

accountVars == <<provider, age, flow, verifier, callback, granted, honoured,
                 account, current, taker, linked, withdrawn, excused>>

NotBegun == [began |-> 0, open |-> FALSE]
NoCallback == [at |-> "idle", flow |-> "none", token |-> 0]
NoTaker == [at |-> "idle", token |-> 0, new |-> 0]

AccountTyped ==
    /\ provider \in {"github", "supabase", "firebase"} /\ age \in 0 .. MaxAge
    /\ flow \in [Flows -> [began : 0 .. MaxAge, open : BOOLEAN]]
    /\ verifier \subseteq Flows
    /\ callback \in [Callbacks -> [at : {"idle", "read", "exchange", "store"},
                          flow : Flows \cup {"none"}, token : 0 .. MaxGranted]]
    /\ granted \in 0 .. MaxGranted /\ honoured \subseteq 1 .. granted
    /\ account \in 0 .. granted /\ current \in BOOLEAN
    /\ taker \in [Takers -> [at : {"idle", "ask", "store", "clear"},
                         token : 0 .. MaxGranted, new : 0 .. MaxGranted]]
    /\ linked \in BOOLEAN /\ withdrawn \in BOOLEAN /\ excused \in BOOLEAN

AccountInit ==
    /\ provider \in {"github", "supabase", "firebase"} /\ age = 0
    /\ flow = [f \in Flows |-> NotBegun] /\ verifier = {}
    /\ callback = [c \in Callbacks |-> NoCallback]
    /\ granted = 0 /\ honoured = {} /\ account = 0 /\ current = FALSE
    /\ taker = [k \in Takers |-> NoTaker] /\ linked = FALSE /\ withdrawn = FALSE /\ excused = FALSE

Asking == {k \in Takers : taker[k].at # "idle"}
EndsCallback(c) == callback' = [callback EXCEPT ![c] = NoCallback]
EndsTaking(k) == taker' = [taker EXCEPT ![k] = NoTaker]

\* Redis lets a verifier go as the state of its flow turns stale.
AccountTime ==
    /\ age < MaxAge /\ age' = age + 1
    /\ verifier' = {f \in verifier : age' <= flow[f].began + Window}
    /\ UNCHANGED <<provider, flow, callback, granted, honoured, account, current, taker,
                   linked, withdrawn, excused>>

\* github_authorize, supabase_authorize, firebase_authorize; the user consents.
Authorises(f) ==
    /\ flow[f] = NotBegun
    /\ flow' = [flow EXCEPT ![f] = [began |-> age, open |-> TRUE]]
    /\ verifier' = IF provider = "github" THEN verifier ELSE verifier \cup {f}
    /\ UNCHANGED <<provider, age, callback, granted, honoured, account, current, taker,
                   linked, withdrawn, excused>>

\* _verify_state: a callback may come more than once and late.
Verifies(f) == age <= flow[f].began + Window

CalledBack(c) ==
    /\ callback[c].at = "idle"
    /\ \E f \in Flows :
         /\ flow[f] # NotBegun /\ Verifies(f)
         /\ callback' = [callback EXCEPT ![c] =
                [at |-> IF provider = "github" THEN "exchange" ELSE "read",
                 flow |-> f, token |-> 0]]
    /\ UNCHANGED <<provider, age, flow, verifier, granted, honoured, account, current, taker,
                   linked, withdrawn, excused>>

\* The verifier is read; then it is deleted.
ReadsVerifier(c) ==
    /\ callback[c].at = "read"
    /\ IF callback[c].flow \in verifier
       THEN callback' = [callback EXCEPT ![c].at = "exchange"] ELSE EndsCallback(c)
    /\ UNCHANGED <<provider, age, flow, verifier, granted, honoured, account, current, taker,
                   linked, withdrawn, excused>>

DeletesVerifier(c) ==
    /\ callback[c].at = "exchange" /\ callback[c].flow \in verifier
    /\ verifier' = verifier \ {callback[c].flow}
    /\ UNCHANGED <<provider, age, flow, callback, granted, honoured, account, current, taker,
                   linked, withdrawn, excused>>

\* The provider redeems a code once; its answer, or that of the request for
\* the profile, may not arrive.
Exchanges(c) ==
    LET f == callback[c].flow IN
    /\ callback[c].at = "exchange" /\ f \notin verifier
    /\ IF flow[f].open
       THEN /\ granted < MaxGranted /\ granted' = granted + 1
            /\ honoured' = honoured \cup {granted'}
            /\ flow' = [flow EXCEPT ![f].open = FALSE]
            /\ \/ callback' = [callback EXCEPT ![c].at = "store", ![c].token = granted']
               \/ EndsCallback(c)
       ELSE EndsCallback(c) /\ UNCHANGED <<granted, honoured, flow>>
    /\ UNCHANGED <<provider, age, verifier, account, current, taker, linked, withdrawn,
                   excused>>

StoresLink(c) ==
    /\ callback[c].at = "store"
    /\ account' = callback[c].token /\ current' = TRUE /\ linked' = TRUE
    /\ EndsCallback(c)
    /\ withdrawn' = (callback[c].token \notin honoured)
    /\ excused' = (excused \/ Asking # {})
    /\ UNCHANGED <<provider, age, flow, verifier, granted, honoured, taker>>

CallbackFails(c) ==
    /\ callback[c].at # "idle" /\ EndsCallback(c)
    /\ UNCHANGED <<provider, age, flow, verifier, granted, honoured, account, current, taker,
                   linked, withdrawn, excused>>

\* The access token of Supabase and of Google expires.
AccessExpires ==
    /\ current /\ provider # "github" /\ current' = FALSE
    /\ UNCHANGED <<provider, age, flow, verifier, callback, granted, honoured, account, taker,
                   linked, withdrawn, excused>>

\* The user revokes what is linked.
Withdraws ==
    /\ account # 0
    /\ honoured' = {} /\ withdrawn' = TRUE
    /\ UNCHANGED <<provider, age, flow, verifier, callback, granted, account, current, taker,
                   linked, excused>>

\* get_valid_*_token reads the document: not linked, valid for a while, or to
\* be refreshed; GitHub's is tried each time.
TakesToken(k) ==
    /\ taker[k].at = "idle" /\ account # 0
    /\ provider = "github" \/ ~current
    /\ taker' = [taker EXCEPT ![k] = [at |-> "ask", token |-> account, new |-> 0]]
    /\ UNCHANGED <<provider, age, flow, verifier, callback, granted, honoured, account,
                   current, linked, withdrawn, excused>>

\* is_token_valid, which takes an error for a no.
TriesToken(k) ==
    /\ taker[k].at = "ask" /\ provider = "github"
    /\ \/ taker[k].token \in honoured /\ EndsTaking(k) /\ UNCHANGED excused
       \/ /\ taker' = [taker EXCEPT ![k].at = "clear"]
          /\ excused' = (excused \/ taker[k].token \in honoured)
    /\ UNCHANGED <<provider, age, flow, verifier, callback, granted, honoured, account,
                   current, linked, withdrawn>>

\* The token found invalid is cleared; the write may fail, which is logged.
ClearsToken(k) ==
    /\ taker[k].at = "clear" /\ EndsTaking(k)
    /\ account' \in {0, account}
    /\ UNCHANGED <<provider, age, flow, verifier, callback, granted, honoured, current,
                   linked, withdrawn, excused>>

\* A token stored before tokens were encrypted is stored again.
ReencryptsToken(k) ==
    /\ taker[k].at = "ask" /\ provider = "github"
    /\ account' = taker[k].token
    /\ UNCHANGED <<provider, age, flow, verifier, callback, granted, honoured, current, taker,
                   linked, withdrawn, excused>>

\* refresh_access_token: Supabase replaces the token it is shown, Google may
\* name a further one.  A replacement whose answer does not arrive is lost.
RefreshesToken(k) ==
    LET old == taker[k].token IN
    /\ taker[k].at = "ask" /\ provider # "github"
    /\ \/ EndsTaking(k) /\ UNCHANGED <<granted, honoured, excused>>
       \/ /\ provider = "firebase" /\ old \in honoured
          /\ taker' = [taker EXCEPT ![k].at = "store"]
          /\ UNCHANGED <<granted, honoured, excused>>
       \/ /\ old \in honoured /\ granted < MaxGranted /\ granted' = granted + 1
          /\ honoured' = (IF provider = "supabase" THEN honoured \ {old} ELSE honoured)
                            \cup {granted'}
          /\ \/ /\ taker' = [taker EXCEPT ![k].at = "store", ![k].new = granted']
                /\ UNCHANGED excused
             \/ EndsTaking(k) /\ excused' = TRUE
    /\ UNCHANGED <<provider, age, flow, verifier, callback, account, current, linked, withdrawn>>

\* Variant: what the answer says is stored, although Google names a refresh
\* token only the first time.
Replacing(k) == taker[k].new

\* The new refresh token, or the one that was presented.
NewOrKept(k) == IF taker[k].new # 0 THEN taker[k].new ELSE taker[k].token

StoresRefreshed(k) ==
    /\ taker[k].at = "store"
    /\ account' = NewOrKept(k) /\ current' = TRUE
    /\ EndsTaking(k)
    /\ UNCHANGED <<provider, age, flow, verifier, callback, granted, honoured, linked, withdrawn,
                   excused>>

TakerIsLost(k) ==
    /\ taker[k].at # "idle" /\ EndsTaking(k)
    /\ excused' = (excused \/ taker[k].new # 0)
    /\ UNCHANGED <<provider, age, flow, verifier, callback, granted, honoured, account, current,
                   linked, withdrawn>>

AccountNext ==
    \/ AccountTime \/ AccessExpires \/ Withdraws
    \/ \E f \in Flows : Authorises(f)
    \/ \E c \in Callbacks : \/ CalledBack(c) \/ ReadsVerifier(c) \/ DeletesVerifier(c)
                            \/ Exchanges(c) \/ StoresLink(c) \/ CallbackFails(c)
    \/ \E k \in Takers : \/ TakesToken(k) \/ TriesToken(k) \/ ClearsToken(k)
                         \/ ReencryptsToken(k) \/ RefreshesToken(k) \/ StoresRefreshed(k)
                         \/ TakerIsLost(k)

AccountSpec == AccountInit /\ [][AccountNext]_accountVars
-----------------------------------------------------------------------------
\* An account that was linked stays linked, with a token that the provider
\* accepts, until the user revokes it: neither refreshes at the same time, nor
\* callbacks sent twice or late, nor the clearing of GitHub's token takes it,
\* except for a link stored under a call in progress, a lost replacement, and
\* a GitHub that does not answer (get_valid_*_token, *_callback).
LinkKept ==
    \/ excused \/ withdrawn \/ ~linked \/ account \in honoured
    \/ \E k \in Takers : taker[k].at = "store" /\ NewOrKept(k) \in honoured
===============================================================================
