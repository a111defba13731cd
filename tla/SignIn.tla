-------------------------------- MODULE SignIn --------------------------------
(***************************************************************************)
(* The accounts of one e-mail address.  A credential lives in Firebase     *)
(* Auth, an account in Firestore, and nothing ties the two writes of a     *)
(* registration, a sign-in or a deletion together.  Firebase holds at most *)
(* one credential for an address; looking an account up and writing it are *)
(* separate steps, and a process may end between any two.                  *)
(***************************************************************************)
EXTENDS Naturals, FiniteSets

CONSTANTS
    Visitors,  \* requests in flight
    Ids        \* Firebase uids and ids of user documents

ASSUME SignInAssumption == "none" \notin Ids

VARIABLES
    cred,       \* the address's credential in Firebase: its uid, or none
    verified,   \* email_verified of that credential
    accounts,   \* documents of users with this address: id -> document
    visitor,    \* where each request is and what it has read
    spent,      \* ids that were given out
    crossed     \* history: two requests crossed on the accounts or the credential,
                \* or a write was applied and reported as failed

signInVars == <<cred, verified, accounts, visitor, spent, crossed>>

None == "none"
Document == [uid : Ids \cup {None}, gated : BOOLEAN]
Resting == [at |-> "idle", id |-> None, was |-> None, uid |-> None, gated |-> FALSE]
VisitSteps == {"idle", "reg_create", "reg_write", "reg_undo", "log_verify", "log_bind",
          "log_gate", "log_clear", "oauth_email", "oauth_link",
          "oauth_create", "del_doc", "del_cred"}

SignInTyped ==
    /\ cred \in Ids \cup {None} /\ verified \in BOOLEAN
    /\ spent \subseteq Ids
    /\ DOMAIN accounts \subseteq spent
    /\ \A i \in DOMAIN accounts : accounts[i] \in Document
    /\ visitor \in [Visitors -> [at : VisitSteps, id : Ids \cup {None}, was : Ids \cup {None},
                               uid : Ids \cup {None}, gated : BOOLEAN]]
    /\ crossed \in BOOLEAN

Put(id, doc) == [i \in DOMAIN accounts \cup {id} |-> IF i = id THEN doc ELSE accounts[i]]
Without(id) == [i \in DOMAIN accounts \ {id} |-> accounts[i]]

\* No account, or one from before Firebase, which has a bcrypt hash.
SignInInit ==
    /\ cred = None /\ verified = FALSE
    /\ spent \in {{}} \cup {{i} : i \in Ids}
    /\ accounts = [i \in spent |-> [uid |-> None, gated |-> FALSE]]
    /\ visitor = [c \in Visitors |-> Resting]
    /\ crossed = FALSE

MovesTo(c, step) == visitor' = [visitor EXCEPT ![c].at = step]
Answer(c) == visitor' = [visitor EXCEPT ![c] = Resting]
NewId(i) == i \in Ids \ spent

\* Another request is about to delete the credential.
Doomed(uid) ==
    \E d \in Visitors : visitor[d].at \in {"reg_undo", "del_doc", "del_cred"} /\ visitor[d].uid = uid

\* register: the address must be new to Firestore, then to Firebase.
Register(c) ==
    /\ visitor[c].at = "idle" /\ DOMAIN accounts = {}
    /\ MovesTo(c, "reg_create")
    /\ UNCHANGED <<cred, verified, accounts, spent, crossed>>

RegisterCreates(c) ==
    /\ visitor[c].at = "reg_create"
    /\ IF cred # None
       THEN Answer(c) /\ UNCHANGED <<cred, verified, spent>>
       ELSE \E i \in Ids : /\ NewId(i)
                           /\ cred' = i /\ verified' = FALSE /\ spent' = spent \cup {i}
                           /\ visitor' = [visitor EXCEPT ![c].at = "reg_write", ![c].uid = i]
    /\ UNCHANGED <<accounts, crossed>>

\* The document is set as a whole.  A write that fails may have been applied.
RegisterWrites(c) ==
    LET id == visitor[c].uid
        written == Put(id, [uid |-> id, gated |-> TRUE]) IN
    /\ visitor[c].at = "reg_write"
    /\ \/ /\ accounts' = written /\ Answer(c)
          /\ crossed' = (crossed \/ DOMAIN accounts # {} \/ cred # id \/ Doomed(id))
       \/ /\ accounts' \in {accounts, written} /\ MovesTo(c, "reg_undo")
          /\ crossed' = (crossed \/ DOMAIN accounts' # {})
    /\ UNCHANGED <<cred, verified, spent>>

\* delete_user; its own failure is suppressed.
RegisterUndoes(c) ==
    /\ visitor[c].at = "reg_undo"
    /\ cred' \in {cred, IF cred = visitor[c].uid THEN None ELSE cred}
    /\ Answer(c)
    /\ UNCHANGED <<verified, accounts, spent, crossed>>

\* login: look the account up, then ask Firebase for the password.
Login(c) ==
    /\ visitor[c].at = "idle"
    /\ \/ /\ DOMAIN accounts = {}
          /\ MovesTo(c, "log_verify")
       \/ \E i \in DOMAIN accounts :
            visitor' = [visitor EXCEPT ![c] = [Resting EXCEPT !.at = "log_verify",
                         !.id = i, !.was = accounts[i].uid, !.gated = accounts[i].gated]]
    /\ UNCHANGED <<cred, verified, accounts, spent, crossed>>

\* An account from before Firebase gets its credential here.
LoginVerifies(c) ==
    LET id == visitor[c].id
        legacy == id # None /\ visitor[c].was = None
        uid == IF cred # None THEN cred ELSE IF legacy THEN id ELSE None IN
    /\ visitor[c].at = "log_verify"
    /\ IF uid = None
       THEN Answer(c)
       ELSE visitor' = [visitor EXCEPT ![c].at = "log_bind", ![c].uid = uid]
    /\ cred' = uid
    /\ verified' = (IF cred = None THEN FALSE ELSE verified)
    /\ UNCHANGED <<accounts, spent, crossed>>

\* A missing document is set as a whole; one bound to another credential, or
\* to none, is bound by a merge, which would create it.
LoginBinds(c) ==
    LET found == visitor[c].id # None
        id == IF found THEN visitor[c].id ELSE visitor[c].uid
        there == id \in DOMAIN accounts IN
    /\ visitor[c].at = "log_bind"
    /\ accounts' = IF found /\ visitor[c].was = visitor[c].uid THEN accounts
                   ELSE Put(id, [uid |-> visitor[c].uid,
                                 gated |-> found /\ there /\ accounts[id].gated])
    /\ visitor' = [visitor EXCEPT ![c].at = "log_gate", ![c].id = id]
    /\ crossed' = (crossed \/ cred # visitor[c].uid \/ Doomed(visitor[c].uid)
                   \/ IF found THEN ~there ELSE DOMAIN accounts # {})
    /\ UNCHANGED <<cred, verified, spent>>

\* Whether Firebase is asked is told by the flag that was read before the
\* password was; an unverified address gets no tokens.
LoginGates(c) ==
    LET open == cred = visitor[c].uid /\ verified IN
    /\ visitor[c].at = "log_gate"
    /\ IF visitor[c].gated /\ open THEN MovesTo(c, "log_clear") ELSE Answer(c)
    /\ UNCHANGED <<cred, verified, accounts, spent, crossed>>

\* An update: it fails when the document is gone.
LoginClears(c) ==
    /\ visitor[c].at = "log_clear"
    /\ accounts' = IF visitor[c].id \in DOMAIN accounts
                   THEN [accounts EXCEPT ![visitor[c].id].gated = FALSE] ELSE accounts
    /\ Answer(c)
    /\ UNCHANGED <<cred, verified, spent, crossed>>

\* oauth: a token of the credential, by its uid, by its address, or new.
Oauth(c) ==
    /\ visitor[c].at = "idle" /\ cred # None
    /\ IF \E i \in DOMAIN accounts : accounts[i].uid = cred
       THEN Answer(c)
       ELSE visitor' = [visitor EXCEPT ![c] =
              [Resting EXCEPT !.at = "oauth_email", !.uid = cred, !.gated = ~verified]]
    /\ UNCHANGED <<cred, verified, accounts, spent, crossed>>

OauthByEmail(c) ==
    /\ visitor[c].at = "oauth_email"
    /\ IF DOMAIN accounts = {} THEN MovesTo(c, "oauth_create")
       ELSE IF visitor[c].gated THEN Answer(c)
       ELSE \E i \in DOMAIN accounts :
              visitor' = [visitor EXCEPT ![c].at = "oauth_link", ![c].id = i]
    /\ UNCHANGED <<cred, verified, accounts, spent, crossed>>

OauthLinks(c) ==
    LET id == visitor[c].id IN
    /\ visitor[c].at = "oauth_link"
    /\ accounts' = IF id \in DOMAIN accounts
                   THEN [accounts EXCEPT ![id].uid = visitor[c].uid] ELSE accounts
    /\ Answer(c)
    /\ crossed' = (crossed \/ cred # visitor[c].uid)
    /\ UNCHANGED <<cred, verified, spent>>

OauthCreates(c) ==
    /\ visitor[c].at = "oauth_create"
    /\ \E i \in Ids :
         /\ NewId(i)
         /\ accounts' = Put(i, [uid |-> visitor[c].uid, gated |-> FALSE])
         /\ spent' = spent \cup {i}
    /\ Answer(c)
    /\ crossed' = (crossed \/ DOMAIN accounts # {} \/ cred # visitor[c].uid
                   \/ Doomed(visitor[c].uid))
    /\ UNCHANGED <<cred, verified>>

\* delete_my_account, its last part: the document, then the credential.
DeleteAccount(c) ==
    /\ visitor[c].at = "idle"
    /\ \E i \in DOMAIN accounts :
         visitor' = [visitor EXCEPT ![c] =
           [Resting EXCEPT !.at = "del_doc", !.id = i,
              !.uid = IF accounts[i].uid = None THEN i ELSE accounts[i].uid]]
    /\ UNCHANGED <<cred, verified, accounts, spent, crossed>>

\* Variant: the credential goes first, and then the document.
DeletesCredentialFirst(c) ==
    /\ visitor[c].at = "del_doc"
    /\ IF cred = visitor[c].uid
       THEN cred' = None /\ UNCHANGED <<accounts, visitor>>
       ELSE accounts' = Without(visitor[c].id) /\ MovesTo(c, "del_cred") /\ UNCHANGED cred
    /\ UNCHANGED <<verified, spent, crossed>>

DeletesDocument(c) ==
    /\ visitor[c].at = "del_doc"
    /\ accounts' = Without(visitor[c].id)
    /\ MovesTo(c, "del_cred")
    /\ UNCHANGED <<cred, verified, spent, crossed>>

\* Not fatal when it fails.
DeletesLogin(c) ==
    /\ visitor[c].at = "del_cred"
    /\ cred' \in {cred, IF cred = visitor[c].uid THEN None ELSE cred}
    /\ Answer(c)
    /\ UNCHANGED <<verified, accounts, spent, crossed>>

\* The process ends in mid-request.
Dies(c) ==
    /\ visitor[c].at # "idle"
    /\ Answer(c)
    /\ UNCHANGED <<cred, verified, accounts, spent, crossed>>

\* At the provider: a first sign-in there, and the link in the e-mail.
ProviderSignsUp ==
    /\ cred = None
    /\ \E i \in Ids : NewId(i) /\ cred' = i /\ spent' = spent \cup {i}
    /\ verified' \in BOOLEAN
    /\ UNCHANGED <<accounts, visitor, crossed>>

FollowsLink ==
    /\ cred # None /\ verified' = TRUE
    /\ UNCHANGED <<cred, accounts, visitor, spent, crossed>>

SignInNext ==
    \/ \E c \in Visitors :
         \/ Register(c) \/ RegisterCreates(c) \/ RegisterWrites(c) \/ RegisterUndoes(c)
         \/ Login(c) \/ LoginVerifies(c) \/ LoginBinds(c) \/ LoginGates(c) \/ LoginClears(c)
         \/ Oauth(c) \/ OauthByEmail(c) \/ OauthLinks(c) \/ OauthCreates(c)
         \/ DeleteAccount(c) \/ DeletesDocument(c) \/ DeletesLogin(c) \/ Dies(c)
    \/ ProviderSignsUp \/ FollowsLink

SignInSpec == SignInInit /\ [][SignInNext]_signInVars
-----------------------------------------------------------------------------
\* An account can be signed in to: once every request has ended or died, and
\* unless two of them crossed, an account has a credential, or a hash of its
\* own from before there were any.  Otherwise its address is "already
\* registered" and no password opens it (register, login, delete_my_account).
AccountReachable ==
    (\A c \in Visitors : visitor[c].at = "idle") /\ ~crossed =>
      \A i \in DOMAIN accounts : cred # None \/ accounts[i].uid = None
===============================================================================
