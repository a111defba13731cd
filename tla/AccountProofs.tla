---------------------------- MODULE AccountProofs ----------------------------
(***************************************************************************)
(* Proofs about accounts: that one can be signed in to (SignIn), how many  *)
(* passwords a lockout lets through (LoginGuard), that a device is handed  *)
(* its key once (DeviceLogin), how long a revoked key is accepted          *)
(* (KeyCache), that a link stays (AccountLink), that a deletion is final   *)
(* (Erasure), that paid time is served (Subscription) and what a budget    *)
(* lets through (TokenBucket). Each part uses the assumptions of its own   *)
(* component only.                                                         *)
(***************************************************************************)
EXTENDS SignIn, LoginGuard, DeviceLogin, KeyCache, AccountLink, Erasure, Subscription,
        TokenBucket, FiniteSetTheorems, WellFoundedInduction, TLAPS

(***************************************************************************)
(* SignIn.  Unless two requests crossed there is one account at most, and  *)
(* a request that is about to delete the credential leaves no account      *)
(* behind; a request knows only ids that were given out, so a new          *)
(* credential is in nobody's hands. The one account without a credential   *)
(* is the one from before Firebase: it is the witness of the existential.  *)
(***************************************************************************)
\* A request and what it has read.
VisitorRecords == [at : VisitSteps, id : Ids \cup {None}, was : Ids \cup {None},
                   uid : Ids \cup {None}, gated : BOOLEAN]

\* The steps at which a request knows the uid of a credential.
UidSteps == {"reg_write", "reg_undo", "log_bind", "oauth_email", "oauth_link", "oauth_create",
             "del_doc", "del_cred"}

\* A request knows ids that were given out; old is the account from before Firebase.
VisitorFits(r, old, ids) ==
    /\ r.id \in ids \cup {None} /\ r.uid \in ids \cup {None}
    /\ r.at = "idle" => r.id = None
    /\ r.at \in UidSteps => r.uid # None
    /\ r.at = "log_verify" /\ r.id # None /\ r.was = None => r.id = old
    /\ r.at \in {"reg_write", "reg_undo"} => r.uid # old

\* A request that is about to delete the credential leaves no account behind.
DeletesSafely(r, held, docs) ==
    /\ r.at \in {"reg_undo", "del_cred"} /\ r.uid = held => DOMAIN docs = {}
    /\ r.at = "del_doc" /\ r.uid = held => DOMAIN docs \subseteq {r.id}
    /\ \A j \in DOMAIN docs : docs[j].uid = None =>
         r.at # "del_cred" /\ (r.at = "del_doc" => r.id = j)

\* A document names a credential that was given out, or is the one from before
\* Firebase.
AccountsFit(old, docs, ids) ==
    /\ old \in ids \cup {None}
    /\ \A i \in DOMAIN docs : /\ docs[i].uid \in ids \cup {None}
                              /\ docs[i].uid = None => i = old

\* There is one account at most, and a credential that is gone took it along.
OneAccount(held, docs) ==
    /\ \A i, j \in DOMAIN docs : i = j
    /\ \A i \in DOMAIN docs : held # None \/ docs[i].uid = None

\* The inductive invariant: who knows what, and that what is about to be
\* deleted is nobody's.
SignInInv ==
    /\ SignInTyped /\ cred \in spent \cup {None}
    /\ \E old \in Ids \cup {None} :
         /\ AccountsFit(old, accounts, spent)
         /\ \A c \in Visitors : VisitorFits(visitor[c], old, spent)
    /\ ~crossed => /\ OneAccount(cred, accounts)
                   /\ \A c \in Visitors : DeletesSafely(visitor[c], cred, accounts)

\* No id means no credential.
LEMMA NoneIsNoId == None \notin Ids
BY SignInAssumption DEF None

\* A credential nobody has heard of endangers no account.
LEMMA FreshLogin ==
    ASSUME NEW r, NEW old, NEW docs, NEW ids, NEW held, NEW i, i \notin ids, i # None,
           VisitorFits(r, old, ids), DeletesSafely(r, held, docs)
    PROVE  DeletesSafely(r, i, docs)
BY DEF VisitorFits, DeletesSafely

\* Nor is one in danger when there is no credential.
LEMMA NoLogin ==
    ASSUME NEW r, NEW old, NEW docs, NEW ids, NEW held,
           VisitorFits(r, old, ids), DeletesSafely(r, held, docs)
    PROVE  DeletesSafely(r, None, docs)
BY DEF VisitorFits, DeletesSafely, UidSteps

\* The credential of the account from before Firebase endangers no other one.
LEMMA OldLogin ==
    ASSUME NEW r, NEW old, NEW docs, NEW ids,
           VisitorFits(r, old, ids), DeletesSafely(r, None, docs), OneAccount(None, docs)
    PROVE  DeletesSafely(r, old, docs)
BY DEF VisitorFits, DeletesSafely, OneAccount

\* Accounts may go, or be bound.
LEMMA FewerDocs ==
    ASSUME NEW r, NEW held, NEW docs, NEW less, DOMAIN less \subseteq DOMAIN docs,
           \A j \in DOMAIN less : less[j].uid = None => docs[j].uid = None,
           DeletesSafely(r, held, docs)
    PROVE  DeletesSafely(r, held, less)
BY DEF DeletesSafely

\* Accounts may be bound to a credential that nobody is about to delete.
LEMMA BoundDocs ==
    ASSUME NEW r, NEW held, NEW docs, \A j \in DOMAIN docs : docs[j].uid # None,
           r.at \in {"reg_undo", "del_doc", "del_cred"} => r.uid # held
    PROVE  DeletesSafely(r, held, docs)
BY DEF DeletesSafely

\* What a step of request c has to show.
LEMMA RequestSteps ==
    ASSUME SignInInv, NEW old \in Ids \cup {None},
           \A d \in Visitors : VisitorFits(visitor[d], old, spent),
           NEW c \in Visitors, NEW r \in VisitorRecords, visitor' = [visitor EXCEPT ![c] = r],
           VisitorFits(r, old, spent'), spent \subseteq spent', spent' \subseteq Ids,
           cred' \in spent' \cup {None}, verified' \in BOOLEAN, crossed' \in BOOLEAN,
           DOMAIN accounts' \subseteq spent', \A i \in DOMAIN accounts' : accounts'[i] \in Document,
           AccountsFit(old, accounts', spent'),
           ~crossed' => /\ OneAccount(cred', accounts') /\ DeletesSafely(r, cred', accounts')
                        /\ \A d \in Visitors :
                             d # c => DeletesSafely(visitor[d], cred', accounts')
    PROVE  SignInInv'
<1>1. /\ visitor' \in [Visitors -> VisitorRecords] /\ visitor'[c] = r
      /\ \A d \in Visitors : d # c => visitor'[d] = visitor[d]
  BY DEF SignInInv, SignInTyped, VisitorRecords
<1>2. SignInTyped'
  BY <1>1 DEF SignInTyped, VisitorRecords
<1>3. \A d \in Visitors : VisitorFits(visitor'[d], old, spent')
  BY <1>1 DEF VisitorFits
<1>4. ~crossed' => \A d \in Visitors : DeletesSafely(visitor'[d], cred', accounts')
  BY <1>1
<1>. QED BY <1>2, <1>3, <1>4 DEF SignInInv

\* A request that only reads, or answers.
LEMMA RequestMoves ==
    ASSUME SignInInv, NEW old \in Ids \cup {None}, AccountsFit(old, accounts, spent),
           \A d \in Visitors : VisitorFits(visitor[d], old, spent),
           NEW c \in Visitors, NEW r \in VisitorRecords, visitor' = [visitor EXCEPT ![c] = r],
           VisitorFits(r, old, spent), ~crossed => DeletesSafely(r, cred, accounts),
           UNCHANGED <<cred, accounts, spent>>, verified' \in BOOLEAN,
           crossed' \in BOOLEAN, crossed => crossed'
    PROVE  SignInInv'
<1>1. /\ spent' \subseteq Ids /\ cred' \in spent' \cup {None}
      /\ DOMAIN accounts' \subseteq spent' /\ \A i \in DOMAIN accounts' : accounts'[i] \in Document
      /\ AccountsFit(old, accounts', spent')
  BY DEF SignInInv, SignInTyped
<1>2. ~crossed' => /\ OneAccount(cred', accounts') /\ DeletesSafely(r, cred', accounts')
                   /\ \A d \in Visitors : d # c => DeletesSafely(visitor[d], cred', accounts')
  BY DEF SignInInv
<1>. QED BY <1>1, <1>2, RequestSteps

\* Initially nobody is signed in and one account, if any, is from before
\* Firebase.
LEMMA SignInStarts == SignInInit => SignInInv
<1>. SUFFICES ASSUME SignInInit PROVE SignInInv
  OBVIOUS
<1>1. Resting \in VisitorRecords /\ Resting.at = "idle" /\ Resting.id = None /\ Resting.uid = None
  BY DEF Resting, VisitorRecords, VisitSteps
<1>. HIDE DEF Resting
<1>2. /\ spent \subseteq Ids /\ DOMAIN accounts = spent
      /\ \A i \in spent : accounts[i] = [uid |-> None, gated |-> FALSE]
  BY DEF SignInInit
<1>3. SignInTyped
  BY <1>1, <1>2 DEF SignInInit, SignInTyped, Document, VisitorRecords
<1>4. PICK old \in Ids \cup {None} : spent \subseteq {old} /\ old \in spent \cup {None}
  BY DEF SignInInit
<1>5. AccountsFit(old, accounts, spent)
  BY <1>2, <1>4 DEF AccountsFit
<1>6. \A c \in Visitors : VisitorFits(visitor[c], old, spent)
  BY <1>1, <1>2 DEF SignInInit, VisitorFits, UidSteps
<1>7. OneAccount(cred, accounts)
  BY <1>2, <1>4 DEF OneAccount
<1>8. \A c \in Visitors : DeletesSafely(visitor[c], cred, accounts)
  BY <1>1 DEF SignInInit, DeletesSafely
<1>. QED BY <1>3, <1>5, <1>6, <1>7, <1>8 DEF SignInInv, SignInInit

\* A request goes on to another step.
LEMMA RequestGoes ==
    ASSUME NEW v \in VisitorRecords, NEW step \in VisitSteps,
           NEW r, r = [v EXCEPT !.at = step]
    PROVE  /\ r \in VisitorRecords /\ r.at = step
           /\ r.id = v.id /\ r.was = v.was /\ r.uid = v.uid /\ r.gated = v.gated
BY DEF VisitorRecords

\* Every step of every request keeps the invariant.
LEMMA SignInStep == SignInInv /\ [SignInNext]_signInVars => SignInInv'
<1>. SUFFICES ASSUME SignInInv, [SignInNext]_signInVars PROVE SignInInv'
  OBVIOUS
<1>0. PICK old \in Ids \cup {None} :
        /\ AccountsFit(old, accounts, spent)
        /\ \A c \in Visitors : VisitorFits(visitor[c], old, spent)
  BY DEF SignInInv
<1>a. /\ cred \in spent \cup {None} /\ cred \in Ids \cup {None} /\ verified \in BOOLEAN
      /\ spent \subseteq Ids /\ DOMAIN accounts \subseteq spent /\ crossed \in BOOLEAN
      /\ \A i \in DOMAIN accounts : accounts[i] \in Document
      /\ \A i \in DOMAIN accounts : accounts[i].uid \in Ids \cup {None} /\ accounts[i].gated \in BOOLEAN
      /\ \A c \in Visitors : visitor[c] \in VisitorRecords
      /\ None \notin Ids
  BY NoneIsNoId DEF SignInInv, SignInTyped, VisitorRecords, Document
<1>b. /\ Resting \in VisitorRecords /\ VisitorFits(Resting, old, spent)
      /\ VisitorFits(Resting, old, spent') /\ Resting.at = "idle"
      /\ \A held, docs : DeletesSafely(Resting, held, docs)
  BY DEF Resting, VisitorRecords, VisitSteps, VisitorFits, UidSteps, DeletesSafely
<1>c. ~crossed => /\ OneAccount(cred, accounts)
                  /\ \A c \in Visitors : DeletesSafely(visitor[c], cred, accounts)
  BY DEF SignInInv
<1>d. visitor = [d \in Visitors |-> visitor[d]]
  BY DEF SignInInv, SignInTyped
<1>1. ASSUME NEW c \in Visitors, Register(c) PROVE SignInInv'
  <2>. DEFINE r == [visitor[c] EXCEPT !.at = "reg_create"]
  <2>1. /\ visitor' = [visitor EXCEPT ![c] = r]
        /\ UNCHANGED <<cred, verified, accounts, spent, crossed>>
    BY <1>1, <1>d DEF Register, MovesTo
  <2>2. r \in VisitorRecords /\ r.at = "reg_create" /\ r.id = visitor[c].id /\ r.uid = visitor[c].uid
    BY <1>a, RequestGoes DEF VisitSteps
  <2>. HIDE DEF r
  <2>3. VisitorFits(r, old, spent) /\ DeletesSafely(r, cred, accounts)
    BY <1>0, <2>2 DEF VisitorFits, DeletesSafely, UidSteps
  <2>. QED BY <1>0, <1>a, <2>1, <2>2, <2>3, RequestMoves
<1>2. ASSUME NEW c \in Visitors, RegisterCreates(c) PROVE SignInInv'
  <2>1. visitor[c].at = "reg_create" /\ UNCHANGED <<accounts, crossed>>
    BY <1>2 DEF RegisterCreates
  <2>2. CASE cred # None
    <3>1. visitor' = [visitor EXCEPT ![c] = Resting] /\ UNCHANGED <<cred, verified, spent>>
      BY <1>2, <2>2 DEF RegisterCreates, Answer
    <3>. QED BY <1>0, <1>a, <1>b, <2>1, <3>1, RequestMoves
  <2>3. CASE cred = None
    <3>1. PICK i \in Ids : /\ i \notin spent /\ cred' = i /\ verified' = FALSE
                           /\ spent' = spent \cup {i}
                           /\ visitor' = [visitor EXCEPT ![c].at = "reg_write", ![c].uid = i]
      BY <1>2, <2>3 DEF RegisterCreates, NewId
    <3>. DEFINE r == [visitor[c] EXCEPT !.at = "reg_write", !.uid = i]
    <3>2. visitor' = [visitor EXCEPT ![c] = r]
      BY <1>d, <3>1
    <3>3. r \in VisitorRecords /\ r.at = "reg_write" /\ r.id = visitor[c].id /\ r.uid = i
      BY <1>a DEF VisitorRecords, VisitSteps
    <3>. HIDE DEF r
    <3>4. i # old /\ i # None
      BY <1>0, <1>a, <3>1 DEF AccountsFit
    <3>5. VisitorFits(r, old, spent') /\ DeletesSafely(r, cred', accounts')
      BY <1>0, <3>1, <3>3, <3>4 DEF VisitorFits, DeletesSafely
    <3>6. AccountsFit(old, accounts', spent')
      BY <1>0, <2>1, <3>1 DEF AccountsFit
    <3>7. ~crossed' => \A d \in Visitors : DeletesSafely(visitor[d], cred', accounts')
      <4>. SUFFICES ASSUME ~crossed, NEW d \in Visitors
                    PROVE  DeletesSafely(visitor[d], i, accounts)
        BY <2>1, <3>1
      <4>1. i \notin spent \cup {None}
        BY <3>1, <3>4
      <4>. QED BY <1>0, <1>c, <3>1, <3>4, FreshLogin
    <3>8. ~crossed' => OneAccount(cred', accounts')
      BY <1>c, <2>1, <3>1, <3>4 DEF OneAccount
    <3>. QED BY <1>0, <1>a, <2>1, <3>1, <3>2, <3>3, <3>5, <3>6, <3>7, <3>8, RequestSteps
  <2>. QED BY <2>2, <2>3
<1>3. ASSUME NEW c \in Visitors, RegisterWrites(c) PROVE SignInInv'
  <2>. DEFINE id == visitor[c].uid
              doc == [uid |-> id, gated |-> TRUE]
              written == Put(id, doc)
  <2>1. /\ visitor[c].at = "reg_write" /\ UNCHANGED <<cred, verified, spent>>
        /\ \/ /\ accounts' = written /\ Answer(c)
              /\ crossed' = (crossed \/ DOMAIN accounts # {} \/ cred # id \/ Doomed(id))
           \/ /\ accounts' \in {accounts, written} /\ MovesTo(c, "reg_undo")
              /\ crossed' = (crossed \/ DOMAIN accounts' # {})
    BY <1>3 DEF RegisterWrites
  <2>2. id \in spent /\ id \in Ids /\ id # None /\ id # old /\ doc \in Document /\ doc.uid = id
    BY <1>0, <1>a, <2>1 DEF VisitorFits, UidSteps, Document
  <2>3. /\ DOMAIN written = DOMAIN accounts \cup {id} /\ written[id] = doc
        /\ \A i \in DOMAIN accounts : i # id => written[i] = accounts[i]
    BY DEF Put
  <2>. HIDE DEF doc, written
  <2>4. /\ DOMAIN accounts' \subseteq spent /\ \A i \in DOMAIN accounts' : accounts'[i] \in Document
        /\ AccountsFit(old, accounts', spent)
    <3>1. /\ DOMAIN written \subseteq spent /\ \A i \in DOMAIN written : written[i] \in Document
          /\ AccountsFit(old, written, spent)
      BY <1>0, <1>a, <2>2, <2>3 DEF AccountsFit
    <3>. QED BY <1>0, <1>a, <2>1, <3>1
  <2>5. CASE accounts' = written /\ Answer(c)
             /\ crossed' = (crossed \/ DOMAIN accounts # {} \/ cred # id \/ Doomed(id))
    <3>1. visitor' = [visitor EXCEPT ![c] = Resting] /\ crossed' \in BOOLEAN
      BY <2>5 DEF Answer
    <3>2. ASSUME ~crossed'
          PROVE  OneAccount(cred', accounts')
                   /\ \A d \in Visitors : DeletesSafely(visitor[d], cred', accounts')
      <4>1. DOMAIN accounts = {} /\ cred = id /\ ~Doomed(id)
        BY <2>5, <3>2
      <4>2. DOMAIN accounts' = {id} /\ accounts'[id].uid # None /\ cred' = id
        BY <2>1, <2>2, <2>3, <2>5, <4>1
      <4>3. \A d \in Visitors : visitor[d].at \in {"reg_undo", "del_doc", "del_cred"}
                                  => visitor[d].uid # cred'
        BY <4>1, <4>2 DEF Doomed
      <4>. QED BY <2>2, <4>2, <4>3, BoundDocs DEF OneAccount
    <3>. QED BY <1>0, <1>a, <1>b, <2>1, <2>4, <3>1, <3>2, RequestSteps
  <2>6. CASE accounts' \in {accounts, written} /\ MovesTo(c, "reg_undo")
             /\ crossed' = (crossed \/ DOMAIN accounts' # {})
    <3>. DEFINE r == [visitor[c] EXCEPT !.at = "reg_undo"]
    <3>1. visitor' = [visitor EXCEPT ![c] = r] /\ crossed' \in BOOLEAN
      BY <1>d, <2>6 DEF MovesTo
    <3>2. r \in VisitorRecords /\ r.at = "reg_undo" /\ r.id = visitor[c].id /\ r.uid = id
      BY <1>a, RequestGoes DEF VisitSteps
    <3>. HIDE DEF r
    <3>3. VisitorFits(r, old, spent)
      BY <1>0, <2>2, <3>2 DEF VisitorFits
    <3>4. ASSUME ~crossed'
          PROVE  OneAccount(cred', accounts') /\ \A v : DeletesSafely(v, cred', accounts')
      BY <2>6, <3>4 DEF OneAccount, DeletesSafely
    <3>. QED BY <1>0, <1>a, <2>1, <2>4, <3>1, <3>2, <3>3, <3>4, RequestSteps
  <2>. QED BY <2>1, <2>5, <2>6
<1>4. ASSUME NEW c \in Visitors, RegisterUndoes(c) PROVE SignInInv'
  <2>1. /\ visitor[c].at = "reg_undo" /\ visitor' = [visitor EXCEPT ![c] = Resting]
        /\ UNCHANGED <<verified, accounts, spent, crossed>>
        /\ cred' = cred \/ (cred = visitor[c].uid /\ cred' = None)
    BY <1>4 DEF RegisterUndoes, Answer
  <2>2. CASE cred' = cred
    BY <1>0, <1>a, <1>b, <2>1, <2>2, RequestMoves
  <2>3. CASE cred = visitor[c].uid /\ cred' = None
    <3>1. ~crossed => DOMAIN accounts = {}
      BY <1>c, <2>1, <2>3 DEF DeletesSafely
    <3>2. ~crossed => OneAccount(None, accounts)
      BY <3>1 DEF OneAccount
    <3>3. ~crossed => \A d \in Visitors : DeletesSafely(visitor[d], None, accounts)
      BY <1>0, <1>c, NoLogin
    <3>. QED BY <1>0, <1>a, <1>b, <2>1, <2>3, <3>2, <3>3, RequestSteps
  <2>. QED BY <2>1, <2>2, <2>3
<1>5. ASSUME NEW c \in Visitors, Login(c) PROVE SignInInv'
  <2>1. visitor[c].at = "idle" /\ UNCHANGED <<cred, verified, accounts, spent, crossed>>
    BY <1>5 DEF Login
  <2>2. CASE MovesTo(c, "log_verify")
    <3>. DEFINE r == [visitor[c] EXCEPT !.at = "log_verify"]
    <3>1. visitor' = [visitor EXCEPT ![c] = r]
      BY <1>d, <2>2 DEF MovesTo
    <3>2. r \in VisitorRecords /\ r.at = "log_verify" /\ r.id = visitor[c].id
          /\ r.uid = visitor[c].uid
      BY <1>a, RequestGoes DEF VisitSteps
    <3>. HIDE DEF r
    <3>3. VisitorFits(r, old, spent) /\ DeletesSafely(r, cred, accounts)
      BY <1>0, <2>1, <3>2 DEF VisitorFits, DeletesSafely, UidSteps
    <3>. QED BY <1>0, <1>a, <2>1, <3>1, <3>2, <3>3, RequestMoves
  <2>3. ASSUME NEW i \in DOMAIN accounts,
               visitor' = [visitor EXCEPT ![c] = [Resting EXCEPT !.at = "log_verify",
                             !.id = i, !.was = accounts[i].uid, !.gated = accounts[i].gated]]
        PROVE  SignInInv'
    <3>. DEFINE r == [Resting EXCEPT !.at = "log_verify",
                        !.id = i, !.was = accounts[i].uid, !.gated = accounts[i].gated]
    <3>1. /\ r \in VisitorRecords /\ r.at = "log_verify" /\ r.id = i
          /\ r.was = accounts[i].uid /\ r.uid = None
      BY <1>a DEF Resting, VisitorRecords, VisitSteps
    <3>. HIDE DEF r
    <3>2. VisitorFits(r, old, spent) /\ DeletesSafely(r, cred, accounts)
      BY <1>0, <1>a, <3>1 DEF VisitorFits, AccountsFit, DeletesSafely, UidSteps
    <3>3. visitor' = [visitor EXCEPT ![c] = r]
      BY <2>3 DEF r
    <3>. QED BY <1>0, <1>a, <2>1, <3>1, <3>2, <3>3, RequestMoves
  <2>. QED BY <1>5, <2>2, <2>3 DEF Login
<1>6. ASSUME NEW c \in Visitors, LoginVerifies(c) PROVE SignInInv'
  <2>. DEFINE id == visitor[c].id
              legacy == id # None /\ visitor[c].was = None
              uid == IF cred # None THEN cred ELSE IF legacy THEN id ELSE None
              r == IF uid = None THEN Resting
                   ELSE [visitor[c] EXCEPT !.at = "log_bind", !.uid = uid]
  <2>1. /\ visitor[c].at = "log_verify" /\ visitor' = [visitor EXCEPT ![c] = r] /\ cred' = uid
        /\ verified' = (IF cred = None THEN FALSE ELSE verified)
        /\ UNCHANGED <<accounts, spent, crossed>>
    BY <1>6, <1>d DEF LoginVerifies, Answer
  <2>2. /\ uid \in spent \cup {None} /\ uid \in Ids \cup {None} /\ verified' \in BOOLEAN
        /\ id \in spent \cup {None}
        /\ cred = None => uid \in {None, old}
        /\ cred # None => uid = cred
    BY <1>0, <1>a, <2>1 DEF VisitorFits, VisitorRecords
  <2>. HIDE DEF uid
  <2>3. r \in VisitorRecords /\ VisitorFits(r, old, spent)
        /\ \A held, docs : DeletesSafely(r, held, docs)
    <3>1. CASE uid = None
      BY <1>b, <3>1
    <3>2. CASE uid # None
      <4>. DEFINE w == [visitor[c] EXCEPT !.at = "log_bind", !.uid = uid]
      <4>1. w \in VisitorRecords /\ w.at = "log_bind" /\ w.uid = uid /\ w.id = id
        BY <1>a, <2>2 DEF VisitorRecords, VisitSteps
      <4>. HIDE DEF w
      <4>2. VisitorFits(w, old, spent)
        <5>1. w.id \in spent \cup {None} /\ w.uid \in spent \cup {None} /\ w.uid # None
          BY <2>2, <3>2, <4>1
        <5>. QED BY <4>1, <5>1 DEF VisitorFits
      <4>4. \A held, docs : DeletesSafely(w, held, docs)
        BY <4>1 DEF DeletesSafely
      <4>3. r = w
        BY <3>2 DEF w
      <4>. QED BY <4>1, <4>2, <4>3, <4>4
    <3>. QED BY <3>1, <3>2
  <2>. HIDE DEF r
  <2>4. ASSUME ~crossed
        PROVE  OneAccount(uid, accounts)
                 /\ \A d \in Visitors : DeletesSafely(visitor[d], uid, accounts)
    <3>1. CASE uid = cred
      BY <1>c, <2>4, <3>1
    <3>2. CASE cred = None /\ uid = old
      <4>1. OneAccount(None, accounts) /\ \A d \in Visitors : DeletesSafely(visitor[d], None, accounts)
        BY <1>c, <2>4, <3>2
      <4>2. \A d \in Visitors : DeletesSafely(visitor[d], old, accounts)
        BY <1>0, <4>1, OldLogin
      <4>3. OneAccount(old, accounts)
        BY <4>1 DEF OneAccount
      <4>. QED BY <3>2, <4>2, <4>3
    <3>. QED BY <2>2, <3>1, <3>2
  <2>. QED BY <1>0, <1>a, <2>1, <2>2, <2>3, <2>4, RequestSteps
<1>7. ASSUME NEW c \in Visitors, LoginBinds(c) PROVE SignInInv'
  <2>. DEFINE found == visitor[c].id # None
              uid == visitor[c].uid
              id == IF found THEN visitor[c].id ELSE uid
              there == id \in DOMAIN accounts
              doc == [uid |-> uid, gated |-> found /\ there /\ accounts[id].gated]
              r == [visitor[c] EXCEPT !.at = "log_gate", !.id = id]
  <2>1. /\ visitor[c].at = "log_bind" /\ visitor' = [visitor EXCEPT ![c] = r]
        /\ accounts' = IF found /\ visitor[c].was = uid THEN accounts ELSE Put(id, doc)
        /\ crossed' = (crossed \/ cred # uid \/ Doomed(uid)
                         \/ IF found THEN ~there ELSE DOMAIN accounts # {})
        /\ UNCHANGED <<cred, verified, spent>>
    BY <1>7, <1>d DEF LoginBinds
  <2>2. /\ uid \in spent /\ uid \in Ids /\ uid # None /\ id \in spent /\ id \in Ids
        /\ doc.uid = uid /\ crossed' \in BOOLEAN
    BY <1>0, <1>a, <2>1 DEF VisitorFits, UidSteps
  <2>3. doc \in Document
    BY <1>a, <2>2 DEF Document
  <2>4. /\ DOMAIN Put(id, doc) = DOMAIN accounts \cup {id} /\ Put(id, doc)[id] = doc
        /\ \A i \in DOMAIN accounts : i # id => Put(id, doc)[i] = accounts[i]
    BY DEF Put
  <2>5. r \in VisitorRecords /\ r.at = "log_gate" /\ r.id = id /\ r.uid = uid
    BY <1>a, <2>2 DEF VisitorRecords, VisitSteps
  <2>. HIDE DEF r, doc
  <2>6. VisitorFits(r, old, spent) /\ \A held, docs : DeletesSafely(r, held, docs)
    <3>1. VisitorFits(r, old, spent)
      BY <2>2, <2>5 DEF VisitorFits, UidSteps
    <3>2. \A held, docs : DeletesSafely(r, held, docs)
      BY <2>5 DEF DeletesSafely
    <3>. QED BY <3>1, <3>2
  <2>7. CASE found /\ visitor[c].was = uid
    BY <1>0, <1>a, <2>1, <2>2, <2>5, <2>6, <2>7, RequestMoves
  <2>8. CASE ~(found /\ visitor[c].was = uid)
    <3>. DEFINE docs == Put(id, doc)
    <3>1. accounts' = docs
      BY <2>1, <2>8
    <3>. HIDE DEF docs
    <3>2. /\ DOMAIN docs = DOMAIN accounts \cup {id} /\ docs[id] = doc
          /\ \A i \in DOMAIN accounts : i # id => docs[i] = accounts[i]
      BY <2>4 DEF docs
    <3>3. /\ DOMAIN docs \subseteq spent /\ \A i \in DOMAIN docs : docs[i] \in Document
          /\ AccountsFit(old, docs, spent)
      BY <1>0, <1>a, <2>2, <2>3, <3>2 DEF AccountsFit
    <3>4. ASSUME ~crossed'
          PROVE  OneAccount(cred, docs)
                   /\ \A d \in Visitors : DeletesSafely(visitor[d], cred, docs)
      <4>1. /\ ~crossed /\ cred = uid /\ ~Doomed(uid)
            /\ IF found THEN there ELSE DOMAIN accounts = {}
        BY <2>1, <3>4
      <4>2. \A i, j \in DOMAIN accounts : i = j
        BY <1>c, <4>1 DEF OneAccount
      <4>3. \A i \in DOMAIN docs : i = id /\ docs[i].uid # None
        BY <2>2, <3>2, <4>1, <4>2
      <4>4. \A d \in Visitors : visitor[d].at \in {"reg_undo", "del_doc", "del_cred"}
                                  => visitor[d].uid # cred
        BY <4>1 DEF Doomed
      <4>5. \A d \in Visitors : DeletesSafely(visitor[d], cred, docs)
        BY <4>3, <4>4, BoundDocs
      <4>. QED BY <2>2, <4>1, <4>3, <4>5 DEF OneAccount
    <3>5. /\ visitor' = [visitor EXCEPT ![c] = r] /\ VisitorFits(r, old, spent')
          /\ UNCHANGED <<cred, verified, spent>> /\ crossed' \in BOOLEAN
      BY <2>1, <2>2, <2>6
    <3>6. /\ DOMAIN accounts' \subseteq spent' /\ \A i \in DOMAIN accounts' : accounts'[i] \in Document
          /\ AccountsFit(old, accounts', spent')
      BY <3>1, <3>3, <3>5
    <3>7. ~crossed' => /\ OneAccount(cred', accounts') /\ DeletesSafely(r, cred', accounts')
                       /\ \A d \in Visitors : DeletesSafely(visitor[d], cred', accounts')
      BY <2>6, <3>1, <3>4, <3>5
    <3>. HIDE DEF found, there
    <3>. QED BY <1>0, <1>a, <2>5, <3>5, <3>6, <3>7, RequestSteps
  <2>. QED BY <2>7, <2>8
<1>8. ASSUME NEW c \in Visitors, LoginGates(c) PROVE SignInInv'
  <2>1. /\ visitor[c].at = "log_gate" /\ UNCHANGED <<cred, verified, accounts, spent, crossed>>
        /\ MovesTo(c, "log_clear") \/ Answer(c)
    BY <1>8 DEF LoginGates
  <2>2. CASE MovesTo(c, "log_clear")
    <3>. DEFINE r == [visitor[c] EXCEPT !.at = "log_clear"]
    <3>1. visitor' = [visitor EXCEPT ![c] = r]
      BY <1>d, <2>2 DEF MovesTo
    <3>2. r \in VisitorRecords /\ r.at = "log_clear" /\ r.id = visitor[c].id
          /\ r.uid = visitor[c].uid
      BY <1>a, RequestGoes DEF VisitSteps
    <3>. HIDE DEF r
    <3>3. VisitorFits(r, old, spent) /\ DeletesSafely(r, cred, accounts)
      BY <1>0, <2>1, <3>2 DEF VisitorFits, DeletesSafely, UidSteps
    <3>. QED BY <1>0, <1>a, <2>1, <3>1, <3>2, <3>3, RequestMoves
  <2>3. CASE Answer(c)
    BY <1>0, <1>a, <1>b, <2>1, <2>3, RequestMoves DEF Answer
  <2>. QED BY <2>1, <2>2, <2>3
<1>9. ASSUME NEW c \in Visitors, LoginClears(c) PROVE SignInInv'
  <2>1. /\ visitor' = [visitor EXCEPT ![c] = Resting] /\ UNCHANGED <<cred, verified, spent, crossed>>
        /\ accounts' = IF visitor[c].id \in DOMAIN accounts
                       THEN [accounts EXCEPT ![visitor[c].id].gated = FALSE] ELSE accounts
    BY <1>9 DEF LoginClears, Answer
  <2>2. /\ DOMAIN accounts' = DOMAIN accounts
        /\ \A i \in DOMAIN accounts : /\ accounts'[i].uid = accounts[i].uid
                                      /\ accounts'[i] \in Document
    BY <1>a, <2>1 DEF Document
  <2>3. AccountsFit(old, accounts', spent)
    BY <1>0, <2>2 DEF AccountsFit
  <2>4. ~crossed => OneAccount(cred, accounts')
    BY <1>c, <2>2 DEF OneAccount
  <2>5. ~crossed => \A d \in Visitors : DeletesSafely(visitor[d], cred, accounts')
    BY <1>c, <2>2, FewerDocs
  <2>. QED BY <1>0, <1>a, <1>b, <2>1, <2>2, <2>3, <2>4, <2>5, RequestSteps
<1>10. ASSUME NEW c \in Visitors, Oauth(c) PROVE SignInInv'
  <2>1. cred # None /\ UNCHANGED <<cred, verified, accounts, spent, crossed>>
    BY <1>10 DEF Oauth
  <2>2. CASE Answer(c)
    BY <1>0, <1>a, <1>b, <2>1, <2>2, RequestMoves DEF Answer
  <2>3. CASE ~Answer(c)
    <3>. DEFINE r == [Resting EXCEPT !.at = "oauth_email", !.uid = cred, !.gated = ~verified]
    <3>1. visitor' = [visitor EXCEPT ![c] = r]
      BY <1>10, <2>3 DEF Oauth
    <3>2. r \in VisitorRecords /\ r.at = "oauth_email" /\ r.id = None /\ r.uid = cred
      BY <1>a DEF Resting, VisitorRecords, VisitSteps
    <3>. HIDE DEF r
    <3>3. VisitorFits(r, old, spent) /\ DeletesSafely(r, cred, accounts)
      BY <1>a, <2>1, <3>2 DEF VisitorFits, DeletesSafely, UidSteps
    <3>. QED BY <1>0, <1>a, <2>1, <3>1, <3>2, <3>3, RequestMoves
  <2>. QED BY <2>2, <2>3
<1>11. ASSUME NEW c \in Visitors, OauthByEmail(c) PROVE SignInInv'
  <2>1. visitor[c].at = "oauth_email" /\ UNCHANGED <<cred, verified, accounts, spent, crossed>>
    BY <1>11 DEF OauthByEmail
  <2>2. CASE MovesTo(c, "oauth_create")
    <3>. DEFINE r == [visitor[c] EXCEPT !.at = "oauth_create"]
    <3>1. visitor' = [visitor EXCEPT ![c] = r]
      BY <1>d, <2>2 DEF MovesTo
    <3>2. r \in VisitorRecords /\ r.at = "oauth_create" /\ r.id = visitor[c].id
          /\ r.uid = visitor[c].uid
      BY <1>a, RequestGoes DEF VisitSteps
    <3>. HIDE DEF r
    <3>3. VisitorFits(r, old, spent) /\ DeletesSafely(r, cred, accounts)
      BY <1>0, <2>1, <3>2 DEF VisitorFits, DeletesSafely, UidSteps
    <3>. QED BY <1>0, <1>a, <2>1, <3>1, <3>2, <3>3, RequestMoves
  <2>3. CASE Answer(c)
    BY <1>0, <1>a, <1>b, <2>1, <2>3, RequestMoves DEF Answer
  <2>4. ASSUME NEW i \in DOMAIN accounts,
               visitor' = [visitor EXCEPT ![c].at = "oauth_link", ![c].id = i]
        PROVE  SignInInv'
    <3>. DEFINE r == [visitor[c] EXCEPT !.at = "oauth_link", !.id = i]
    <3>1. visitor' = [visitor EXCEPT ![c] = r]
      BY <1>d, <2>4
    <3>2. r \in VisitorRecords /\ r.at = "oauth_link" /\ r.id = i /\ r.uid = visitor[c].uid
      BY <1>a DEF VisitorRecords, VisitSteps
    <3>. HIDE DEF r
    <3>3. VisitorFits(r, old, spent) /\ DeletesSafely(r, cred, accounts)
      BY <1>0, <1>a, <2>1, <3>2 DEF VisitorFits, DeletesSafely, UidSteps
    <3>. QED BY <1>0, <1>a, <2>1, <3>1, <3>2, <3>3, RequestMoves
  <2>. QED BY <1>11, <2>2, <2>3, <2>4 DEF OauthByEmail
<1>12. ASSUME NEW c \in Visitors, OauthLinks(c) PROVE SignInInv'
  <2>. DEFINE id == visitor[c].id
              uid == visitor[c].uid
  <2>1. /\ visitor[c].at = "oauth_link" /\ visitor' = [visitor EXCEPT ![c] = Resting]
        /\ accounts' = IF id \in DOMAIN accounts THEN [accounts EXCEPT ![id].uid = uid] ELSE accounts
        /\ crossed' = (crossed \/ cred # uid) /\ UNCHANGED <<cred, verified, spent>>
    BY <1>12 DEF OauthLinks, Answer
  <2>2. uid \in spent /\ uid \in Ids /\ uid # None
    BY <1>0, <1>a, <2>1 DEF VisitorFits, UidSteps
  <2>3. /\ DOMAIN accounts' = DOMAIN accounts /\ crossed' \in BOOLEAN
        /\ \A i \in DOMAIN accounts : /\ accounts'[i].uid \in {accounts[i].uid, uid}
                                      /\ accounts'[i] \in Document
    BY <1>a, <2>1, <2>2 DEF Document
  <2>4. AccountsFit(old, accounts', spent)
    BY <1>0, <2>2, <2>3 DEF AccountsFit
  <2>5. ~crossed' => OneAccount(cred, accounts')
    BY <1>c, <2>1, <2>2, <2>3 DEF OneAccount
  <2>6. ~crossed' => \A d \in Visitors : DeletesSafely(visitor[d], cred, accounts')
    <3>1. \A i \in DOMAIN accounts' : accounts'[i].uid = None => accounts[i].uid = None
      BY <2>2, <2>3
    <3>2. ~crossed' => ~crossed
      BY <2>1
    <3>. QED BY <1>c, <2>3, <3>1, <3>2, FewerDocs
  <2>. QED BY <1>0, <1>a, <1>b, <2>1, <2>3, <2>4, <2>5, <2>6, RequestSteps
<1>13. ASSUME NEW c \in Visitors, OauthCreates(c) PROVE SignInInv'
  <2>. DEFINE uid == visitor[c].uid
              doc == [uid |-> uid, gated |-> FALSE]
  <2>1. PICK i \in Ids : /\ i \notin spent /\ accounts' = Put(i, doc) /\ spent' = spent \cup {i}
                         /\ visitor[c].at = "oauth_create"
                         /\ visitor' = [visitor EXCEPT ![c] = Resting]
                         /\ crossed' = (crossed \/ DOMAIN accounts # {} \/ cred # uid \/ Doomed(uid))
                         /\ UNCHANGED <<cred, verified>>
    BY <1>13 DEF OauthCreates, Answer, NewId
  <2>2. /\ uid \in spent /\ uid \in Ids /\ uid # None /\ doc \in Document /\ doc.uid = uid
        /\ crossed' \in BOOLEAN
    BY <1>0, <1>a, <2>1 DEF VisitorFits, UidSteps, Document
  <2>. HIDE DEF doc
  <2>3. /\ DOMAIN accounts' = DOMAIN accounts \cup {i} /\ accounts'[i] = doc
        /\ \A j \in DOMAIN accounts : accounts'[j] = accounts[j]
    BY <1>a, <2>1 DEF Put
  <2>4. /\ DOMAIN accounts' \subseteq spent' /\ \A j \in DOMAIN accounts' : accounts'[j] \in Document
        /\ AccountsFit(old, accounts', spent')
    BY <1>0, <1>a, <2>1, <2>2, <2>3 DEF AccountsFit
  <2>5. ASSUME ~crossed'
        PROVE  OneAccount(cred, accounts')
                 /\ \A d \in Visitors : DeletesSafely(visitor[d], cred, accounts')
    <3>1. DOMAIN accounts = {} /\ cred = uid /\ ~Doomed(uid)
      BY <2>1, <2>5
    <3>2. DOMAIN accounts' = {i} /\ accounts'[i].uid # None /\ cred # None
      BY <2>2, <2>3, <3>1
    <3>3. \A d \in Visitors : visitor[d].at \in {"reg_undo", "del_doc", "del_cred"}
                                => visitor[d].uid # cred
      BY <3>1 DEF Doomed
    <3>. QED BY <3>2, <3>3, BoundDocs DEF OneAccount
  <2>. QED BY <1>0, <1>a, <1>b, <2>1, <2>2, <2>4, <2>5, RequestSteps
<1>14. ASSUME NEW c \in Visitors, DeleteAccount(c) PROVE SignInInv'
  <2>1. PICK i \in DOMAIN accounts :
          /\ visitor' = [visitor EXCEPT ![c] = [Resting EXCEPT !.at = "del_doc", !.id = i,
                           !.uid = IF accounts[i].uid = None THEN i ELSE accounts[i].uid]]
          /\ UNCHANGED <<cred, verified, accounts, spent, crossed>>
    BY <1>14 DEF DeleteAccount
  <2>. DEFINE uid == IF accounts[i].uid = None THEN i ELSE accounts[i].uid
              r == [Resting EXCEPT !.at = "del_doc", !.id = i, !.uid = uid]
  <2>2. uid \in spent /\ uid \in Ids /\ uid # None
    BY <1>0, <1>a DEF AccountsFit
  <2>3. visitor' = [visitor EXCEPT ![c] = r]
    BY <2>1
  <2>. HIDE DEF uid
  <2>4. r \in VisitorRecords /\ r.at = "del_doc" /\ r.id = i /\ r.uid = uid
    BY <1>a, <2>2 DEF Resting, VisitorRecords, VisitSteps
  <2>. HIDE DEF r
  <2>5. VisitorFits(r, old, spent)
    BY <1>a, <2>2, <2>4 DEF VisitorFits
  <2>6. ~crossed => DeletesSafely(r, cred, accounts)
    BY <1>c, <2>4 DEF OneAccount, DeletesSafely
  <2>. QED BY <1>0, <1>a, <2>1, <2>3, <2>4, <2>5, <2>6, RequestMoves
<1>15. ASSUME NEW c \in Visitors, DeletesDocument(c) PROVE SignInInv'
  <2>. DEFINE r == [visitor[c] EXCEPT !.at = "del_cred"]
  <2>1. /\ visitor[c].at = "del_doc" /\ accounts' = Without(visitor[c].id)
        /\ visitor' = [visitor EXCEPT ![c] = r] /\ UNCHANGED <<cred, verified, spent, crossed>>
    BY <1>15, <1>d DEF DeletesDocument, MovesTo
  <2>2. r \in VisitorRecords /\ r.at = "del_cred" /\ r.id = visitor[c].id /\ r.uid = visitor[c].uid
    BY <1>a, RequestGoes DEF VisitSteps
  <2>. HIDE DEF r
  <2>3. /\ DOMAIN accounts' = DOMAIN accounts \ {visitor[c].id}
        /\ \A i \in DOMAIN accounts' : accounts'[i] = accounts[i]
    BY <2>1 DEF Without
  <2>4. VisitorFits(r, old, spent)
    BY <1>0, <2>1, <2>2 DEF VisitorFits, UidSteps
  <2>5. AccountsFit(old, accounts', spent)
    BY <1>0, <2>3 DEF AccountsFit
  <2>6. ASSUME ~crossed PROVE DeletesSafely(r, cred, accounts')
    <3>1. DeletesSafely(visitor[c], cred, accounts)
      BY <1>c, <2>6
    <3>. QED BY <2>1, <2>2, <2>3, <3>1 DEF DeletesSafely
  <2>7. ~crossed => OneAccount(cred, accounts')
    BY <1>c, <2>3 DEF OneAccount
  <2>8. ~crossed => \A d \in Visitors : DeletesSafely(visitor[d], cred, accounts')
    BY <1>c, <2>3, FewerDocs
  <2>. QED BY <1>0, <1>a, <2>1, <2>2, <2>3, <2>4, <2>5, <2>6, <2>7, <2>8, RequestSteps
<1>16. ASSUME NEW c \in Visitors, DeletesLogin(c) PROVE SignInInv'
  <2>1. /\ visitor[c].at = "del_cred" /\ visitor' = [visitor EXCEPT ![c] = Resting]
        /\ UNCHANGED <<verified, accounts, spent, crossed>>
        /\ cred' = cred \/ (cred = visitor[c].uid /\ cred' = None)
    BY <1>16 DEF DeletesLogin, Answer
  <2>2. CASE cred' = cred
    BY <1>0, <1>a, <1>b, <2>1, <2>2, RequestMoves
  <2>3. CASE cred = visitor[c].uid /\ cred' = None
    <3>1. ~crossed => DOMAIN accounts = {}
      BY <1>c, <2>1, <2>3 DEF DeletesSafely
    <3>2. ~crossed => OneAccount(None, accounts)
      BY <3>1 DEF OneAccount
    <3>3. ~crossed => \A d \in Visitors : DeletesSafely(visitor[d], None, accounts)
      BY <1>0, <1>c, NoLogin
    <3>. QED BY <1>0, <1>a, <1>b, <2>1, <2>3, <3>2, <3>3, RequestSteps
  <2>. QED BY <2>1, <2>2, <2>3
<1>17. ASSUME NEW c \in Visitors, Dies(c) PROVE SignInInv'
  BY <1>0, <1>a, <1>b, <1>17, RequestMoves DEF Dies, Answer
<1>18. CASE ProviderSignsUp
  <2>1. PICK i \in Ids : /\ i \notin spent /\ cred' = i /\ spent' = spent \cup {i}
                         /\ verified' \in BOOLEAN /\ UNCHANGED <<accounts, visitor, crossed>>
    BY <1>18 DEF ProviderSignsUp, NewId
  <2>2. i # None /\ i \notin spent \cup {None}
    BY <1>a, <2>1
  <2>3. SignInTyped' /\ cred' \in spent' \cup {None}
    BY <2>1 DEF SignInInv, SignInTyped
  <2>4. AccountsFit(old, accounts', spent')
    BY <1>0, <2>1 DEF AccountsFit
  <2>5. \A d \in Visitors : VisitorFits(visitor[d], old, spent')
    BY <1>0, <2>1 DEF VisitorFits
  <2>6. ~crossed => \A d \in Visitors : DeletesSafely(visitor[d], i, accounts)
    BY <1>0, <1>c, <2>1, <2>2, FreshLogin
  <2>7. ~crossed => OneAccount(i, accounts)
    BY <1>c, <2>2 DEF OneAccount
  <2>. QED BY <2>1, <2>3, <2>4, <2>5, <2>6, <2>7 DEF SignInInv
<1>19. CASE FollowsLink
  BY <1>19 DEF FollowsLink, SignInInv, SignInTyped
<1>20. CASE UNCHANGED signInVars
  BY <1>20 DEF signInVars, SignInInv, SignInTyped
<1>. QED BY <1>1, <1>2, <1>3, <1>4, <1>5, <1>6, <1>7, <1>8, <1>9, <1>10, <1>11, <1>12, <1>13,
            <1>14, <1>15, <1>16, <1>17, <1>18, <1>19, <1>20 DEF SignInNext

\* For any number of requests and ids: once every request has ended or died,
\* and unless two of them crossed, an account has a credential or the hash it
\* had before there were any - a registration that fails midway, a login that
\* binds the old account, a sign-in with a provider and a deletion that stops
\* after the document leave none that cannot be signed in to (register, login,
\* oauth_auth, delete_my_account).
THEOREM AccountStaysReachable == SignInSpec => []AccountReachable
<1>1. SignInInv => AccountReachable
  BY DEF SignInInv, OneAccount, AccountReachable
<1>. QED BY <1>1, SignInStarts, SignInStep, PTL DEF SignInSpec

------------------------------------------------------------------------------
(***************************************************************************)
(* LoginGuard.  A wrong password is counted, on its way to be counted or   *)
(* skipped; a login that may still try one was let in below the limit, or  *)
(* by a check that was skipped.                                            *)
(***************************************************************************)
AtStep(step) == {l \in Logins : login[l] = step}
Trying == Cardinality(AtStep("password"))
Counting == Cardinality(AtStep("failed"))

GuardInv ==
    /\ attempts \in Nat /\ tried \in Nat /\ skipped \in Nat
    /\ login \in [Logins -> {"idle", "password", "failed", "expire", "clear"}]
    /\ tried <= attempts + Counting + skipped
    /\ tried + Trying + 1 <= MaxAttempts + Cardinality(Logins) + skipped
    /\ attempts > 0 => expiring \/ unending \/ AtStep("expire") # {}

\* How many logins are where, and how one that moves changes that.
LEMMA Counts ==
    ASSUME GuardInv
    PROVE  /\ Trying \in Nat /\ Counting \in Nat /\ Cardinality(Logins) \in Nat
           /\ Trying + Counting <= Cardinality(Logins)
           /\ \A l \in Logins : login[l] \notin {"password", "failed"}
                => Trying + Counting + 1 <= Cardinality(Logins)
<1>. DEFINE P == AtStep("password")  F == AtStep("failed")
<1>1. /\ IsFiniteSet(P) /\ IsFiniteSet(F) /\ P \cap F = {}
      /\ P \subseteq Logins /\ F \subseteq Logins
  BY GuardAssumption, FS_Subset DEF AtStep
<1>2. /\ Cardinality(P) \in Nat /\ Cardinality(F) \in Nat /\ Cardinality(Logins) \in Nat
  BY <1>1, GuardAssumption, FS_CardinalityType
<1>3. IsFiniteSet(P \cup F) /\ Cardinality(P \cup F) = Cardinality(P) + Cardinality(F)
  <2>1. Cardinality(P \cap F) = 0
    BY <1>1, FS_EmptySet
  <2>2. /\ IsFiniteSet(P \cup F)
        /\ Cardinality(P \cup F) = Cardinality(P) + Cardinality(F) - Cardinality(P \cap F)
    BY <1>1, FS_Union
  <2>. QED BY <1>2, <2>1, <2>2
<1>4. Cardinality(P \cup F) <= Cardinality(Logins)
  BY <1>1, GuardAssumption, FS_Subset
<1>5. ASSUME NEW l \in Logins, login[l] \notin {"password", "failed"}
      PROVE  Cardinality(P) + Cardinality(F) + 1 <= Cardinality(Logins)
  <2>1. l \notin P \cup F /\ (P \cup F) \cup {l} \subseteq Logins
    BY <1>1, <1>5 DEF AtStep
  <2>2. Cardinality((P \cup F) \cup {l}) = Cardinality(P \cup F) + 1
    BY <1>3, <2>1, FS_AddElement
  <2>3. Cardinality((P \cup F) \cup {l}) <= Cardinality(Logins)
    BY <2>1, GuardAssumption, FS_Subset
  <2>. QED BY <1>2, <1>3, <2>2, <2>3
<1>. QED BY <1>2, <1>3, <1>4, <1>5 DEF Trying, Counting

LEMMA OneGoes ==
    ASSUME GuardInv, NEW l \in Logins, NEW step \in {"idle", "password", "failed", "expire", "clear"},
           login[l] # step, At(l, step), NEW s
    PROVE  /\ s = step => Cardinality(AtStep(s))' = Cardinality(AtStep(s)) + 1
           /\ s = login[l] => Cardinality(AtStep(s))' = Cardinality(AtStep(s)) - 1
           /\ s \notin {step, login[l]} => AtStep(s)' = AtStep(s)
<1>1. login' = [login EXCEPT ![l] = step]
  BY DEF At
<1>2. IsFiniteSet(AtStep(s)) /\ Cardinality(AtStep(s)) \in Nat
  BY GuardAssumption, FS_Subset, FS_CardinalityType DEF AtStep
<1>3. ASSUME s = step PROVE Cardinality(AtStep(s))' = Cardinality(AtStep(s)) + 1
  <2>1. AtStep(s)' = AtStep(s) \cup {l} /\ l \notin AtStep(s)
    BY <1>1, <1>3 DEF AtStep, GuardInv
  <2>. QED BY <1>2, <2>1, FS_AddElement
<1>4. ASSUME s = login[l] PROVE Cardinality(AtStep(s))' = Cardinality(AtStep(s)) - 1
  <2>1. AtStep(s)' = AtStep(s) \ {l} /\ l \in AtStep(s)
    BY <1>1, <1>4 DEF AtStep, GuardInv
  <2>. QED BY <1>2, <2>1, FS_RemoveElement
<1>5. ASSUME s \notin {step, login[l]} PROVE AtStep(s)' = AtStep(s)
  BY <1>1, <1>5 DEF AtStep, GuardInv
<1>. QED BY <1>3, <1>4, <1>5

LEMMA GuardStarts == GuardInit => GuardInv
<1>. SUFFICES ASSUME GuardInit PROVE GuardInv
  OBVIOUS
<1>1. AtStep("password") = {} /\ AtStep("failed") = {}
  BY DEF GuardInit, AtStep
<1>2. Trying = 0 /\ Counting = 0
  BY <1>1, FS_EmptySet DEF Trying, Counting
<1>3. Cardinality(Logins) \in Nat
  BY GuardAssumption, FS_CardinalityType
<1>. QED BY <1>2, <1>3, GuardAssumption DEF GuardInit, GuardInv

LEMMA GuardStep == GuardInv /\ [GuardNext]_guardVars => GuardInv'
<1>. SUFFICES ASSUME GuardInv, [GuardNext]_guardVars PROVE GuardInv'
  OBVIOUS
<1>0. /\ Trying \in Nat /\ Counting \in Nat /\ Cardinality(Logins) \in Nat
      /\ Trying + Counting <= Cardinality(Logins)
      /\ MaxAttempts \in Nat /\ MaxAttempts > 0
  BY Counts, GuardAssumption
<1>1. ASSUME NEW l \in Logins, CheckLockout(l) PROVE GuardInv'
  <2>1. login[l] = "idle" /\ At(l, "password") /\ UNCHANGED <<attempts, expiring, tried, unending>>
    BY <1>1 DEF CheckLockout
  <2>2. Trying' = Trying + 1 /\ Counting' = Counting /\ AtStep("expire")' = AtStep("expire")
    BY <2>1, OneGoes DEF Trying, Counting
  <2>3. Trying + Counting + 1 <= Cardinality(Logins)
    BY <2>1, Counts
  <2>4. \/ attempts + 1 <= MaxAttempts /\ skipped' = skipped
        \/ skipped' = skipped + 1
    BY <1>0, <1>1 DEF CheckLockout, Locked, Skip, GuardInv
  <2>. QED BY <1>0, <2>1, <2>2, <2>3, <2>4 DEF GuardInv, At
<1>2. ASSUME NEW l \in Logins, Wrong(l) PROVE GuardInv'
  <2>1. /\ login[l] = "password" /\ At(l, "failed") /\ tried' = tried + 1
        /\ UNCHANGED <<attempts, expiring, skipped, unending>>
    BY <1>2 DEF Wrong
  <2>2. Trying' = Trying - 1 /\ Counting' = Counting + 1 /\ AtStep("expire")' = AtStep("expire")
    BY <2>1, OneGoes DEF Trying, Counting
  <2>. QED BY <1>0, <2>1, <2>2 DEF GuardInv, At
<1>3. ASSUME NEW l \in Logins, Right(l) PROVE GuardInv'
  <2>1. /\ login[l] = "password" /\ At(l, "clear")
        /\ UNCHANGED <<attempts, expiring, tried, skipped, unending>>
    BY <1>3 DEF Right
  <2>2. Trying' = Trying - 1 /\ Counting' = Counting /\ AtStep("expire")' = AtStep("expire")
    BY <2>1, OneGoes DEF Trying, Counting
  <2>. QED BY <1>0, <2>1, <2>2 DEF GuardInv, At
<1>4. ASSUME NEW l \in Logins, Increment(l) PROVE GuardInv'
  <2>1. login[l] = "failed" /\ UNCHANGED <<expiring, tried, unending>>
    BY <1>4 DEF Increment
  <2>2. CASE attempts' = attempts + 1 /\ UNCHANGED skipped
             /\ At(l, IF attempts = 0 THEN "expire" ELSE "idle")
    <3>1. CASE attempts = 0
      <4>1. At(l, "expire")
        BY <2>2, <3>1
      <4>2. Trying' = Trying /\ Counting' = Counting - 1
        BY <2>1, <4>1, OneGoes DEF Trying, Counting
      <4>3. l \in AtStep("expire")'
        BY <4>1 DEF At, AtStep, GuardInv
      <4>. QED BY <1>0, <2>1, <2>2, <4>1, <4>2, <4>3 DEF GuardInv, At
    <3>2. CASE attempts # 0
      <4>1. At(l, "idle")
        BY <2>2, <3>2
      <4>2. Trying' = Trying /\ Counting' = Counting - 1 /\ AtStep("expire")' = AtStep("expire")
        BY <2>1, <4>1, OneGoes DEF Trying, Counting
      <4>. QED BY <1>0, <2>1, <2>2, <3>2, <4>1, <4>2 DEF GuardInv, At
    <3>. QED BY <3>1, <3>2
  <2>3. CASE Skip /\ At(l, "idle") /\ UNCHANGED attempts
    <3>1. Trying' = Trying /\ Counting' = Counting - 1 /\ AtStep("expire")' = AtStep("expire")
      BY <2>1, <2>3, OneGoes DEF Trying, Counting
    <3>. QED BY <1>0, <2>1, <2>3, <3>1 DEF GuardInv, At, Skip
  <2>. QED BY <1>4, <2>2, <2>3 DEF Increment
<1>5. ASSUME NEW l \in Logins, StartWindow(l) PROVE GuardInv'
  <2>1. /\ login[l] = "expire" /\ At(l, "idle") /\ UNCHANGED <<attempts, tried, skipped>>
        /\ attempts > 0 => expiring' \/ unending'
    BY <1>5 DEF StartWindow
  <2>2. Trying' = Trying /\ Counting' = Counting
    BY <2>1, OneGoes DEF Trying, Counting
  <2>. QED BY <1>0, <2>1, <2>2 DEF GuardInv, At
<1>6. ASSUME NEW l \in Logins, ClearAttempts(l) PROVE GuardInv'
  <2>1. login[l] = "clear" /\ At(l, "idle")
    BY <1>6 DEF ClearAttempts
  <2>2. Trying' = Trying /\ Counting' = Counting /\ AtStep("expire")' = AtStep("expire")
    BY <2>1, OneGoes DEF Trying, Counting
  <2>3. CASE KeyGoes
    BY <1>0, <2>1, <2>2, <2>3 DEF KeyGoes, GuardInv, At
  <2>4. CASE UNCHANGED <<attempts, expiring, tried, skipped, unending>>
    BY <1>0, <2>1, <2>2, <2>4 DEF GuardInv, At
  <2>. QED BY <1>6, <2>3, <2>4 DEF ClearAttempts
<1>7. CASE WindowEnds
  <2>1. Trying' = Trying /\ Counting' = Counting
    BY <1>7 DEF WindowEnds, Trying, Counting, AtStep
  <2>. QED BY <1>0, <1>7, <2>1 DEF WindowEnds, KeyGoes, GuardInv
<1>8. CASE UNCHANGED guardVars
  BY <1>8 DEF guardVars, GuardInv, Trying, Counting, AtStep
<1>. QED BY <1>1, <1>2, <1>3, <1>4, <1>5, <1>6, <1>7, <1>8 DEF GuardNext

\* For any number of logins at once and any limit: in the life of a counter at
\* most one wrong password per login in flight is tried beyond the limit,
\* besides those a failing Redis let pass, and a counter ends by itself unless
\* its expiry was lost (check_not_locked_out, record_failed_attempt).
THEOREM LockoutHoldsForAll == GuardSpec => []LockoutHolds
<1>1. GuardInv => LockoutHolds
  <2>. SUFFICES ASSUME GuardInv PROVE LockoutHolds
    OBVIOUS
  <2>1. Trying \in Nat /\ Cardinality(Logins) \in Nat /\ MaxAttempts \in Nat
    BY Counts, GuardAssumption
  <2>2. tried + 1 <= MaxAttempts + Cardinality(Logins) + skipped
    BY <2>1 DEF GuardInv
  <2>. QED BY <2>2 DEF GuardInv, LockoutHolds, AtStep
<1>. QED BY <1>1, GuardStarts, GuardStep, PTL DEF GuardSpec

------------------------------------------------------------------------------
(***************************************************************************)
(* DeviceLogin.  A key is handed over from a document that still carries   *)
(* its expiry, and is deleted with it; what an approval in flight merges   *)
(* back has none, and so counts as expired.                                *)
(***************************************************************************)
\* The keys a document or a request can hold.
MintedOrNone == minted \cup {NoKey}

\* What a poll and a request that mints have read.
PollRecords == [at : {"idle", "take", "drop"}, key : Keys \cup {NoKey}, after : BOOLEAN]

\* An approval or a request of the dashboard.
MintRecords == [at : {"idle", "matched", "counted", "stored"}, key : Keys \cup {NoKey}]

\* The keys that are about are minted; once one was delivered no document
\* carries an expiry, and so none is taken to be current.
DeviceInv ==
    /\ DeviceTyped
    /\ grant.key \in MintedOrNone
    /\ \A p \in Pollers : poller[p].key \in MintedOrNone
    /\ \A m \in Minters : minter[m].key \in MintedOrNone
    /\ delivered # {} => ~grant.dated
    /\ \A p \in Pollers : poller[p].at = "take" => ~poller[p].after
    /\ DeliveredOnce

\* Initially there is no grant and no key.
LEMMA DeviceStarts == DeviceInit => DeviceInv
<1>. SUFFICES ASSUME DeviceInit PROVE DeviceInv
  OBVIOUS
<1>1. /\ [at |-> "idle", key |-> NoKey, after |-> FALSE] \in PollRecords
      /\ [at |-> "idle", key |-> NoKey] \in MintRecords
      /\ NoGrant \in Grants /\ NoGrant.key = NoKey
  BY DEF PollRecords, MintRecords, NoGrant, Grants
<1>. QED
  BY <1>1 DEF DeviceInit, DeviceInv, DeviceTyped, DeliveredOnce, PollRecords, MintRecords, MintedOrNone

\* A minter goes on with a key that is minted by then.
LEMMA MinterGoes ==
    ASSUME DeviceInv, NEW m \in Minters, NEW step \in {"idle", "matched", "counted", "stored"},
           NEW k \in Keys \cup {NoKey}, Goes(m, step, k), k \in MintedOrNone',
           minted \subseteq minted', minted' \subseteq Keys, active' \subseteq minted',
           UNCHANGED <<grant, overdue, poller, delivered, twice>>
    PROVE  DeviceInv'
<1>1. /\ [at |-> step, key |-> k] \in MintRecords
      /\ minter' = [minter EXCEPT ![m] = [at |-> step, key |-> k]]
  BY DEF MintRecords, Goes
<1>2. /\ minter' \in [Minters -> MintRecords]
      /\ \A n \in Minters : minter'[n].key = IF n = m THEN k ELSE minter[n].key
  BY <1>1 DEF DeviceInv, DeviceTyped, MintRecords
<1>. QED
  BY <1>2 DEF DeviceInv, DeviceTyped, DeliveredOnce, MintedOrNone, MintRecords

\* Every step keeps the invariant; only a start dates a document, and it
\* forgets what was delivered.
LEMMA DeviceStep == DeviceInv /\ [DeviceNext]_deviceVars => DeviceInv'
<1>. SUFFICES ASSUME DeviceInv, [DeviceNext]_deviceVars PROVE DeviceInv'
  OBVIOUS
<1>1. CASE StartLogin
  <2>1. delivered = {} /\ delivered' = {}
    BY <1>1 DEF StartLogin, DeviceInv, DeviceTyped
  <2>2. grant' \in Grants /\ grant'.key = NoKey
    BY <1>1 DEF StartLogin, Grants
  <2>. QED
    BY <1>1, <2>1, <2>2 DEF StartLogin, DeviceInv, DeviceTyped, DeliveredOnce, MintedOrNone
<1>2. CASE TenMinutesPass
  BY <1>2 DEF TenMinutesPass, DeviceInv, DeviceTyped, DeliveredOnce, MintedOrNone
<1>3. ASSUME NEW p \in Pollers, Poll(p) PROVE DeviceInv'
  <2>. DEFINE r == [at |-> IF Outdated THEN "drop" ELSE "take", key |-> grant.key,
                    after |-> delivered # {}]
  <2>1. r \in PollRecords /\ r.key \in MintedOrNone
    BY DEF PollRecords, DeviceInv, DeviceTyped, Grants
  <2>2. r.at = "take" => ~r.after
    BY DEF Outdated, DeviceInv
  <2>3. poller' = [poller EXCEPT ![p] = r]
        /\ UNCHANGED <<grant, overdue, minter, minted, active, delivered, twice>>
    BY <1>3 DEF Poll
  <2>. HIDE DEF r
  <2>. QED
    BY <2>1, <2>2, <2>3 DEF DeviceInv, DeviceTyped, DeliveredOnce, MintedOrNone, PollRecords
<1>4. ASSUME NEW p \in Pollers, PollEnds(p) PROVE DeviceInv'
  <2>1. [at |-> "idle", key |-> NoKey, after |-> FALSE] \in PollRecords
        /\ NoGrant \in Grants /\ NoGrant.key = NoKey /\ ~NoGrant.dated
    BY DEF PollRecords, NoGrant, Grants
  <2>2. /\ poller' = [poller EXCEPT ![p] = [at |-> "idle", key |-> NoKey, after |-> FALSE]]
        /\ grant' = NoGrant /\ UNCHANGED <<overdue, minter, minted, active>>
    BY <1>4 DEF PollEnds
  <2>3. /\ poller' \in [Pollers -> PollRecords]
        /\ \A q \in Pollers : /\ poller'[q].key \in MintedOrNone
                              /\ poller'[q].at = "take" => ~poller'[q].after
    BY <2>1, <2>2 DEF DeviceInv, DeviceTyped, PollRecords, MintedOrNone
  <2>4. delivered' \subseteq minted /\ twice' = twice
    BY <1>4 DEF PollEnds, DeviceInv, DeviceTyped, MintedOrNone
  <2>. QED
    BY <2>1, <2>2, <2>3, <2>4 DEF DeviceInv, DeviceTyped, DeliveredOnce, MintedOrNone, PollRecords
<1>5. ASSUME NEW m \in Minters, Match(m) \/ CountKeys(m) \/ MinterDies(m) PROVE DeviceInv'
  <2>1. PICK step \in {"idle", "matched", "counted", "stored"} : Goes(m, step, NoKey)
    BY <1>5 DEF Match, CountKeys, MinterDies
  <2>2. UNCHANGED <<grant, overdue, poller, minted, active, delivered, twice>>
    BY <1>5 DEF Match, CountKeys, MinterDies
  <2>. QED
    BY <2>1, <2>2, MinterGoes DEF MintedOrNone, DeviceInv, DeviceTyped
<1>6. ASSUME NEW m \in Minters, StoreKey(m) PROVE DeviceInv'
  <2>1. PICK k \in Keys \ minted :
          /\ minted' = minted \cup {k} /\ active' = active \cup {k}
          /\ IF m \in Approvers THEN Goes(m, "stored", k) ELSE Goes(m, "idle", NoKey)
    BY <1>6 DEF StoreKey
  <2>2. PICK step \in {"idle", "stored"}, key \in {k, NoKey} : Goes(m, step, key)
    BY <2>1
  <2>3. UNCHANGED <<grant, overdue, poller, delivered, twice>>
    BY <1>6 DEF StoreKey
  <2>4. minted \subseteq minted' /\ minted' \subseteq Keys /\ active' \subseteq minted'
        /\ key \in MintedOrNone' /\ key \in Keys \cup {NoKey}
    BY <2>1, <2>2 DEF DeviceInv, DeviceTyped, MintedOrNone
  <2>. QED
    BY <2>2, <2>3, <2>4, MinterGoes
<1>7. ASSUME NEW m \in Minters, MergeKey(m) PROVE DeviceInv'
  <2>1. /\ grant' = [state |-> "approved", key |-> minter[m].key, dated |-> grant.dated]
        /\ minter' = [minter EXCEPT ![m] = [at |-> "idle", key |-> NoKey]]
        /\ UNCHANGED <<overdue, poller, minted, active, delivered, twice>>
    BY <1>7 DEF MergeKey, Goes
  <2>2. minter[m] \in MintRecords /\ grant \in Grants /\ minter[m].key \in MintedOrNone
    BY DEF DeviceInv, DeviceTyped, MintRecords
  <2>3. /\ grant' \in Grants /\ grant'.key \in MintedOrNone /\ grant'.dated = grant.dated
        /\ [at |-> "idle", key |-> NoKey] \in MintRecords
    BY <2>1, <2>2 DEF Grants, MintRecords
  <2>4. /\ minter' \in [Minters -> MintRecords]
        /\ \A n \in Minters : minter'[n].key \in MintedOrNone
    BY <2>1, <2>3 DEF DeviceInv, DeviceTyped, MintRecords, MintedOrNone
  <2>. QED
    BY <2>1, <2>3, <2>4 DEF DeviceInv, DeviceTyped, DeliveredOnce, MintedOrNone, MintRecords
<1>8. ASSUME NEW k \in active, Revoke(k) PROVE DeviceInv'
  BY <1>8 DEF Revoke, DeviceInv, DeviceTyped, DeliveredOnce, MintedOrNone
<1>9. CASE UNCHANGED deviceVars
  BY <1>9 DEF deviceVars, DeviceInv, DeviceTyped, DeliveredOnce, MintedOrNone
<1>. QED
  BY <1>1, <1>2, <1>3, <1>4, <1>5, <1>6, <1>7, <1>8, <1>9 DEF DeviceNext

\* For any number of polls, approvals and keys: once a poll was handed the key,
\* no poll that begins later is handed one, although an approval in flight may
\* bring the deleted document back (poll_device_login, approve_device_login).
THEOREM KeyIsDeliveredOnce == DeviceSpec => []DeliveredOnce
<1>1. DeviceInv => DeliveredOnce
  BY DEF DeviceInv
<1>. QED
  BY <1>1, DeviceStarts, DeviceStep, PTL DEF DeviceSpec

------------------------------------------------------------------------------
(***************************************************************************)
(* KeyCache.  What a process remembers of the key it read before the       *)
(* revocation, because the clock is read before the query.                 *)
(***************************************************************************)
CacheInv ==
    /\ seconds \in Nat /\ revoked \in Nat /\ accepted \in Nat
    /\ seconds <= Never /\ revoked <= Never
    /\ revoked # Never => revoked <= seconds
    /\ accepted <= seconds /\ RevocationTakesHold
    /\ cache \in [Servers -> Nat]
    /\ \A p \in Servers : cache[p] <= seconds /\ cache[p] <= revoked
    /\ request \in [KeyCalls -> [at : {"idle", "query", "store"},
                                 by : Servers \cup {"none"}, began : Nat]]
    /\ \A r \in KeyCalls :
         /\ request[r].began <= seconds
         /\ request[r].at = "store" => request[r].began <= revoked

LEMMA CacheStarts == CacheInit => CacheInv
BY CacheAssumption DEF CacheInit, CacheInv, Never, NoRequest, RevocationTakesHold

LEMMA CacheStep == CacheInv /\ [CacheNext]_cacheVars => CacheInv'
<1> SUFFICES ASSUME CacheInv, [CacheNext]_cacheVars PROVE CacheInv'
  OBVIOUS
<1> USE CacheAssumption DEF Never
<1>1. CASE Second
  BY <1>1 DEF Second, CacheInv, RevocationTakesHold
<1>2. CASE RevokeKey
  BY <1>2 DEF RevokeKey, CacheInv, RevocationTakesHold
<1>3. ASSUME NEW r \in KeyCalls, Query(r) PROVE CacheInv'
  <2>1. CASE revoked # Never
    BY <1>3, <2>1 DEF Query, CacheInv, RevocationTakesHold, NoRequest
  <2>2. CASE revoked = Never
    <3>1. /\ request' = [request EXCEPT ![r].at = "store"]
          /\ UNCHANGED <<seconds, revoked, cache, accepted>>
      BY <1>3, <2>2 DEF Query
    <3>2. request[r].began <= revoked
      BY <2>2 DEF CacheInv
    <3> QED
      BY <3>1, <3>2 DEF CacheInv, RevocationTakesHold
  <2> QED
    BY <2>1, <2>2
<1>4. ASSUME NEW r \in KeyCalls, StoreEntry(r) PROVE CacheInv'
  <2> DEFINE b == request[r].began
  <2>1. b \in Nat /\ b <= seconds /\ b <= revoked
    BY <1>4 DEF StoreEntry, CacheInv
  <2>2. /\ cache' = [cache EXCEPT ![request[r].by] = b]
        /\ request' = [request EXCEPT ![r] = NoRequest]
        /\ accepted' = IF b > accepted THEN b ELSE accepted
        /\ UNCHANGED <<seconds, revoked>>
    BY <1>4 DEF StoreEntry, Stamp, AcceptKey
  <2> HIDE DEF b
  <2>3. /\ cache' \in [Servers -> Nat]
        /\ \A p \in Servers : cache'[p] = b \/ cache'[p] = cache[p]
    BY <2>1, <2>2 DEF CacheInv
  <2>4. /\ request' \in [KeyCalls -> [at : {"idle", "query", "store"},
                                      by : Servers \cup {"none"}, began : Nat]]
        /\ \A q \in KeyCalls : request'[q] = IF q = r THEN NoRequest ELSE request[q]
    BY <2>2 DEF CacheInv, NoRequest
  <2>5. accepted' \in Nat /\ accepted' <= seconds /\ accepted' < revoked + CacheTTL
    BY <2>1, <2>2 DEF CacheInv, RevocationTakesHold
  <2> QED
    BY <2>1, <2>2, <2>3, <2>4, <2>5 DEF CacheInv, RevocationTakesHold, NoRequest
<1>5. ASSUME NEW r \in KeyCalls, NEW p \in Servers, BeginCall(r, p) PROVE CacheInv'
  BY <1>5 DEF BeginCall, FreshEntry, AcceptKey, CacheInv, RevocationTakesHold, NoRequest
<1>6. ASSUME NEW p \in Servers, ClearCache(p) PROVE CacheInv'
  BY <1>6 DEF ClearCache, CacheInv, RevocationTakesHold
<1>7. CASE UNCHANGED cacheVars
  BY <1>7 DEF cacheVars, CacheInv, RevocationTakesHold
<1> QED
  BY <1>1, <1>2, <1>3, <1>4, <1>5, <1>6, <1>7 DEF CacheNext

\* For any number of requests and processes, any time to live and however slow
\* the queries: no request that begins a time to live after the revocation is
\* accepted (get_api_key, revoke_api_key).
THEOREM RevokedKeysDieOut == CacheSpec => []RevocationTakesHold
<1>1. CacheInv => RevocationTakesHold
  BY DEF CacheInv
<1> QED
  BY <1>1, CacheStarts, CacheStep, PTL DEF CacheSpec

------------------------------------------------------------------------------
(***************************************************************************)
(* AccountLink.  Of a link that nothing has disturbed, the provider's kind *)
(* of token decides what the calls for a token may hold: GitHub's is never *)
(* replaced, Google's is replaced while the old one stays good, and        *)
(* Supabase's is replaced by one call alone, since a token that was        *)
(* presented is spent.                                                     *)
(***************************************************************************)
\* A callback and the token it brings.
CallbackRecords ==
    [at : {"idle", "read", "exchange", "store"}, flow : Flows \cup {"none"}, token : Nat]

\* A call for a token: the one it read, and the one it was given for it.
TakerRecords == [at : {"idle", "ask", "store", "clear"}, token : Nat, new : Nat]

\* Tokens are numbered as they are granted.
TokensTyped ==
    /\ provider \in {"github", "supabase", "firebase"}
    /\ granted \in Nat /\ honoured \in SUBSET (1 .. granted) /\ account \in 0 .. granted
    /\ callback \in [Callbacks -> CallbackRecords]
    /\ \A c \in Callbacks : callback[c].token <= granted
    /\ taker \in [Takers -> TakerRecords]
    /\ \A k \in Takers : taker[k].token <= granted /\ taker[k].new <= granted
    /\ linked \in BOOLEAN /\ withdrawn \in BOOLEAN /\ excused \in BOOLEAN

\* What the calls for a token hold of a link that none of the three reasons
\* has taken: GitHub's token is not replaced, Google's is replaced while the old
\* one stays good, and Supabase's is replaced by one call alone, the others
\* being left with a token that is good for nothing.
GitHubSound ==
    /\ account \in honoured
    /\ \A k \in Asking : taker[k].at = "ask" /\ taker[k].token = account

\* Google's: every token about is good.
GoogleSound ==
    /\ account \in honoured
    /\ \A k \in Asking : /\ taker[k].at \in {"ask", "store"} /\ taker[k].token \in honoured
                         /\ taker[k].new = 0 \/ taker[k].new \in honoured

\* Supabase's: the stored token is good, or one call is about to store the good
\* one.
SupabaseSound ==
    /\ \A k \in Asking :
         \/ taker[k].at = "ask" /\ (taker[k].token \in honoured => taker[k].token = account)
         \/ /\ taker[k].at = "store" /\ taker[k].new \in honoured /\ account \notin honoured
            /\ \A j \in Asking : taker[j].at = "store" => j = k
    /\ account \in honoured \/ \E k \in Asking : taker[k].at = "store"

\* Each provider's part.
LinkSound ==
    /\ provider = "github" => GitHubSound
    /\ provider = "firebase" => GoogleSound
    /\ provider = "supabase" => SupabaseSound

\* Linked, not revoked, and none of the excuses of LinkKept.
Undisturbed == linked /\ ~excused /\ ~withdrawn

\* The inductive invariant; it says nothing of a link that was disturbed.
LinkInv ==
    /\ TokensTyped
    /\ \A k \in Takers : taker[k].at = "ask" => taker[k].new = 0
    /\ ~linked => account = 0 /\ Asking = {}
    /\ Undisturbed => LinkSound

\* Initially nothing is linked.
LEMMA LinkStarts == AccountInit => LinkInv
<1>. SUFFICES ASSUME AccountInit PROVE LinkInv
  OBVIOUS
<1>1. NoCallback \in CallbackRecords /\ NoTaker \in TakerRecords
  BY DEF NoCallback, NoTaker, CallbackRecords, TakerRecords
<1>2. NoCallback.token = 0 /\ NoTaker.token = 0 /\ NoTaker.new = 0 /\ NoTaker.at = "idle"
  BY DEF NoCallback, NoTaker
<1>. HIDE DEF NoCallback, NoTaker
<1>3. TokensTyped
  <2>1. /\ callback \in [Callbacks -> CallbackRecords] /\ \A c \in Callbacks : callback[c] = NoCallback
        /\ taker \in [Takers -> TakerRecords] /\ \A k \in Takers : taker[k] = NoTaker
    BY <1>1 DEF AccountInit
  <2>2. granted = 0 /\ honoured = {} /\ account = 0
    BY DEF AccountInit
  <2>3. granted \in Nat /\ honoured \in SUBSET (1 .. granted) /\ account \in 0 .. granted
    BY <2>2
  <2>4. /\ provider \in {"github", "supabase", "firebase"}
        /\ linked \in BOOLEAN /\ withdrawn \in BOOLEAN /\ excused \in BOOLEAN
    BY DEF AccountInit
  <2>5. /\ \A c \in Callbacks : callback[c].token <= granted
        /\ \A k \in Takers : taker[k].token <= granted /\ taker[k].new <= granted
    BY <1>2, <2>1, <2>2
  <2>. QED BY <2>1, <2>3, <2>4, <2>5 DEF TokensTyped
<1>. QED
  BY <1>2, <1>3 DEF AccountInit, LinkInv, Asking, Undisturbed

\* One call for a token moves on.
LEMMA TakerMoves ==
    ASSUME TokensTyped, NEW k \in Takers, NEW r \in TakerRecords,
           taker' = [taker EXCEPT ![k] = r]
    PROVE  /\ taker' \in [Takers -> TakerRecords] /\ taker'[k] = r
           /\ \A j \in Takers : j # k => taker'[j] = taker[j]
           /\ Asking' = IF r.at = "idle" THEN Asking \ {k} ELSE Asking \cup {k}
BY DEF TokensTyped, Asking

\* Every step keeps the invariant.
LEMMA LinkStep == LinkInv /\ [AccountNext]_accountVars => LinkInv'
<1>. SUFFICES ASSUME LinkInv, [AccountNext]_accountVars PROVE LinkInv'
  OBVIOUS
<1>0. /\ TokensTyped /\ granted \in Nat /\ account \in 0 .. granted /\ honoured \in SUBSET (1 .. granted)
      /\ \A k \in Takers : /\ taker[k] \in TakerRecords
                           /\ taker[k].token \in 0 .. granted /\ taker[k].new \in 0 .. granted
      /\ \A c \in Callbacks : callback[c] \in CallbackRecords /\ callback[c].token \in 0 .. granted
      /\ NoTaker \in TakerRecords /\ NoCallback \in CallbackRecords
      /\ NoTaker.at = "idle" /\ NoTaker.token = 0 /\ NoTaker.new = 0 /\ NoCallback.token = 0
  BY DEF LinkInv, TokensTyped, TakerRecords, CallbackRecords, NoTaker, NoCallback
\* What neither touches the tokens nor the calls for one.
<1>a. ASSUME UNCHANGED <<provider, granted, honoured, account, taker, linked, withdrawn, excused>>,
             callback' \in [Callbacks -> CallbackRecords],
             \A c \in Callbacks : callback'[c].token <= granted
      PROVE  LinkInv'
  BY <1>a DEF LinkInv, TokensTyped, LinkSound, GitHubSound, GoogleSound, SupabaseSound, Asking,
              Undisturbed
<1>b. ASSUME NEW c \in Callbacks, NEW r \in CallbackRecords, callback' = [callback EXCEPT ![c] = r],
             r.token <= granted
      PROVE  /\ callback' \in [Callbacks -> CallbackRecords]
             /\ \A d \in Callbacks : callback'[d].token <= granted
  BY <1>b DEF LinkInv, TokensTyped
<1>1. CASE AccountTime \/ AccessExpires \/ \E f \in Flows : Authorises(f)
  BY <1>1, <1>a DEF AccountTime, AccessExpires, Authorises, LinkInv, TokensTyped
<1>2. CASE Withdraws
  BY <1>2 DEF Withdraws, LinkInv, TokensTyped, Undisturbed, Asking
<1>3. ASSUME NEW c \in Callbacks, CalledBack(c) PROVE LinkInv'
  <2>1. PICK f \in Flows :
          callback' = [callback EXCEPT ![c] =
              [at |-> IF provider = "github" THEN "exchange" ELSE "read", flow |-> f, token |-> 0]]
    BY <1>3 DEF CalledBack
  <2>. DEFINE r == [at |-> IF provider = "github" THEN "exchange" ELSE "read", flow |-> f, token |-> 0]
  <2>2. r \in CallbackRecords /\ r.token <= granted
    BY <1>0 DEF CallbackRecords
  <2>. HIDE DEF r
  <2>. QED BY <1>3, <1>a, <1>b, <2>1, <2>2 DEF CalledBack, r
<1>4. ASSUME NEW c \in Callbacks, CallbackFails(c) \/ DeletesVerifier(c) PROVE LinkInv'
  <2>1. CASE CallbackFails(c)
    <3>1. NoCallback.token <= granted
      BY <1>0
    <3>2. callback' = [callback EXCEPT ![c] = NoCallback]
          /\ UNCHANGED <<provider, granted, honoured, account, taker, linked, withdrawn, excused>>
      BY <2>1 DEF CallbackFails, EndsCallback
    <3>. QED BY <1>0, <1>a, <1>b, <3>1, <3>2
  <2>2. CASE DeletesVerifier(c)
    BY <1>a, <2>2 DEF DeletesVerifier, LinkInv, TokensTyped
  <2>. QED BY <1>4, <2>1, <2>2
<1>5. ASSUME NEW c \in Callbacks, ReadsVerifier(c) PROVE LinkInv'
  <2>. DEFINE r == [callback[c] EXCEPT !.at = "exchange"]
  <2>1. r \in CallbackRecords /\ r.token <= granted
    BY <1>0 DEF CallbackRecords
  <2>2. callback' \in {[callback EXCEPT ![c] = r], [callback EXCEPT ![c] = NoCallback]}
    BY <1>5 DEF ReadsVerifier, EndsCallback, LinkInv, TokensTyped
  <2>. HIDE DEF r
  <2>. QED BY <1>0, <1>5, <1>a, <1>b, <2>1, <2>2 DEF ReadsVerifier
<1>6. ASSUME NEW c \in Callbacks, Exchanges(c) PROVE LinkInv'
  <2>1. CASE flow[callback[c].flow].open
    <3>. DEFINE r == [callback[c] EXCEPT !.at = "store", !.token = granted + 1]
    <3>1. r \in CallbackRecords /\ r.token = granted + 1 /\ granted + 1 \in Nat
      <4>1. granted + 1 \in Nat /\ callback[c] \in CallbackRecords
        BY <1>0
      <4>. QED BY <4>1 DEF CallbackRecords
    <3>2. /\ granted' = granted + 1 /\ honoured' = honoured \cup {granted + 1}
          /\ callback' \in {[callback EXCEPT ![c] = r], [callback EXCEPT ![c] = NoCallback]}
          /\ UNCHANGED <<provider, account, taker, linked, withdrawn, excused>>
      BY <1>6, <2>1 DEF Exchanges, EndsCallback, LinkInv, TokensTyped
    <3>. HIDE DEF r
    <3>3. callback' \in [Callbacks -> CallbackRecords]
          /\ \A d \in Callbacks : callback'[d].token <= granted + 1
      BY <1>0, <3>1, <3>2 DEF TokensTyped
    <3>4. TokensTyped'
      BY <1>0, <3>1, <3>2, <3>3 DEF TokensTyped
    <3>5. \A k \in Takers : taker[k].token # granted + 1
      BY <1>0
    <3>6. Asking' = Asking /\ account # granted + 1 /\ Asking \subseteq Takers
      BY <1>0, <3>2 DEF Asking
    <3>7. LinkSound => LinkSound'
      BY <3>2, <3>5, <3>6 DEF LinkSound, GitHubSound, GoogleSound, SupabaseSound
    <3>. QED BY <3>2, <3>4, <3>6, <3>7 DEF LinkInv, Undisturbed
  <2>2. CASE ~flow[callback[c].flow].open
    BY <1>0, <1>6, <1>a, <1>b, <2>2 DEF Exchanges, EndsCallback
  <2>. QED BY <2>1, <2>2
<1>7. ASSUME NEW c \in Callbacks, StoresLink(c) PROVE LinkInv'
  <2>1. /\ account' = callback[c].token /\ linked' = TRUE
        /\ withdrawn' = (callback[c].token \notin honoured)
        /\ excused' = (excused \/ Asking # {})
        /\ UNCHANGED <<provider, granted, honoured, taker>>
        /\ callback' = [callback EXCEPT ![c] = NoCallback]
    BY <1>7 DEF StoresLink, EndsCallback
  <2>2. TokensTyped'
    BY <1>0, <1>b, <2>1 DEF TokensTyped
  <2>3. Undisturbed' => Asking' = {} /\ account' \in honoured'
    BY <2>1 DEF Undisturbed, Asking
  <2>. QED BY <2>1, <2>2, <2>3 DEF LinkInv, LinkSound, GitHubSound, GoogleSound, SupabaseSound
\* A call for a token is about a link.
<1>8. ASSUME NEW k \in Takers, taker[k].at # "idle" PROVE linked /\ k \in Asking
  BY <1>8 DEF LinkInv, Asking
<1>9. ASSUME NEW k \in Takers, TakesToken(k) PROVE LinkInv'
  <2>. DEFINE r == [at |-> "ask", token |-> account, new |-> 0]
  <2>1. r \in TakerRecords /\ r.at = "ask" /\ r.token = account /\ r.new = 0
    BY <1>0 DEF TakerRecords
  <2>2. /\ taker' = [taker EXCEPT ![k] = r] /\ account # 0 /\ taker[k].at = "idle"
        /\ UNCHANGED <<provider, callback, granted, honoured, account, linked, withdrawn, excused>>
    BY <1>9 DEF TakesToken
  <2>. HIDE DEF r
  <2>3. /\ taker' \in [Takers -> TakerRecords] /\ taker'[k] = r
        /\ \A j \in Takers : j # k => taker'[j] = taker[j]
        /\ Asking' = Asking \cup {k} /\ k \notin Asking /\ Asking \subseteq Takers
    BY <1>0, <2>1, <2>2, TakerMoves DEF Asking
  <2>4. TokensTyped'
    BY <1>0, <2>1, <2>2, <2>3 DEF TokensTyped
  <2>5. LinkSound => LinkSound'
    BY <2>1, <2>2, <2>3 DEF LinkSound, GitHubSound, GoogleSound, SupabaseSound
  <2>. QED BY <2>1, <2>2, <2>3, <2>4, <2>5 DEF LinkInv, Undisturbed
\* A call ends and changes nothing, or is lost with what it held.
<1>10. ASSUME NEW k \in Takers, EndsTaking(k), taker[k].at # "idle", excused' \in BOOLEAN,
              excused => excused', taker[k].new = 0 \/ excused' \/ provider = "firebase",
              UNCHANGED <<provider, callback, linked, withdrawn, account>>,
              granted' \in Nat, granted' >= granted,
              honoured' \in SUBSET (1 .. granted'), excused' \/ honoured' = honoured
       PROVE  LinkInv'
  <2>1. /\ taker' \in [Takers -> TakerRecords] /\ taker'[k] = NoTaker
        /\ \A j \in Takers : j # k => taker'[j] = taker[j]
        /\ Asking' = Asking \ {k}
    BY <1>0, <1>10, TakerMoves DEF EndsTaking
  <2>2. TokensTyped'
    BY <1>0, <1>10, <2>1 DEF TokensTyped, TakerRecords
  <2>3. ASSUME LinkSound, ~excused' PROVE LinkSound'
    <3>1. honoured' = honoured /\ account' = account /\ provider' = provider
      BY <1>10, <2>3
    <3>2. Asking \subseteq Takers /\ k \in Asking /\ (taker[k].new = 0 \/ provider = "firebase")
          /\ 0 \notin honoured
      BY <1>0, <1>10, <2>3 DEF Asking
    <3>. QED
      BY <2>1, <2>3, <3>1, <3>2 DEF LinkSound, GitHubSound, GoogleSound, SupabaseSound
  <2>4. linked
    BY <1>8, <1>10
  <2>. QED BY <1>0, <1>10, <2>1, <2>2, <2>3, <2>4 DEF LinkInv, Undisturbed
<1>11. ASSUME NEW k \in Takers, TriesToken(k) PROVE LinkInv'
  <2>1. /\ taker[k].at = "ask" /\ provider = "github" /\ taker[k].new = 0 /\ linked
        /\ UNCHANGED <<provider, callback, granted, honoured, account, linked, withdrawn>>
    BY <1>8, <1>11 DEF TriesToken, LinkInv
  <2>2. CASE EndsTaking(k) /\ UNCHANGED excused
    BY <1>0, <1>10, <2>1, <2>2 DEF TokensTyped
  <2>3. CASE /\ taker' = [taker EXCEPT ![k].at = "clear"]
             /\ excused' = (excused \/ taker[k].token \in honoured)
    <3>. DEFINE r == [taker[k] EXCEPT !.at = "clear"]
    <3>1. r \in TakerRecords /\ r.at = "clear" /\ r.token = taker[k].token /\ r.new = taker[k].new
      BY <1>0 DEF TakerRecords
    <3>2. taker' = [taker EXCEPT ![k] = r]
      BY <2>3 DEF LinkInv, TokensTyped
    <3>. HIDE DEF r
    <3>3. /\ taker' \in [Takers -> TakerRecords] /\ taker'[k] = r
          /\ \A j \in Takers : j # k => taker'[j] = taker[j]
      BY <1>0, <3>1, <3>2, TakerMoves
    <3>4. TokensTyped'
      BY <1>0, <2>1, <2>3, <3>1, <3>3 DEF TokensTyped
    <3>5. Undisturbed => taker[k].token \in honoured
      BY <1>8, <2>1 DEF LinkInv, LinkSound, GitHubSound
    <3>. QED BY <2>1, <2>3, <3>1, <3>3, <3>4, <3>5 DEF LinkInv, Undisturbed
  <2>. QED BY <1>11, <2>2, <2>3 DEF TriesToken
<1>12. ASSUME NEW k \in Takers, ClearsToken(k) PROVE LinkInv'
  <2>1. /\ taker[k].at = "clear" /\ EndsTaking(k) /\ account' \in {0, account} /\ linked /\ k \in Asking
        /\ UNCHANGED <<provider, callback, granted, honoured, linked, withdrawn, excused>>
    BY <1>8, <1>12 DEF ClearsToken
  <2>2. /\ taker' \in [Takers -> TakerRecords] /\ taker'[k] = NoTaker
        /\ \A j \in Takers : j # k => taker'[j] = taker[j]
    BY <1>0, <2>1, TakerMoves DEF EndsTaking
  <2>3. TokensTyped'
    BY <1>0, <2>1, <2>2 DEF TokensTyped
  <2>4. ~Undisturbed
    BY <2>1 DEF LinkInv, LinkSound, GitHubSound, GoogleSound, SupabaseSound, TokensTyped
  <2>. QED BY <1>0, <2>1, <2>2, <2>3, <2>4 DEF LinkInv, Undisturbed
<1>13. ASSUME NEW k \in Takers, ReencryptsToken(k) PROVE LinkInv'
  <2>1. /\ taker[k].at = "ask" /\ provider = "github" /\ account' = taker[k].token /\ linked
        /\ k \in Asking
        /\ UNCHANGED <<provider, callback, granted, honoured, taker, linked, withdrawn, excused>>
    BY <1>8, <1>13 DEF ReencryptsToken
  <2>2. TokensTyped' /\ Asking' = Asking
    BY <1>0, <2>1 DEF TokensTyped, Asking
  <2>3. Undisturbed => account' = account
    BY <2>1 DEF LinkInv, LinkSound, GitHubSound
  <2>. QED BY <2>1, <2>2, <2>3 DEF LinkInv, Undisturbed, LinkSound, GitHubSound
<1>14. ASSUME NEW k \in Takers, RefreshesToken(k) PROVE LinkInv'
  <2>1. /\ taker[k].at = "ask" /\ provider # "github" /\ taker[k].new = 0 /\ linked /\ k \in Asking
        /\ UNCHANGED <<provider, callback, account, linked, withdrawn>>
    BY <1>8, <1>14 DEF RefreshesToken, LinkInv
  <2>2. CASE EndsTaking(k) /\ UNCHANGED <<granted, honoured, excused>>
    BY <1>0, <1>10, <2>1, <2>2 DEF TokensTyped
  <2>3. CASE /\ provider = "firebase" /\ taker[k].token \in honoured
             /\ taker' = [taker EXCEPT ![k].at = "store"]
             /\ UNCHANGED <<granted, honoured, excused>>
    <3>. DEFINE r == [taker[k] EXCEPT !.at = "store"]
    <3>1. r \in TakerRecords /\ r.at = "store" /\ r.token = taker[k].token /\ r.new = 0
      BY <1>0, <2>1 DEF TakerRecords
    <3>2. taker' = [taker EXCEPT ![k] = r]
      BY <2>3 DEF LinkInv, TokensTyped
    <3>. HIDE DEF r
    <3>3. /\ taker' \in [Takers -> TakerRecords] /\ taker'[k] = r
          /\ \A j \in Takers : j # k => taker'[j] = taker[j]
          /\ Asking' = Asking \cup {k} /\ Asking \subseteq Takers
      BY <1>0, <3>1, <3>2, TakerMoves DEF Asking
    <3>4. TokensTyped'
      BY <1>0, <2>1, <2>3, <3>1, <3>3 DEF TokensTyped
    <3>5. LinkSound => LinkSound'
      BY <2>1, <2>3, <3>1, <3>3 DEF LinkSound, GoogleSound
    <3>. QED BY <2>1, <2>3, <3>1, <3>3, <3>4, <3>5 DEF LinkInv, Undisturbed
  <2>4. ASSUME taker[k].token \in honoured, granted' = granted + 1,
               honoured' = (IF provider = "supabase" THEN honoured \ {taker[k].token} ELSE honoured)
                              \cup {granted + 1}
        PROVE  LinkInv' \/ ~(\/ /\ taker' = [taker EXCEPT ![k].at = "store", ![k].new = granted + 1]
                                /\ UNCHANGED excused
                             \/ EndsTaking(k) /\ excused' = TRUE)
    <3>1. /\ granted + 1 \in Nat /\ granted + 1 > granted /\ account # granted + 1
          /\ \A j \in Takers : taker[j].token # granted + 1
          /\ honoured' \in SUBSET (1 .. granted + 1)
      <4>1. /\ granted + 1 \in Nat /\ granted + 1 > granted /\ account # granted + 1
            /\ \A j \in Takers : taker[j].token # granted + 1
            /\ granted + 1 \in 1 .. granted + 1
        BY <1>0
      <4>2. \A h \in honoured : h \in 1 .. granted + 1
        BY <1>0
      <4>3. \A h \in honoured' : h \in honoured \/ h = granted + 1
        BY <2>4
      <4>. QED BY <4>1, <4>2, <4>3
    <3>2. CASE EndsTaking(k) /\ excused' = TRUE
      BY <1>0, <1>10, <2>1, <2>4, <3>1, <3>2
    <3>3. CASE /\ taker' = [taker EXCEPT ![k].at = "store", ![k].new = granted + 1]
               /\ UNCHANGED excused
      <4>. DEFINE r == [taker[k] EXCEPT !.at = "store", !.new = granted + 1]
      <4>1. /\ r \in TakerRecords /\ r.at = "store" /\ r.token = taker[k].token
            /\ r.new = granted + 1
        BY <1>0, <3>1 DEF TakerRecords
      <4>2. taker' = [taker EXCEPT ![k] = r]
        BY <3>3 DEF LinkInv, TokensTyped
      <4>. HIDE DEF r
      <4>3. /\ taker' \in [Takers -> TakerRecords] /\ taker'[k] = r
            /\ \A j \in Takers : j # k => taker'[j] = taker[j]
            /\ Asking' = Asking /\ Asking \subseteq Takers
        BY <1>0, <2>1, <4>1, <4>2, TakerMoves DEF Asking
      <4>4. TokensTyped'
        <5>1. \A j \in Takers : taker'[j].token <= granted + 1 /\ taker'[j].new <= granted + 1
          BY <1>0, <3>1, <4>1, <4>3
        <5>2. account \in 0 .. granted + 1 /\ \A c \in Callbacks : callback[c].token <= granted + 1
          BY <1>0, <3>1
        <5>. QED BY <1>0, <2>1, <2>4, <3>1, <3>3, <4>3, <5>1, <5>2 DEF TokensTyped
      <4>5. CASE provider = "firebase"
        <5>1. GoogleSound => GoogleSound'
          BY <2>1, <2>4, <3>1, <4>1, <4>3, <4>5 DEF GoogleSound
        <5>. QED BY <2>1, <3>3, <4>1, <4>3, <4>4, <4>5, <5>1 DEF LinkInv, Undisturbed, LinkSound
      <4>6. CASE provider = "supabase"
        <5>1. SupabaseSound => taker[k].token = account /\ account \in honoured
          BY <2>1, <2>4 DEF SupabaseSound
        <5>2. SupabaseSound => \A j \in Asking : taker[j].at = "ask"
          BY <5>1 DEF SupabaseSound
        <5>3. SupabaseSound => SupabaseSound'
          BY <2>1, <2>4, <3>1, <4>1, <4>3, <4>6, <5>1, <5>2 DEF SupabaseSound
        <5>. QED BY <2>1, <3>3, <4>1, <4>3, <4>4, <4>6, <5>3 DEF LinkInv, Undisturbed, LinkSound
      <4>. QED BY <1>0, <2>1, <4>5, <4>6 DEF TokensTyped
    <3>. QED BY <3>2, <3>3
  <2>. QED BY <1>14, <2>2, <2>3, <2>4 DEF RefreshesToken
<1>15. ASSUME NEW k \in Takers, StoresRefreshed(k) PROVE LinkInv'
  <2>1. /\ taker[k].at = "store" /\ account' = NewOrKept(k) /\ EndsTaking(k) /\ linked /\ k \in Asking
        /\ UNCHANGED <<provider, callback, granted, honoured, linked, withdrawn, excused>>
    BY <1>8, <1>15 DEF StoresRefreshed
  <2>2. /\ taker' \in [Takers -> TakerRecords] /\ taker'[k] = NoTaker
        /\ \A j \in Takers : j # k => taker'[j] = taker[j]
        /\ Asking' = Asking \ {k} /\ Asking \subseteq Takers
    BY <1>0, <2>1, TakerMoves DEF EndsTaking, Asking
  <2>3. NewOrKept(k) \in 0 .. granted
    BY <1>0 DEF NewOrKept
  <2>4. TokensTyped'
    BY <1>0, <2>1, <2>2, <2>3 DEF TokensTyped
  <2>5. LinkSound => LinkSound'
    <3>1. provider \in {"github", "supabase", "firebase"} /\ 0 \notin honoured
      BY <1>0 DEF TokensTyped
    <3>2. CASE provider = "github"
      BY <2>1, <3>2 DEF LinkSound, GitHubSound
    <3>3. CASE provider = "firebase"
      <4>1. GoogleSound => account' \in honoured
        BY <2>1 DEF GoogleSound, NewOrKept
      <4>2. GoogleSound => GoogleSound'
        BY <2>1, <2>2, <4>1 DEF GoogleSound
      <4>. QED BY <2>1, <3>3, <4>2 DEF LinkSound
    <3>4. CASE provider = "supabase"
      <4>1. SupabaseSound => account' \in honoured
        BY <2>1, <3>1 DEF SupabaseSound, NewOrKept
      <4>2. SupabaseSound => \A j \in Asking' : taker[j].at = "ask" /\ taker[j].token \notin honoured
        BY <2>1, <2>2 DEF SupabaseSound
      <4>3. SupabaseSound => SupabaseSound'
        BY <2>1, <2>2, <4>1, <4>2 DEF SupabaseSound
      <4>. QED BY <2>1, <3>4, <4>3 DEF LinkSound
    <3>. QED BY <3>1, <3>2, <3>3, <3>4
  <2>. QED BY <1>0, <2>1, <2>2, <2>4, <2>5 DEF LinkInv, Undisturbed
<1>16. ASSUME NEW k \in Takers, TakerIsLost(k) PROVE LinkInv'
  <2>1. /\ taker[k].at # "idle" /\ EndsTaking(k) /\ excused' = (excused \/ taker[k].new # 0)
        /\ UNCHANGED <<provider, callback, granted, honoured, account, linked, withdrawn>>
    BY <1>16 DEF TakerIsLost
  <2>2. /\ excused \in BOOLEAN /\ excused' \in BOOLEAN /\ (excused => excused')
        /\ taker[k].new = 0 \/ excused'
        /\ granted' \in Nat /\ granted' >= granted /\ honoured' \in SUBSET (1 .. granted')
        /\ honoured' = honoured
    <3>1. excused \in BOOLEAN
      BY DEF LinkInv, TokensTyped
    <3>4. CASE taker[k].new = 0
      <4>1. excused' = excused
        BY <2>1, <3>1, <3>4
      <4>. QED BY <1>0, <2>1, <3>1, <3>4, <4>1
    <3>5. CASE taker[k].new # 0
      <4>1. excused' = TRUE
        BY <2>1, <3>1, <3>5
      <4>. QED BY <1>0, <2>1, <3>1, <3>5, <4>1
    <3>. QED BY <3>4, <3>5
  <2>. QED BY <1>10, <2>1, <2>2
<1>17. CASE UNCHANGED accountVars
  BY <1>17, <1>a DEF accountVars, LinkInv, TokensTyped
<1>. QED
  BY <1>1, <1>2, <1>3, <1>4, <1>5, <1>6, <1>7, <1>9, <1>11, <1>12, <1>13, <1>14, <1>15, <1>16, <1>17
     DEF AccountNext

\* For any number of flows, callbacks and calls for a token, and each of the
\* three providers: an account that was linked stays linked, with a token that
\* the provider accepts or a call that is about to store one, until the user
\* revokes it or a link is stored under a call in progress, a replacement is
\* lost, or GitHub does not answer (get_valid_github_token,
\* get_valid_firebase_token, get_valid_supabase_token, and the callbacks of
\* auth.py).
THEOREM LinkIsKept == AccountSpec => []LinkKept
<1>1. LinkInv => LinkKept
  <2>. SUFFICES ASSUME LinkInv, Undisturbed, account \notin honoured
                PROVE  \E k \in Takers : taker[k].at = "store" /\ NewOrKept(k) \in honoured
    BY DEF LinkKept, Undisturbed, LinkInv, TokensTyped
  <2>1. SupabaseSound /\ 0 \notin honoured
    BY DEF LinkInv, LinkSound, GitHubSound, GoogleSound, TokensTyped
  <2>. QED BY <2>1 DEF SupabaseSound, NewOrKept, Asking
<1>. QED
  BY <1>1, LinkStarts, LinkStep, PTL DEF AccountSpec

------------------------------------------------------------------------------
(***************************************************************************)
(* Erasure.  The deletion goes from the children to the parents. At every  *)
(* moment, what is not astray is a document whose parent is there,          *)
(* and one the deletion has yet to come to.                                *)
(***************************************************************************)
\* The stages in which a part of the session or project at hand is yet to go.
Until(part) ==
    CASE part = "event" -> {"event"}
      [] part = "blueprint" -> {"event", "blueprint"}
      [] part = "session" -> {"event", "blueprint", "session"}
      [] part = "chat" -> {"chat"}
      [] part = "project" -> {"chat", "project"}

\* The deletion has yet to come to document d.
Ahead(d) ==
    \/ d = Account
    \/ d = Usage /\ phase # "account"
    \/ \E part \in SessionParts, s \in Sessions :
         d = <<part, s>> /\ (s \in sessionsLeft \/ (s = owner /\ phase \in Until(part)))
    \/ \E part \in ProjectParts, p \in Projects :
         d = <<part, p>> /\ (p \in projectsLeft \/ (p = owner /\ phase \in Until(part)))

\* The stages in which a session, and those in which a project is at hand.
SessionStages == {"event", "blueprint", "session"}

\* The latter.
ProjectStages == {"chat", "project"}

\* What is listed has not been entered, and is empty once its turn is over.
ListsInv ==
    /\ phase \in Stages
    /\ sessionsLeft \subseteq Sessions /\ projectsLeft \subseteq Projects
    /\ phase \in SessionStages => owner \in Sessions \ sessionsLeft
    /\ phase \in ProjectStages => owner \in Projects \ projectsLeft
    /\ phase \notin SessionStages \cup {"sessions", "idle"} => sessionsLeft = {}
    /\ phase \in {"usage", "account"} => projectsLeft = {}

\* What is not astray has its parent and the account.
Rooted == \A d \in data \ (astray \cup Apart) : Parent(d) \in data /\ Account \in data

\* The deletion will come to all that is not astray.
Covered == phase # "idle" => Account \in data /\ \A d \in data \ (astray \cup Apart) : Ahead(d)

\* The inductive invariant.
ErasureInv ==
    /\ data \subseteq Documents /\ Lasting \subseteq data
    /\ ListsInv /\ Rooted /\ Covered

\* The documents, one kind after another.
LEMMA Kinds ==
    ASSUME NEW d \in Documents \ Apart
    PROVE  \/ d = Account \/ d = Usage
           \/ \E part \in SessionParts, s \in Sessions : d = <<part, s>>
           \/ \E part \in ProjectParts, p \in Projects : d = <<part, p>>
BY DEF Documents, Account, Usage

\* Each document's parent.
LEMMA Parents ==
    /\ Parent(Account) = Account /\ Parent(Usage) = Account
    /\ \A s \in Sessions : /\ Parent(<<"session", s>>) = Account
                           /\ Parent(<<"event", s>>) = <<"session", s>>
                           /\ Parent(<<"blueprint", s>>) = <<"session", s>>
    /\ \A p \in Projects : /\ Parent(<<"project", p>>) = Account
                           /\ Parent(<<"chat", p>>) = <<"project", p>>
BY DEF Parent, Account, Usage

\* A document whose parent is one of the sessions or projects is its child.
LEMMA ChildOf ==
    ASSUME NEW d \in Documents \ Apart, NEW x, NEW part \in {"session", "project"},
           Parent(d) = <<part, x>>
    PROVE  d \in Children(x)
<1>1. Account # <<part, x>>
  BY DEF Account
<1>2. CASE d = Account \/ d = Usage
  BY <1>1, <1>2, Parents
<1>3. ASSUME NEW s \in Sessions, NEW k \in SessionParts, d = <<k, s>> PROVE d \in Children(x)
  <2>1. CASE k = "session"
    BY <1>1, <1>3, <2>1, Parents
  <2>2. CASE k \in {"event", "blueprint"}
    <3>1. <<"session", s>> = <<part, x>>
      BY <1>3, <2>2, Parents
    <3>2. s = x
      BY <3>1
    <3>. QED BY <1>3, <2>2, <3>2 DEF Children
  <2>. QED BY <1>3, <2>1, <2>2 DEF SessionParts
<1>4. ASSUME NEW p \in Projects, NEW k \in ProjectParts, d = <<k, p>> PROVE d \in Children(x)
  <2>1. CASE k = "project"
    BY <1>1, <1>4, <2>1, Parents
  <2>2. CASE k = "chat"
    <3>1. <<"project", p>> = <<part, x>>
      BY <1>4, <2>2, Parents
    <3>2. p = x
      BY <3>1
    <3>. QED BY <1>4, <2>2, <3>2 DEF Children
  <2>. QED BY <1>4, <2>1, <2>2 DEF ProjectParts
<1>. QED
  BY <1>2, <1>3, <1>4, Kinds

\* Initially no deletion is under way.
LEMMA ErasureStarts == ErasureInit => ErasureInv
<1>. SUFFICES ASSUME ErasureInit PROVE ErasureInv
  OBVIOUS
<1>2. Account \in Documents
  BY DEF Documents, Account
<1>1. ASSUME NEW d \in Documents \ Apart PROVE Parent(d) \in Documents
  <2>1. CASE d = Account \/ d = Usage
    BY <1>2, <2>1, Parents
  <2>2. ASSUME NEW part \in SessionParts, NEW s \in Sessions, d = <<part, s>>
        PROVE  Parent(d) \in Documents
    <3>1. <<"session", s>> \in Documents
      BY DEF Documents, SessionParts
    <3>. QED BY <1>2, <2>2, <3>1, Parents DEF SessionParts
  <2>3. ASSUME NEW part \in ProjectParts, NEW p \in Projects, d = <<part, p>>
        PROVE  Parent(d) \in Documents
    <3>1. <<"project", p>> \in Documents
      BY DEF Documents, ProjectParts
    <3>. QED BY <1>2, <2>3, <3>1, Parents DEF ProjectParts
  <2>. QED BY <2>1, <2>2, <2>3, Kinds
<1>. QED
  <2>1. Lasting \subseteq Documents
    BY DEF Documents, Apart
  <2>. QED BY <1>1, <1>2, <2>1 DEF ErasureInit, ErasureInv, ListsInv, Rooted, Covered, Stages,
                                  SessionStages, ProjectStages

\* Every step keeps the invariant.
LEMMA ErasureStep == ErasureInv /\ [ErasureNext]_erasureVars => ErasureInv'
<1>. SUFFICES ASSUME ErasureInv, [ErasureNext]_erasureVars PROVE ErasureInv'
  OBVIOUS
<1>1. CASE BeginErasure
  <2>1. /\ phase' = "sessions" /\ data' = data /\ Account \in data
        /\ sessionsLeft' = Listed("session") /\ projectsLeft' = Listed("project")
        /\ astray' = {d \in astray : Parent(d) \notin data}
    BY <1>1 DEF BeginErasure
  <2>2. \A d \in data \ Apart : d \notin astray' => Parent(d) \in data
    BY <2>1 DEF ErasureInv, Rooted
  <2>3. /\ \A s \in Sessions : <<"session", s>> \in data => s \in sessionsLeft'
        /\ \A p \in Projects : <<"project", p>> \in data => p \in projectsLeft'
    <3>1. /\ \A s \in Sessions : <<"session", s>>[1] = "session" /\ <<"session", s>>[2] = s
          /\ \A p \in Projects : <<"project", p>>[1] = "project" /\ <<"project", p>>[2] = p
      OBVIOUS
    <3>. QED BY <2>1, <3>1 DEF Listed
  <2>4. sessionsLeft' \subseteq Sessions /\ projectsLeft' \subseteq Projects
    <3>1. \A d \in Documents : /\ d[1] = "session" => d[2] \in Sessions
                               /\ d[1] = "project" => d[2] \in Projects
      BY DEF Documents, SessionParts, ProjectParts, Apart, Lasting, Loose, Account, Usage
    <3>. QED BY <2>1, <3>1 DEF Listed, ErasureInv
  <2>5. ASSUME NEW d \in data \ Apart, d \notin astray' PROVE Ahead(d)'
    <3>1. d \in Documents \ Apart /\ Parent(d) \in data
      BY <2>2, <2>5 DEF ErasureInv
    <3>2. CASE d = Account \/ d = Usage
      BY <2>1, <3>2 DEF Ahead
    <3>3. ASSUME NEW part \in SessionParts, NEW s \in Sessions, d = <<part, s>> PROVE Ahead(d)'
      <4>1. <<"session", s>> \in data
        BY <3>1, <3>3, Parents DEF SessionParts
      <4>. QED BY <2>3, <3>3, <4>1 DEF Ahead
    <3>4. ASSUME NEW part \in ProjectParts, NEW p \in Projects, d = <<part, p>> PROVE Ahead(d)'
      <4>1. <<"project", p>> \in data
        BY <3>1, <3>4, Parents DEF ProjectParts
      <4>. QED BY <2>3, <3>4, <4>1 DEF Ahead
    <3>. QED BY <3>1, <3>2, <3>3, <3>4, Kinds
  <2>6. ListsInv'
    BY <2>1, <2>4 DEF ListsInv, Stages, SessionStages, ProjectStages
  <2>. QED BY <2>1, <2>2, <2>5, <2>6 DEF ErasureInv, Rooted, Covered
<1>2. ASSUME NEW s \in Sessions, EnterSession(s) PROVE ErasureInv'
  <2>1. /\ phase = "sessions" /\ s \in sessionsLeft /\ phase' = "event" /\ owner' = s
        /\ sessionsLeft' = sessionsLeft \ {s} /\ UNCHANGED <<data, projectsLeft, astray>>
    BY <1>2 DEF EnterSession
  <2>2. ListsInv'
    BY <2>1 DEF ErasureInv, ListsInv, Stages, SessionStages, ProjectStages
  <2>3. ASSUME NEW d, Ahead(d) PROVE Ahead(d)'
    BY <2>1, <2>3 DEF Ahead, Until, SessionParts, ProjectParts
  <2>. QED BY <2>1, <2>2, <2>3 DEF ErasureInv, Rooted, Covered
<1>3. ASSUME NEW p \in Projects, EnterProject(p) PROVE ErasureInv'
  <2>1. /\ phase = "projects" /\ p \in projectsLeft /\ phase' = "chat" /\ owner' = p
        /\ projectsLeft' = projectsLeft \ {p} /\ UNCHANGED <<data, sessionsLeft, astray>>
    BY <1>3 DEF EnterProject
  <2>2. ListsInv'
    BY <2>1 DEF ErasureInv, ListsInv, Stages, SessionStages, ProjectStages
  <2>3. ASSUME NEW d, Ahead(d) PROVE Ahead(d)'
    BY <2>1, <2>3 DEF Ahead, Until, SessionParts, ProjectParts
  <2>. QED BY <2>1, <2>2, <2>3 DEF ErasureInv, Rooted, Covered
<1>4. CASE ListDone
  <2>1. ListsInv' /\ phase' # "idle" /\ phase # "idle"
        /\ UNCHANGED <<data, owner, sessionsLeft, projectsLeft, astray>>
    BY <1>4 DEF ListDone, ErasureInv, ListsInv, Stages, SessionStages, ProjectStages
  <2>2. ASSUME NEW d, Ahead(d) PROVE Ahead(d)'
    BY <1>4, <2>1, <2>2 DEF ListDone, Ahead, Until, SessionParts, ProjectParts
  <2>. QED BY <2>1, <2>2 DEF ErasureInv, Rooted, Covered
<1>5. CASE Erase
  <2>1. /\ data' = data \ {Target} /\ astray' = astray \ {Target} /\ phase' = Following[phase]
        /\ phase \in DOMAIN Following /\ UNCHANGED <<owner, sessionsLeft, projectsLeft>>
    BY <1>5 DEF Erase
  <2>2. phase \in SessionStages \cup ProjectStages \cup {"usage", "account"}
    BY <2>1 DEF Following, SessionStages, ProjectStages
  <2>3. ListsInv'
    BY <2>1, <2>2 DEF Following, ErasureInv, ListsInv, Stages, SessionStages, ProjectStages
  <2>4. ASSUME NEW d \in data \ (astray \cup Apart), d # Target PROVE phase # "account" /\ Ahead(d)'
    <3>1. Ahead(d)
      BY <2>2, <2>4 DEF ErasureInv, Covered, SessionStages, ProjectStages
    <3>2. CASE phase = "account"
      BY <2>4, <3>1, <3>2 DEF Ahead, Target, ErasureInv, ListsInv, Until, SessionParts,
                              ProjectParts, SessionStages
    <3>3. CASE phase = "usage"
      BY <2>1, <2>4, <3>1, <3>3 DEF Ahead, Target, Following, ErasureInv, ListsInv, Until,
                              SessionParts, ProjectParts, SessionStages
    <3>4. CASE phase \in SessionStages
      BY <2>1, <2>4, <3>1, <3>4 DEF Ahead, Target, Following, Until, SessionParts, ProjectParts,
                              SessionStages
    <3>5. CASE phase \in ProjectStages
      BY <2>1, <2>4, <3>1, <3>5 DEF Ahead, Target, Following, Until, SessionParts, ProjectParts,
                              ProjectStages
    <3>. QED BY <2>2, <3>2, <3>3, <3>4, <3>5
  <2>5. ASSUME NEW d \in data \ (astray \cup Apart), d # Target PROVE Parent(d) # Target /\ Account # Target
    <3>1. Ahead(d) /\ d \in Documents \ Apart
      BY <2>2, <2>4, <2>5 DEF ErasureInv, Covered, SessionStages, ProjectStages
    <3>2. Account # Target
      BY <2>2, <2>4, <2>5 DEF Target, Account, Usage, SessionStages, ProjectStages
    <3>3. CASE d = Account \/ d = Usage
      BY <3>2, <3>3, Parents
    <3>4. ASSUME NEW part \in SessionParts, NEW s \in Sessions, d = <<part, s>>
          PROVE  Parent(d) # Target
      <4>1. CASE part = "session"
        BY <3>2, <3>4, <4>1, Parents
      <4>2. CASE part # "session"
        <5>1. Parent(d) = <<"session", s>>
          BY <3>4, <4>2, Parents DEF SessionParts
        <5>2. CASE Target = <<"session", s>>
          <6>1. phase = "session" /\ owner = s
            BY <5>2, <2>2 DEF Target, Account, Usage
          <6>2. s \notin sessionsLeft
            BY <6>1 DEF ErasureInv, ListsInv, SessionStages
          <6>. QED BY <3>1, <3>4, <4>2, <6>1, <6>2 DEF Ahead, Until, Account, Usage, SessionParts,
                                                       ProjectParts
        <5>. QED BY <5>1, <5>2
      <4>. QED BY <4>1, <4>2
    <3>5. ASSUME NEW part \in ProjectParts, NEW p \in Projects, d = <<part, p>>
          PROVE  Parent(d) # Target
      <4>1. CASE part = "project"
        BY <3>2, <3>5, <4>1, Parents
      <4>2. CASE part # "project"
        <5>1. Parent(d) = <<"project", p>>
          BY <3>5, <4>2, Parents DEF ProjectParts
        <5>2. CASE Target = <<"project", p>>
          <6>1. phase = "project" /\ owner = p
            BY <5>2, <2>2 DEF Target, Account, Usage
          <6>2. p \notin projectsLeft
            BY <6>1 DEF ErasureInv, ListsInv, ProjectStages
          <6>. QED BY <3>1, <3>5, <4>2, <6>1, <6>2 DEF Ahead, Until, Account, Usage, SessionParts,
                                                       ProjectParts
        <5>. QED BY <5>1, <5>2
      <4>. QED BY <4>1, <4>2
    <3>. QED BY <3>1, <3>2, <3>3, <3>4, <3>5, Kinds
  <2>6. phase # "account" => Account # Target /\ Account \in data
    BY <2>2 DEF Target, Account, Usage, SessionStages, ProjectStages, ErasureInv, Covered
  <2>7. phase' # "idle" => phase # "account"
    BY <2>1, <2>2 DEF Following
  <2>8. Target \notin Lasting
    BY <2>2 DEF Target, Account, Usage, Lasting, SessionStages, ProjectStages
  <2>. QED BY <2>1, <2>3, <2>4, <2>5, <2>6, <2>7, <2>8 DEF ErasureInv, Rooted, Covered
<1>6. CASE ChatStays
  <2>1. /\ phase = "chat" /\ phase' = "project" /\ astray' = astray \cup ({Target} \cap data)
        /\ UNCHANGED <<data, owner, sessionsLeft, projectsLeft>>
    BY <1>6 DEF ChatStays
  <2>2. ListsInv'
    BY <2>1 DEF ErasureInv, ListsInv, Stages, SessionStages, ProjectStages
  <2>3. ASSUME NEW d, Ahead(d), d # Target PROVE Ahead(d)'
    BY <2>1, <2>3 DEF Ahead, Until, Target, SessionParts, ProjectParts
  <2>. QED BY <2>1, <2>2, <2>3 DEF ErasureInv, Rooted, Covered
<1>7. CASE EraseFails
  BY <1>7 DEF EraseFails, ErasureInv, ListsInv, Rooted, Covered, Stages, SessionStages, ProjectStages
<1>8. ASSUME NEW d \in Documents, WriteDocument(d) PROVE ErasureInv'
  <2>1. /\ d \notin data /\ data' = data \cup {d}
        /\ astray' = IF d \notin Apart /\ (phase # "idle" \/ ~({Parent(d), Account} \subseteq data))
                     THEN astray \cup {d} ELSE astray
        /\ UNCHANGED <<phase, owner, sessionsLeft, projectsLeft>>
    BY <1>8 DEF WriteDocument
  <2>2. \A e : Ahead(e) => Ahead(e)'
    BY <2>1 DEF Ahead
  <2>3. ListsInv'
    BY <2>1 DEF ErasureInv, ListsInv
  <2>4. Covered'
    BY <2>1, <2>2 DEF ErasureInv, Covered
  <2>5. Rooted'
    BY <2>1 DEF ErasureInv, Rooted
  <2>. QED BY <2>1, <2>3, <2>4, <2>5 DEF ErasureInv
<1>9. CASE (\E p \in Projects : Work(p)) \/ UNCHANGED erasureVars
  BY <1>9 DEF Work, erasureVars, ErasureInv, ListsInv, Rooted, Covered, Ahead
<1>10. ASSUME NEW d, d \notin Lasting \cup {Account}, data' = data \ {d},
              \A e \in data \ (astray \cup Apart) : Parent(e) = d => e \in astray',
              astray \ {d} \subseteq astray', UNCHANGED <<phase, owner, sessionsLeft, projectsLeft>>
       PROVE  ErasureInv'
  <2>1. \A e : Ahead(e) => Ahead(e)'
    BY <1>10 DEF Ahead
  <2>2. data' \ (astray' \cup Apart) \subseteq data \ (astray \cup Apart)
    BY <1>10
  <2>3. ListsInv' /\ Covered'
    BY <1>10, <2>1, <2>2 DEF ErasureInv, ListsInv, Covered
  <2>4. Rooted'
    BY <1>10, <2>2 DEF ErasureInv, Rooted
  <2>. QED BY <1>10, <2>3, <2>4 DEF ErasureInv
<1>11. ASSUME NEW s \in Sessions, DropsEvents(s) PROVE ErasureInv'
  <2> DEFINE d == <<"event", s>>
  <2>1. d \notin Lasting \cup {Account}
    BY DEF Lasting, Account
  <2>2. \A e \in data \ (astray \cup Apart) : Parent(e) # d
    <3>1. \A e \in Documents : Parent(e) # d
      BY DEF Parent, Account
    <3>. QED BY <3>1 DEF ErasureInv
  <2> HIDE DEF d
  <2>. QED BY <1>10, <1>11, <2>1, <2>2 DEF DropsEvents, d
<1>12. ASSUME NEW s \in Sessions, DropsSession(s) PROVE ErasureInv'
  <2> DEFINE d == <<"session", s>>
  <2>1. d \notin Lasting \cup {Account} /\ d \notin Children(s)
    BY DEF Lasting, Account, Children
  <2>2. data' = data \ {d} /\ astray' = (astray \cup (Children(s) \cap data)) \ {d}
        /\ UNCHANGED <<phase, owner, sessionsLeft, projectsLeft>>
    BY <1>12 DEF DropsSession
  <2>3. \A e \in data \ (astray \cup Apart) : Parent(e) = d => e \in Children(s)
    BY ChildOf DEF ErasureInv
  <2> HIDE DEF d
  <2>. QED BY <1>10, <2>1, <2>2, <2>3
<1>13. ASSUME NEW p \in Projects, DropsProject(p) PROVE ErasureInv'
  <2> DEFINE d == <<"project", p>>
  <2>1. d \notin Lasting \cup {Account} /\ d \notin Children(p)
    BY DEF Lasting, Account, Children
  <2>2. data' = data \ {d} /\ astray' = (astray \cup (Children(p) \cap data)) \ {d}
        /\ UNCHANGED <<phase, owner, sessionsLeft, projectsLeft>>
    BY <1>13 DEF DropsProject
  <2>3. \A e \in data \ (astray \cup Apart) : Parent(e) = d => e \in Children(p)
    BY ChildOf DEF ErasureInv
  <2> HIDE DEF d
  <2>. QED BY <1>10, <2>1, <2>2, <2>3
<1>14. ASSUME NEW p \in Projects, DropsMessages(p) PROVE ErasureInv'
  <2> DEFINE d == <<"chat", p>>
  <2>1. d \notin Lasting \cup {Account}
    BY DEF Lasting, Account
  <2>2. \A e \in data \ (astray \cup Apart) : Parent(e) # d
    <3>1. \A e \in Documents : Parent(e) # d
      BY DEF Parent, Account
    <3>. QED BY <3>1 DEF ErasureInv
  <2> HIDE DEF d
  <2>. QED BY <1>10, <1>14, <2>1, <2>2 DEF DropsMessages, d
<1>15. CASE Discards
  <2>1. Loose \in Apart /\ Loose \notin Lasting \cup {Account}
    BY DEF Apart, Loose, Lasting, Account
  <2>2. /\ data' = data \ {Loose}
        /\ UNCHANGED <<phase, owner, sessionsLeft, projectsLeft, astray>>
    BY <1>15 DEF Discards
  <2>3. \A e \in Documents : Parent(e) # Loose
    BY DEF Parent, Loose, Account
  <2>. QED BY <1>10, <2>1, <2>2, <2>3 DEF ErasureInv
<1>16. CASE \E x \in Sessions \cup Projects : DropFails(x)
  BY <1>16 DEF DropFails, ErasureInv, ListsInv, Rooted, Covered, Ahead
<1>. QED
  BY <1>1, <1>2, <1>3, <1>4, <1>5, <1>6, <1>7, <1>8, <1>9, <1>11,
     <1>12, <1>13, <1>14, <1>15, <1>16 DEF ErasureNext

\* For any number of sessions and projects, and wherever a deletion fails and
\* is begun again: once the user document is gone, nothing that the deletion
\* comes to is left but what was written meanwhile, what the user's own
\* deletions left behind and chats whose deletion failed; the assistant's memory
\* and the API keys are left whole (delete_my_account).
THEOREM ErasureIsFinal == ErasureSpec => []ErasedForGood
<1>1. ErasureInv => ErasedForGood
  BY DEF ErasureInv, Rooted, ErasedForGood
<1>. QED
  BY <1>1, ErasureStarts, ErasureStep, PTL DEF ErasureSpec

------------------------------------------------------------------------------
(***************************************************************************)
(* Subscription.  The expiry exceeds what was paid for by one term at most *)
(* for each redelivery that has ended; one that is under way is counted    *)
(* already. It falls short of it only after two writers overlapped.        *)
(***************************************************************************)
\* A request that found the plan lapsed, with what it read.
ReaderRecords == [at : {"idle", "lapsing"}, seen : Plans]

\* A delivery of a payment, with the plan it read.
DeliveryRecords ==
    [at : {"idle", "read"}, payment : Payments \cup {"none"}, again : BOOLEAN, seen : Plans]

\* A payment at the provider.
ChargeRecords == [state : {"none", "paid", "handled"}, tier : PaidTiers \cup {"free"}]

\* Who lapses a plan read one that had lapsed; who extends one read a payment
\* that was made.
PaidTyped ==
    /\ clock \in Nat /\ plan \in Plans /\ owed \in Nat /\ repeats \in Nat /\ overlapped \in BOOLEAN
    /\ reader \in [Readers -> ReaderRecords]
    /\ handler \in [Handlers -> DeliveryRecords]
    /\ charge \in [Payments -> ChargeRecords]
    /\ \A r \in Readers : reader[r].at = "lapsing" => HasLapsed(reader[r].seen)
    /\ \A h \in Handlers : handler[h].at = "read" =>
         handler[h].payment \in Payments /\ charge[handler[h].payment].state # "none"
    /\ \A p \in Payments : charge[p].state # "none" => charge[p].tier \in PaidTiers

\* The redeliveries under way.
Repeating == {h \in Handlers : handler[h].at = "read" /\ handler[h].again}

\* A redelivery is counted when it begins, and extends the plan when it ends.
NoLonger ==
    \E done \in Nat :
        /\ done + Cardinality(Repeating) <= repeats
        /\ overlapped \/ plan.until <= LaterOf(owed) + Term * done

\* What is owed is served, in the tier bought last unless a payment came twice.
NoShorter ==
    overlapped \/ owed < clock
      \/ (/\ plan.tier # "free" /\ plan.until >= owed
          /\ repeats = 0 => plan.tier = bought)

\* The inductive invariant.
PaidInv == PaidTyped /\ IsFiniteSet(Repeating) /\ NoLonger /\ NoShorter

\* A further term.
LEMMA Terms ==
    ASSUME NEW n \in Nat
    PROVE  /\ Term \in Nat \ {0} /\ Term * n \in Nat /\ Term * (n + 1) = Term * n + Term
           /\ \A m \in Nat : n <= m => Term * n <= Term * m
BY SubscriptionAssumption

\* Initially the user is in the free tier and nothing is owed.
LEMMA PaidStarts == SubscriptionInit => PaidInv
<1>. SUFFICES ASSUME SubscriptionInit PROVE PaidInv
  OBVIOUS
<1>1. /\ Free \in Plans /\ Free.until = 0 /\ [at |-> "idle", seen |-> Free] \in ReaderRecords
      /\ NoDelivery \in DeliveryRecords /\ NoDelivery.at = "idle"
      /\ [state |-> "none", tier |-> "free"] \in ChargeRecords
  BY DEF Free, Plans, ReaderRecords, NoDelivery, DeliveryRecords, ChargeRecords
<1>. HIDE DEF Free, NoDelivery
<1>2. PaidTyped
  BY <1>1 DEF SubscriptionInit, PaidTyped
<1>3. Repeating = {}
  BY <1>1 DEF SubscriptionInit, Repeating
<1>4. IsFiniteSet(Repeating) /\ Cardinality(Repeating) = 0
  BY <1>3, FS_EmptySet
<1>5. NoLonger
  <2>1. 0 \in Nat /\ Term * 0 \in Nat /\ plan.until = 0 /\ LaterOf(owed) = 1 /\ repeats = 0
    BY <1>1, Terms DEF SubscriptionInit, LaterOf
  <2>2. 0 + Cardinality(Repeating) <= repeats /\ plan.until <= LaterOf(owed) + Term * 0
    BY <1>4, <2>1
  <2>. QED BY <2>1, <2>2 DEF NoLonger
<1>6. NoShorter
  BY DEF NoShorter, SubscriptionInit
<1>. QED BY <1>2, <1>4, <1>5, <1>6 DEF PaidInv

\* A delivery ends: its redelivery, if it is one, is no longer under way.
LEMMA DeliveryEnds ==
    ASSUME PaidInv, NEW h \in Handlers, handler[h].at = "read",
           handler' = [handler EXCEPT ![h] = NoDelivery]
    PROVE  /\ handler' \in [Handlers -> DeliveryRecords] /\ handler'[h] = NoDelivery
           /\ \A g \in Handlers : g # h => handler'[g] = handler[g]
           /\ NoDelivery.at = "idle"
           /\ IsFiniteSet(Repeating') /\ Cardinality(Repeating') \in Nat
           /\ Cardinality(Repeating) \in Nat
           /\ Cardinality(Repeating) = Cardinality(Repeating') + (IF handler[h].again THEN 1 ELSE 0)
<1>1. NoDelivery \in DeliveryRecords /\ NoDelivery.at = "idle"
  BY DEF NoDelivery, DeliveryRecords, Free, Plans
<1>. HIDE DEF NoDelivery
<1>2. /\ handler' \in [Handlers -> DeliveryRecords] /\ handler'[h] = NoDelivery
      /\ \A g \in Handlers : g # h => handler'[g] = handler[g]
      /\ handler[h] \in DeliveryRecords
  BY <1>1 DEF PaidInv, PaidTyped
<1>3. Repeating' = Repeating \ {h} /\ (h \in Repeating <=> handler[h].again)
  BY <1>1, <1>2 DEF Repeating
<1>4. IsFiniteSet(Repeating) /\ Cardinality(Repeating) \in Nat
  BY FS_CardinalityType DEF PaidInv
<1>5. IsFiniteSet(Repeating') /\ Cardinality(Repeating') \in Nat
  BY <1>3, <1>4, FS_RemoveElement, FS_CardinalityType
<1>6. Cardinality(Repeating') =
        IF h \in Repeating THEN Cardinality(Repeating) - 1 ELSE Cardinality(Repeating)
  BY <1>3, <1>4, FS_RemoveElement
<1>7. Cardinality(Repeating) = Cardinality(Repeating') + (IF handler[h].again THEN 1 ELSE 0)
  BY <1>3, <1>4, <1>5, <1>6
<1>. QED BY <1>1, <1>2, <1>4, <1>5, <1>7

\* Every step keeps the invariant.
LEMMA PaidStep == PaidInv /\ [SubscriptionNext]_subscriptionVars => PaidInv'
<1>. SUFFICES ASSUME PaidInv, [SubscriptionNext]_subscriptionVars PROVE PaidInv'
  OBVIOUS
<1>0. /\ PaidTyped /\ clock \in Nat /\ owed \in Nat /\ repeats \in Nat /\ plan \in Plans
      /\ plan.until \in Nat /\ plan.tier \in PaidTiers \cup {"free"} /\ bought = bought
      /\ \A r \in Readers : reader[r] \in ReaderRecords /\ reader[r].seen \in Plans
      /\ \A h \in Handlers : handler[h] \in DeliveryRecords /\ handler[h].seen \in Plans
      /\ \A p \in Payments : charge[p] \in ChargeRecords
      /\ Free \in Plans /\ Free.until = 0 /\ Free.tier = "free"
  BY DEF PaidInv, PaidTyped, Plans, ReaderRecords, DeliveryRecords, Free
<1>a. PICK done \in Nat : /\ done + Cardinality(Repeating) <= repeats
                          /\ overlapped \/ plan.until <= LaterOf(owed) + Term * done
  BY DEF PaidInv, NoLonger
<1>b. /\ Term \in Nat \ {0} /\ Term * done \in Nat /\ Term * (done + 1) = Term * done + Term
      /\ done + 1 \in Nat /\ IsFiniteSet(Repeating) /\ Cardinality(Repeating) \in Nat
  <2>1. Term \in Nat \ {0} /\ Term * done \in Nat /\ Term * (done + 1) = Term * done + Term
    BY <1>a, Terms
  <2>2. IsFiniteSet(Repeating) /\ Cardinality(Repeating) \in Nat
    BY FS_CardinalityType DEF PaidInv
  <2>3. done + 1 \in Nat
    BY <1>a
  <2>. QED BY <2>1, <2>2, <2>3
<1>1. CASE PassTime
  <2>1. /\ clock' = clock + 1
        /\ UNCHANGED <<plan, reader, handler, charge, owed, bought, repeats, overlapped>>
    BY <1>1 DEF PassTime
  <2>2. PaidTyped' /\ Repeating' = Repeating
    BY <1>0, <2>1 DEF PaidTyped, HasLapsed, Repeating, Plans, ReaderRecords
  <2>3. LaterOf(owed)' >= LaterOf(owed) /\ LaterOf(owed) \in Nat /\ LaterOf(owed)' \in Nat
    BY <1>0, <2>1 DEF LaterOf
  <2>4. overlapped \/ plan.until <= LaterOf(owed)' + Term * done
    BY <1>0, <1>a, <1>b, <2>3
  <2>5. NoLonger'
    BY <1>a, <2>1, <2>2, <2>4 DEF NoLonger
  <2>6. NoShorter'
    BY <1>0, <2>1 DEF PaidInv, NoShorter
  <2>. QED BY <2>2, <2>5, <2>6 DEF PaidInv
<1>2. ASSUME NEW r \in Readers, ReadTier(r) PROVE PaidInv'
  <2>. DEFINE s == [at |-> "lapsing", seen |-> plan]
  <2>1. /\ HasLapsed(plan) /\ reader' = [reader EXCEPT ![r] = s]
        /\ UNCHANGED <<clock, plan, handler, charge, owed, bought, repeats, overlapped>>
    BY <1>2 DEF ReadTier
  <2>2. s \in ReaderRecords /\ s.seen = plan
    BY <1>0 DEF ReaderRecords
  <2>. HIDE DEF s
  <2>3. PaidTyped'
    BY <1>0, <2>1, <2>2 DEF PaidTyped, HasLapsed
  <2>. QED BY <2>1, <2>3 DEF PaidInv, NoLonger, NoShorter, Repeating, LaterOf
<1>3. ASSUME NEW r \in Readers, Lapse(r) PROVE PaidInv'
  <2>. DEFINE s == [at |-> "idle", seen |-> Free]
  <2>1. /\ reader[r].at = "lapsing" /\ plan' = Free /\ reader' = [reader EXCEPT ![r] = s]
        /\ overlapped' = (overlapped \/ plan \notin {reader[r].seen, Free})
        /\ UNCHANGED <<clock, handler, charge, owed, bought, repeats>>
    BY <1>3 DEF Lapse
  <2>2. s \in ReaderRecords /\ s.at = "idle"
    BY <1>0 DEF ReaderRecords
  <2>. HIDE DEF s, Free
  <2>3. PaidTyped'
    BY <1>0, <2>1, <2>2 DEF PaidTyped, HasLapsed
  <2>4. reader[r].seen.until < clock /\ reader[r].seen.tier # "free"
    BY <1>0, <2>1 DEF PaidTyped, HasLapsed
  <2>5. NoLonger'
    <3>1. LaterOf(owed) \in Nat /\ LaterOf(owed)' = LaterOf(owed)
      BY <1>0, <2>1 DEF LaterOf
    <3>2. plan'.until <= LaterOf(owed)' + Term * done /\ Repeating' = Repeating
      BY <1>0, <1>b, <2>1, <3>1 DEF Repeating
    <3>. QED BY <1>a, <2>1, <3>2 DEF NoLonger
  <2>6. NoShorter'
    <3>1. CASE overlapped'
      BY <3>1 DEF NoShorter
    <3>2. CASE ~overlapped'
      <4>1. ~overlapped /\ plan \in {reader[r].seen, Free}
        BY <2>1, <3>2
      <4>2. owed < clock
        BY <1>0, <2>4, <4>1 DEF PaidInv, NoShorter
      <4>. QED BY <2>1, <4>2 DEF NoShorter
    <3>. QED BY <3>1, <3>2
  <2>. QED BY <2>1, <2>3, <2>5, <2>6 DEF PaidInv, Repeating
<1>4. ASSUME NEW p \in Payments, NEW tier \in PaidTiers, Pay(p, tier) PROVE PaidInv'
  <2>. DEFINE s == [state |-> "paid", tier |-> tier]
  <2>1. /\ charge[p].state = "none" /\ charge' = [charge EXCEPT ![p] = s]
        /\ UNCHANGED <<clock, plan, reader, handler, owed, bought, repeats, overlapped>>
    BY <1>4 DEF Pay
  <2>2. s \in ChargeRecords /\ s.tier = tier /\ s.state # "none"
    BY DEF ChargeRecords
  <2>. HIDE DEF s
  <2>3. PaidTyped'
    BY <1>0, <2>1, <2>2 DEF PaidTyped, HasLapsed
  <2>. QED BY <2>1, <2>3 DEF PaidInv, NoLonger, NoShorter, Repeating, LaterOf
\* A payment goes to another state at the provider, its tier with it.
<1>c. ASSUME NEW p \in Payments, NEW st \in {"paid", "handled"}, charge[p].state # "none",
             charge' = [charge EXCEPT ![p].state = st]
      PROVE  /\ charge' \in [Payments -> ChargeRecords]
             /\ \A q \in Payments : charge'[q].tier = charge[q].tier
             /\ \A q \in Payments : charge'[q].state # "none" <=> charge[q].state # "none"
  <2>. DEFINE s == [charge[p] EXCEPT !.state = st]
  <2>1. s \in ChargeRecords /\ s.tier = charge[p].tier /\ s.state = st
    BY <1>0 DEF ChargeRecords
  <2>2. charge' = [charge EXCEPT ![p] = s]
    BY <1>c, <1>0 DEF PaidTyped
  <2>. HIDE DEF s
  <2>. QED BY <1>0, <1>c, <2>1, <2>2 DEF PaidTyped
<1>5. ASSUME NEW h \in Handlers, NEW p \in Payments, Deliver(h, p) PROVE PaidInv'
  <2>. DEFINE again == charge[p].state = "handled"
  <2>1. PICK s \in DeliveryRecords :
          /\ handler' = [handler EXCEPT ![h] = s]
          /\ s.at = "read" /\ s.payment = p /\ (s.again <=> again) /\ s.seen = plan
    <3>. DEFINE x == [at |-> "read", payment |-> p, again |-> again, seen |-> plan]
    <3>1. x \in DeliveryRecords
      BY <1>0 DEF DeliveryRecords
    <3>2. handler' = [handler EXCEPT ![h] = x]
      BY <1>5 DEF Deliver
    <3>3. x.at = "read" /\ x.payment = p /\ (x.again <=> again) /\ x.seen = plan
      OBVIOUS
    <3>. HIDE DEF x, again
    <3>. QED BY <3>1, <3>2, <3>3
  <2>2. /\ handler[h].at = "idle" /\ charge[p].state # "none"
        /\ repeats' = IF again THEN repeats + 1 ELSE repeats
        /\ charge' = [charge EXCEPT ![p].state = "handled"]
        /\ UNCHANGED <<clock, plan, reader, owed, bought, overlapped>>
    BY <1>5 DEF Deliver
  <2>. HIDE DEF again
  <2>3. /\ charge' \in [Payments -> ChargeRecords]
        /\ \A q \in Payments : charge'[q].tier = charge[q].tier
        /\ \A q \in Payments : charge'[q].state # "none" <=> charge[q].state # "none"
    BY <1>c, <2>2
  <2>4. /\ handler' \in [Handlers -> DeliveryRecords] /\ handler'[h] = s
        /\ \A g \in Handlers : g # h => handler'[g] = handler[g]
    BY <1>0, <2>1 DEF PaidTyped
  <2>5. PaidTyped'
    BY <1>0, <2>1, <2>2, <2>3, <2>4 DEF PaidTyped, HasLapsed
  <2>6. Repeating' = IF again THEN Repeating \cup {h} ELSE Repeating
    BY <2>1, <2>2, <2>4 DEF Repeating
  <2>7. h \notin Repeating
    BY <2>2 DEF Repeating
  <2>8. /\ IsFiniteSet(Repeating') /\ Cardinality(Repeating') \in Nat
        /\ Cardinality(Repeating') = Cardinality(Repeating) + (IF again THEN 1 ELSE 0)
    BY <1>b, <2>6, <2>7, FS_AddElement, FS_CardinalityType
  <2>9. NoLonger'
    <3>1. done + Cardinality(Repeating') <= repeats'
      BY <1>0, <1>a, <1>b, <2>2, <2>8
    <3>. QED BY <1>a, <2>2, <3>1 DEF NoLonger, LaterOf
  <2>10. NoShorter'
    BY <1>0, <2>2 DEF PaidInv, NoShorter
  <2>. QED BY <2>5, <2>8, <2>9, <2>10 DEF PaidInv
<1>6. ASSUME NEW h \in Handlers, DeliveryFails(h) PROVE PaidInv'
  <2>1. /\ handler[h].at = "read" /\ handler' = [handler EXCEPT ![h] = NoDelivery]
        /\ charge' = charge \/ charge' = [charge EXCEPT ![handler[h].payment].state = "paid"]
        /\ UNCHANGED <<clock, plan, reader, owed, bought, repeats, overlapped>>
    BY <1>6 DEF DeliveryFails
  <2>2. /\ handler' \in [Handlers -> DeliveryRecords] /\ handler'[h] = NoDelivery
        /\ \A g \in Handlers : g # h => handler'[g] = handler[g]
        /\ NoDelivery.at = "idle"
        /\ IsFiniteSet(Repeating') /\ Cardinality(Repeating') \in Nat
        /\ Cardinality(Repeating') <= Cardinality(Repeating)
    <3>1. /\ handler' \in [Handlers -> DeliveryRecords] /\ handler'[h] = NoDelivery
          /\ \A g \in Handlers : g # h => handler'[g] = handler[g]
          /\ NoDelivery.at = "idle"
          /\ IsFiniteSet(Repeating') /\ Cardinality(Repeating') \in Nat
          /\ Cardinality(Repeating) = Cardinality(Repeating')
               + (IF handler[h].again THEN 1 ELSE 0)
      BY <2>1, DeliveryEnds
    <3>. HIDE DEF NoDelivery
    <3>2. Cardinality(Repeating') <= Cardinality(Repeating)
      BY <1>b, <3>1
    <3>. QED BY <3>1, <3>2
  <2>3. /\ charge' \in [Payments -> ChargeRecords]
        /\ \A q \in Payments : charge'[q].tier = charge[q].tier
        /\ \A q \in Payments : charge'[q].state # "none" <=> charge[q].state # "none"
    <3>1. handler[h].payment \in Payments /\ charge[handler[h].payment].state # "none"
      BY <1>0, <2>1 DEF PaidTyped
    <3>. QED BY <1>0, <1>c, <2>1, <3>1 DEF PaidTyped
  <2>. HIDE DEF NoDelivery
  <2>4. PaidTyped'
    BY <1>0, <2>1, <2>2, <2>3 DEF PaidTyped, HasLapsed
  <2>5. NoLonger'
    <3>1. done + Cardinality(Repeating') <= repeats
      BY <1>0, <1>a, <1>b, <2>2
    <3>. QED BY <1>a, <2>1, <3>1 DEF NoLonger, LaterOf
  <2>. QED BY <2>1, <2>2, <2>4, <2>5 DEF PaidInv, NoShorter
<1>7. ASSUME NEW h \in Handlers, Activate(h) PROVE PaidInv'
  <2>. DEFINE seen == handler[h].seen
              tier == charge[handler[h].payment].tier
              again == handler[h].again
  <2>1. /\ handler[h].at = "read" /\ plan' = [tier |-> tier, until |-> Extended(seen.until)]
        /\ handler' = [handler EXCEPT ![h] = NoDelivery]
        /\ overlapped' = (overlapped \/ plan # seen)
        /\ owed' = (IF again THEN owed ELSE LaterOf(owed) + Term)
        /\ bought' = (IF again THEN bought ELSE tier)
        /\ UNCHANGED <<clock, reader, charge, repeats>>
    BY <1>7 DEF Activate
  <2>2. /\ handler' \in [Handlers -> DeliveryRecords] /\ handler'[h] = NoDelivery
        /\ \A g \in Handlers : g # h => handler'[g] = handler[g]
        /\ NoDelivery.at = "idle"
        /\ IsFiniteSet(Repeating') /\ Cardinality(Repeating') \in Nat
        /\ Cardinality(Repeating) = Cardinality(Repeating') + (IF again THEN 1 ELSE 0)
    BY <2>1, DeliveryEnds
  <2>3. tier \in PaidTiers /\ tier # "free" /\ seen \in Plans /\ seen.until \in Nat
    BY <1>0, <2>1, SubscriptionAssumption DEF PaidTyped, Plans
  <2>4. /\ LaterOf(owed) \in Nat /\ LaterOf(seen.until) \in Nat /\ LaterOf(owed) >= clock
        /\ LaterOf(owed) >= owed /\ (owed < clock => LaterOf(owed) = clock)
        /\ (owed >= clock => LaterOf(owed) = owed)
        /\ LaterOf(seen.until) >= clock /\ LaterOf(seen.until) >= seen.until
        /\ LaterOf(seen.until) \in {clock, seen.until}
    BY <1>0, <2>3 DEF LaterOf
  <2>5. /\ plan' \in Plans /\ plan'.tier = tier /\ plan'.until = LaterOf(seen.until) + Term
        /\ plan'.until \in Nat
    BY <1>b, <2>1, <2>3, <2>4 DEF Extended, Plans
  <2>6. owed' \in Nat
    BY <1>0, <1>b, <2>1, <2>4
  <2>. HIDE DEF NoDelivery
  <2>7. PaidTyped'
    <3>1. overlapped' \in BOOLEAN
      BY <2>1
    <3>. QED BY <1>0, <2>1, <2>2, <2>5, <2>6, <3>1 DEF PaidTyped, HasLapsed
  <2>. DEFINE count == IF again THEN done + 1 ELSE done
  <2>8. count \in Nat /\ count + Cardinality(Repeating') <= repeats'
    BY <1>0, <1>a, <1>b, <2>1, <2>2
  <2>9. ASSUME ~overlapped' PROVE plan'.until <= LaterOf(owed)' + Term * count
    <3>1. seen = plan /\ ~overlapped
      BY <2>1, <2>9
    <3>2. LaterOf(seen.until) <= LaterOf(owed) + Term * done
      BY <1>0, <1>a, <1>b, <2>4, <3>1
    <3>3. CASE again
      <4>1. LaterOf(owed)' = LaterOf(owed) /\ Term * count = Term * done + Term
        BY <1>b, <2>1, <3>3 DEF LaterOf
      <4>. HIDE DEF count
      <4>. QED BY <1>b, <2>4, <2>5, <3>2, <4>1
    <3>4. CASE ~again
      <4>1. owed' = LaterOf(owed) + Term /\ LaterOf(owed)' >= owed' /\ LaterOf(owed)' \in Nat
            /\ count = done
        BY <1>0, <1>b, <2>1, <2>4, <2>6, <3>4 DEF LaterOf
      <4>. HIDE DEF count
      <4>. QED BY <1>b, <2>4, <2>5, <3>2, <4>1
    <3>. QED BY <3>3, <3>4
  <2>10. NoLonger'
    <3>. HIDE DEF count
    <3>. QED BY <2>8, <2>9 DEF NoLonger
  <2>11. NoShorter'
    <3>1. SUFFICES ASSUME ~overlapped' PROVE NoShorter'
      BY DEF NoShorter
    <3>2. seen = plan /\ ~overlapped
      BY <2>1, <3>1
    <3>3. owed < clock \/ (plan.until >= owed /\ (repeats = 0 => plan.tier = bought))
      BY <3>2 DEF PaidInv, NoShorter
    <3>4. again => repeats > 0
      BY <1>0, <1>a, <1>b, <2>2
    <3>5. CASE again
      <4>1. owed' = owed /\ (owed < clock \/ plan'.until >= owed)
        BY <1>0, <1>b, <2>1, <2>4, <2>5, <3>2, <3>3, <3>5
      <4>. QED BY <1>0, <2>1, <2>3, <2>5, <3>4, <3>5, <4>1 DEF NoShorter
    <3>6. CASE ~again
      <4>1. owed' = LaterOf(owed) + Term /\ bought' = tier
        BY <2>1, <3>6
      <4>2. LaterOf(seen.until) >= LaterOf(owed)
        BY <1>0, <2>4, <3>2, <3>3
      <4>3. plan'.until >= owed'
        BY <1>b, <2>4, <2>5, <4>1, <4>2
      <4>. QED BY <2>3, <2>5, <4>1, <4>3 DEF NoShorter
    <3>. QED BY <3>5, <3>6
  <2>. QED BY <2>2, <2>7, <2>10, <2>11 DEF PaidInv
<1>8. CASE UNCHANGED subscriptionVars
  BY <1>8 DEF subscriptionVars, PaidInv, PaidTyped, NoLonger, NoShorter, Repeating, LaterOf, HasLapsed
<1>. QED
  BY <1>1, <1>2, <1>3, <1>4, <1>5, <1>6, <1>7, <1>8 DEF SubscriptionNext

\* For any number of requests, payments and deliveries, and terms of any
\* length: unless two writers of the document overlapped, a user is in a paid
\* tier for as long as the payments delivered pay for, and for no longer than
\* one more term per redelivery (_handle_payment_complete, get_user_tier).
THEOREM PaidTimeIsServed == SubscriptionSpec => []PaidTimeServed
<1>1. PaidInv => PaidTimeServed
  <2>. SUFFICES ASSUME PaidInv, ~overlapped
                PROVE  /\ clock <= owed => /\ plan.tier # "free" /\ plan.until >= owed
                                           /\ repeats = 0 => plan.tier = bought
                       /\ plan.until <= LaterOf(owed) + Term * repeats
    BY DEF PaidTimeServed
  <2>1. clock \in Nat /\ owed \in Nat /\ repeats \in Nat /\ plan.until \in Nat
    BY DEF PaidInv, PaidTyped, Plans
  <2>2. PICK done \in Nat : /\ done + Cardinality(Repeating) <= repeats
                            /\ plan.until <= LaterOf(owed) + Term * done
    BY DEF PaidInv, NoLonger
  <2>3. done <= repeats
    BY <2>1, <2>2, FS_CardinalityType DEF PaidInv
  <2>4. Term * done \in Nat /\ Term * repeats \in Nat /\ Term * done <= Term * repeats
    BY <2>1, <2>3, Terms
  <2>5. LaterOf(owed) \in Nat
    BY <2>1 DEF LaterOf
  <2>6. plan.until <= LaterOf(owed) + Term * repeats
    BY <2>1, <2>2, <2>4, <2>5
  <2>. QED BY <2>1, <2>6 DEF PaidInv, NoShorter
<1>. QED
  BY <1>1, PaidStarts, PaidStep, PTL DEF SubscriptionSpec

------------------------------------------------------------------------------
(***************************************************************************)
(* TokenBucket.  A caller is let in while the budget has something left;   *)
(* so what has been consumed of this month, with a call of the largest     *)
(* size for each caller let in, stays below the largest budget and one     *)
(* call per caller.                                                        *)
(***************************************************************************)
\* The largest budget of a tier.
Largest == Max({Budget[t] : t \in Tiers})

\* The callers that were let in at full price.
Paying == {c \in Callers : caller[c] = "full"}

\* What all callers together can add.
Reserve == Cardinality(Callers) * Cost

\* What was consumed at full price is recorded or missed; a caller that was
\* let in can still add the largest call.
BucketInv ==
    /\ month \in Nat
    /\ used \in [Months -> Nat] /\ full \in [Months -> Nat] /\ missed \in [Months -> Nat]
    /\ month \in Months
    /\ caller \in [Callers -> {"idle", "full", "free"}]
    /\ \A m \in Months : full[m] <= used[m] + missed[m] /\ (m > month => full[m] = 0)
    /\ full[month] + Cardinality(Paying) * Cost + 1 <= Largest + Reserve + missed[month]
    /\ FullPriceBounded

\* A finite set of tiers has one of the largest budget: by induction on the set,
\* as a smallest set that has none does not exist.
LEMMA LargestBudget ==
    /\ Largest \in Nat \ {0}
    /\ \A t \in Tiers : Budget[t] <= Largest
<1>. DEFINE Best(T, x) == x \in T /\ \A y \in T : Budget[y] <= Budget[x]
            Bad == {T \in FiniteSubsetsOf(Tiers) : T # {} /\ \A x \in T : ~Best(T, x)}
<1>1. ASSUME Bad # {} PROVE FALSE
  <2>1. PICK T \in Bad : \A U \in Bad : <<U, T>> \notin StrictSubsetOrdering(Tiers)
    <3>1. Bad \subseteq FiniteSubsetsOf(Tiers)
      OBVIOUS
    <3>. HIDE DEF Bad
    <3>. QED BY <1>1, <3>1, WFMin, FS_StrictSubsetOrderingWellFounded
  <2>2. T \in SUBSET Tiers /\ IsFiniteSet(T) /\ T # {}
    BY DEF FiniteSubsetsOf
  <2>3. PICK x \in T : TRUE
    BY <2>2
  <2>. DEFINE U == T \ {x}
  <2>4. U \in FiniteSubsetsOf(Tiers) /\ <<U, T>> \in StrictSubsetOrdering(Tiers)
    <3>1. IsFiniteSet(U)
      BY <2>2, FS_RemoveElement
    <3>. QED BY <2>2, <2>3, <3>1 DEF FiniteSubsetsOf, StrictSubsetOrdering
  <2>5. U \notin Bad
    BY <2>1, <2>4
  <2>6. Budget[x] \in Nat /\ \A y \in T : Budget[y] \in Nat
    BY <2>2, BucketAssumption
  <2>7. CASE U = {}
    <3>1. Best(T, x)
      BY <2>6, <2>7
    <3>. QED BY <2>3, <3>1
  <2>8. CASE U # {}
    <3>1. PICK y \in U : Best(U, y)
      BY <2>4, <2>5, <2>8
    <3>2. Best(T, IF Budget[y] <= Budget[x] THEN x ELSE y)
      BY <2>6, <3>1
    <3>. QED BY <3>1, <3>2
  <2>. QED BY <2>7, <2>8
<1>2. Tiers \in FiniteSubsetsOf(Tiers) /\ Tiers # {}
  BY BucketAssumption DEF FiniteSubsetsOf
<1>3. PICK x \in Tiers : Best(Tiers, x)
  BY <1>1, <1>2
<1>. DEFINE B == {Budget[t] : t \in Tiers}
<1>4. \E b \in B : \A c \in B : b >= c
  BY <1>3, BucketAssumption
<1>5. Largest \in B /\ \A c \in B : Largest >= c
  <2>. HIDE DEF B
  <2>1. Max(B) \in B /\ \A c \in B : Max(B) >= c
    BY <1>4 DEF Max
  <2>2. Largest = Max(B)
    BY DEF Largest, B
  <2>. QED BY <2>1, <2>2
<1>. QED BY <1>5, BucketAssumption

\* How many callers pay, and how one that starts or stops changes that.
LEMMA Payers ==
    /\ Cardinality(Callers) \in Nat /\ IsFiniteSet(Paying)
    /\ Cardinality(Paying) \in Nat /\ Cardinality(Paying) <= Cardinality(Callers)
<1>1. Paying \in SUBSET Callers
  BY DEF Paying
<1>. QED BY <1>1, FS_Subset, FS_CardinalityType, BucketAssumption

\* Facts on products that the solver does not find by itself.
LEMMA Products ==
    ASSUME NEW a \in Nat, NEW b \in Nat, NEW c \in Nat, a <= b
    PROVE  /\ a * c \in Nat /\ b * c \in Nat /\ a * c <= b * c
           /\ (a + 1) * c = a * c + c
OBVIOUS

\* Initially nothing was consumed.
LEMMA BucketStarts == BucketInit => BucketInv
<1>. SUFFICES ASSUME BucketInit PROVE BucketInv
  OBVIOUS
<1>1. 0 \in Months
  BY BucketAssumption DEF Months
<1>2. /\ Cardinality(Paying) * Cost <= Reserve /\ Cardinality(Paying) * Cost \in Nat /\ Reserve \in Nat
  BY Payers, Products, BucketAssumption DEF Reserve
<1>. QED
  BY <1>1, <1>2, LargestBudget
     DEF BucketInit, BucketInv, FullPriceBounded, Reserve, Largest, Months

\* A caller that ends without a record, or goes on for free.
LEMMA BucketStep == BucketInv /\ [BucketNext]_bucketVars => BucketInv'
<1>. SUFFICES ASSUME BucketInv, [BucketNext]_bucketVars PROVE BucketInv'
  OBVIOUS
<1>. DEFINE P == Cardinality(Paying)
<1>0. /\ P \in Nat /\ P * Cost <= Reserve /\ P * Cost \in Nat /\ Reserve \in Nat /\ Cost \in Nat
      /\ Largest \in Nat \ {0} /\ P <= Cardinality(Callers) /\ Cardinality(Callers) \in Nat
  BY Payers, Products, LargestBudget, BucketAssumption DEF Reserve
<1>a. FullPriceBounded <=> \A m \in Months : full[m] + 1 <= Largest + Reserve + missed[m]
  BY DEF FullPriceBounded, Largest, Reserve
<1>b. FullPriceBounded' <=> \A m \in Months : full'[m] + 1 <= Largest + Reserve + missed'[m]
  BY DEF FullPriceBounded, Largest, Reserve, Months
<1>1. CASE NextMonth
  <2>1. month' = month + 1 /\ month' \in Months /\ month' \in Nat
        /\ UNCHANGED <<used, caller, full, missed>>
    BY <1>1, BucketAssumption DEF NextMonth, BucketInv, Months
  <2>5. Paying' = Paying
    BY <2>1 DEF Paying
  <2>2. full[month'] = 0 /\ missed[month'] \in Nat
    BY <2>1 DEF BucketInv, Months
  <2>3. full[month'] + P * Cost + 1 <= Largest + Reserve + missed[month']
    BY <1>0, <2>2
  <2>4. \A m \in Months : m > month' => m > month
    BY <2>1 DEF Months, BucketInv
  <2>6. full'[month'] + Cardinality(Paying') * Cost + 1 <= Largest + Reserve + missed'[month']
    BY <2>1, <2>3, <2>5
  <2>7. FullPriceBounded'
    BY <1>a, <1>b, <2>1 DEF BucketInv
  <2>. HIDE DEF P
  <2>. QED
    BY <2>1, <2>4, <2>6, <2>7 DEF BucketInv, Months, Largest, Reserve
<1>2. ASSUME NEW c \in Callers, NEW tier \in Tiers, Evaluate(c, tier) PROVE BucketInv'
  <2>1. caller[c] = "idle" /\ UNCHANGED <<month, used, full, missed>>
    BY <1>2 DEF Evaluate
  <2>2. caller' \in [Callers -> {"idle", "full", "free"}]
    BY <1>2 DEF Evaluate, BucketInv
  <2>3. CASE OverLimit(tier)
    <3>1. Paying' = Paying
      BY <1>2, <2>1, <2>3 DEF Evaluate, Paying, BucketInv
    <3>. QED BY <2>1, <2>2, <3>1, <1>a, <1>b DEF BucketInv, Largest, Reserve, Months
  <2>4. CASE ~OverLimit(tier)
    <3>1. used[month] + 1 <= Largest
      BY <2>4, LargestBudget, BucketAssumption DEF OverLimit, BucketInv
    <3>2. full[month] <= used[month] + missed[month] /\ full[month] \in Nat /\ used[month] \in Nat
          /\ missed[month] \in Nat
      BY DEF BucketInv
    <3>3. Cardinality(Paying') * Cost <= Reserve /\ Cardinality(Paying') * Cost \in Nat
      <4>1. Paying' \in SUBSET Callers
        BY DEF Paying
      <4>2. Cardinality(Paying') \in Nat /\ Cardinality(Paying') <= Cardinality(Callers)
        BY <4>1, FS_Subset, FS_CardinalityType, BucketAssumption
      <4>. QED BY <4>2, <1>0, Products DEF Reserve
    <3>4. full[month] + Cardinality(Paying') * Cost + 1 <= Largest + Reserve + missed[month]
      BY <1>0, <3>1, <3>2, <3>3
    <3>. QED BY <2>1, <2>2, <3>4, <1>a, <1>b DEF BucketInv, Largest, Reserve, Months
  <2>. QED BY <2>3, <2>4
<1>3. ASSUME NEW c \in Callers, caller[c] # "idle", caller' = [caller EXCEPT ![c] = "idle"]
      PROVE  /\ caller' \in [Callers -> {"idle", "full", "free"}]
             /\ Cardinality(Paying') * Cost \in Nat
             /\ Cardinality(Paying') * Cost + (IF caller[c] = "full" THEN Cost ELSE 0) = P * Cost
  <2>1. Paying' = Paying \ {c}
    BY <1>3 DEF Paying, BucketInv
  <2>2. Cardinality(Paying') = IF caller[c] = "full" THEN P - 1 ELSE P
    <3>1. c \in Paying <=> caller[c] = "full"
      BY DEF Paying
    <3>. QED BY <2>1, <3>1, Payers, FS_RemoveElement
  <2>3. Cardinality(Paying') \in Nat
    <3>1. IsFiniteSet(Paying')
      BY <2>1, Payers, FS_RemoveElement
    <3>. QED BY <3>1, FS_CardinalityType
  <2>4. CASE caller[c] = "full"
    <3>1. P = Cardinality(Paying') + 1
      BY <1>0, <2>2, <2>3, <2>4
    <3>. HIDE DEF P
    <3>. QED BY <1>0, <1>3, <2>3, <2>4, <3>1, Products DEF BucketInv
  <2>5. CASE caller[c] # "full"
    BY <1>0, <1>3, <2>2, <2>5 DEF BucketInv
  <2>. QED BY <2>4, <2>5
<1>4. ASSUME NEW c \in Callers, NEW tokens \in 1 .. Cost, Serve(c, tokens) PROVE BucketInv'
  <2>. DEFINE consumed == IF caller[c] = "full" THEN tokens ELSE 0
              Q == Cardinality(Paying') * Cost
  <2>1. /\ caller[c] # "idle" /\ caller' = [caller EXCEPT ![c] = "idle"] /\ month' = month
        /\ full' = [full EXCEPT ![month] = IF caller[c] = "full" THEN @ + tokens ELSE @]
        /\ \/ used' = [used EXCEPT ![month] = @ + tokens] /\ UNCHANGED missed
           \/ missed' = [missed EXCEPT ![month] = @ + tokens] /\ UNCHANGED used
    BY <1>4 DEF Serve
  <2>2. /\ caller' \in [Callers -> {"idle", "full", "free"}] /\ Q \in Nat
        /\ Q + (IF caller[c] = "full" THEN Cost ELSE 0) = P * Cost
    BY <1>3, <2>1
  <2>3. consumed \in Nat /\ consumed <= tokens /\ tokens \in Nat
        /\ consumed <= IF caller[c] = "full" THEN Cost ELSE 0
    BY <1>0
  <2>4. /\ full[month] \in Nat /\ used[month] \in Nat /\ missed[month] \in Nat /\ month \in Months
        /\ full'[month] = full[month] + consumed
        /\ full' \in [Months -> Nat] /\ used' \in [Months -> Nat] /\ missed' \in [Months -> Nat]
        /\ used'[month] + missed'[month] = used[month] + missed[month] + tokens
        /\ missed'[month] >= missed[month]
        /\ \A m \in Months : m # month => /\ full'[m] = full[m] /\ used'[m] = used[m]
                                          /\ missed'[m] = missed[m]
    BY <2>1, <2>3 DEF BucketInv
  <2>5. full'[month] + Q + 1 <= Largest + Reserve + missed'[month]
    <3>1. full[month] + P * Cost + 1 <= Largest + Reserve + missed[month]
      BY DEF BucketInv
    <3>2. full[month] + consumed + Q <= full[month] + P * Cost /\ missed'[month] \in Nat
      BY <1>0, <2>2, <2>3, <2>4
    <3>. HIDE DEF P, Q, consumed
    <3>. QED BY <1>0, <2>2, <2>3, <2>4, <3>1, <3>2
  <2>6. \A m \in Months : full'[m] <= used'[m] + missed'[m]
    BY <2>3, <2>4 DEF BucketInv
  <2>7. full'[month] + 1 <= Largest + Reserve + missed'[month]
    <3>1. full'[month] \in Nat /\ missed'[month] \in Nat
      BY <2>4
    <3>. HIDE DEF Q
    <3>. QED BY <1>0, <2>2, <2>5, <3>1
  <2>8. \A m \in Months : m > month => full'[m] = 0
    BY <2>4 DEF BucketInv, Months
  <2>9. FullPriceBounded'
    BY <1>a, <1>b, <2>4, <2>7 DEF BucketInv
  <2>. HIDE DEF consumed
  <2>. QED
    BY <2>1, <2>2, <2>4, <2>5, <2>6, <2>8, <2>9 DEF BucketInv, Largest, Reserve, Months
<1>5. ASSUME NEW c \in Callers, CallFails(c) PROVE BucketInv'
  <2>1. /\ caller[c] # "idle" /\ caller' = [caller EXCEPT ![c] = "idle"]
        /\ UNCHANGED <<month, used, full, missed>>
    BY <1>5 DEF CallFails
  <2>2. /\ caller' \in [Callers -> {"idle", "full", "free"}] /\ Cardinality(Paying') * Cost \in Nat
        /\ Cardinality(Paying') * Cost <= P * Cost
    <3>1. /\ caller' \in [Callers -> {"idle", "full", "free"}]
          /\ Cardinality(Paying') * Cost \in Nat
          /\ Cardinality(Paying') * Cost + (IF caller[c] = "full" THEN Cost ELSE 0) = P * Cost
      BY <1>3, <2>1
    <3>. HIDE DEF P
    <3>2. CASE caller[c] = "full"
      <4>. DEFINE a == Cardinality(Paying') * Cost
                  b == P * Cost
      <4>1. a \in Nat /\ b \in Nat /\ Cost \in Nat /\ a + Cost = b
        BY <1>0, <3>1, <3>2
      <4>. HIDE DEF a, b
      <4>2. a <= b
        BY <4>1
      <4>. QED BY <3>1, <4>2 DEF a, b
    <3>3. CASE caller[c] # "full"
      <4>. DEFINE a == Cardinality(Paying') * Cost
                  b == P * Cost
      <4>1. a \in Nat /\ b \in Nat /\ a = b
        BY <1>0, <3>1, <3>3
      <4>. HIDE DEF a, b
      <4>2. a <= b
        BY <4>1
      <4>. QED BY <3>1, <4>2 DEF a, b
    <3>. QED BY <3>2, <3>3
  <2>3. full[month] \in Nat /\ missed[month] \in Nat
    BY DEF BucketInv
  <2>4. full[month] + Cardinality(Paying') * Cost + 1 <= Largest + Reserve + missed[month]
    BY <1>0, <2>2, <2>3 DEF BucketInv
  <2>. QED BY <2>1, <2>2, <2>4, <1>a, <1>b DEF BucketInv, Largest, Reserve, Months
<1>6. CASE UNCHANGED bucketVars
  BY <1>6, <1>a, <1>b DEF bucketVars, BucketInv, Paying, Largest, Reserve, Months
<1>. QED
  BY <1>1, <1>2, <1>4, <1>5, <1>6 DEF BucketNext

\* For any number of callers, tiers and months: although the check is not
\* atomic with the call and its record, a month's consumption of models that
\* cost exceeds the largest budget by no more than one call per caller and what
\* was not recorded (evaluate_quota, record_usage).
THEOREM FullPriceIsBounded == BucketSpec => []FullPriceBounded
<1>1. BucketInv => FullPriceBounded
  BY DEF BucketInv
<1>. QED
  BY <1>1, BucketStarts, BucketStep, PTL DEF BucketSpec
==============================================================================
