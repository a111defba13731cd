------------------------------ MODULE DeviceLogin ------------------------------
(***************************************************************************)
(* Device login of the CLI, and the keys it and the dashboard mint.  A     *)
(* device code is a document that the CLI polls and a signed-in user       *)
(* approves; a poll reads it, deletes it and hands the key over, an        *)
(* approval finds it, counts the user's keys, stores a key and merges it   *)
(* into the document.  All of these are separate calls of Firestore.       *)
(***************************************************************************)
EXTENDS Naturals, FiniteSets

CONSTANTS
    Pollers,     \* polls in flight for the device code
    Approvers,   \* approvals in flight, of one user
    Creators,    \* requests of that user's dashboard to create a key
    Keys,        \* keys that may be minted
    MaxActive    \* MAX_ACTIVE_KEYS_PER_USER

ASSUME DeviceAssumption ==
    /\ IsFiniteSet(Approvers) /\ IsFiniteSet(Creators) /\ IsFiniteSet(Keys)
    /\ Approvers \cap Creators = {} /\ MaxActive \in Nat \ {0} /\ "none" \notin Keys

NoKey == "none"
Minters == Approvers \cup Creators

VARIABLES
    grant,      \* the device_logins document
    overdue,    \* whether its ten minutes are over
    poller,     \* what each poll has read
    minter,     \* how far each approval or creation is
    minted,     \* keys that were generated
    active,     \* api_keys without revoked_at
    delivered,  \* history: keys handed to a poll
    twice       \* history: a poll that began after a delivery was handed a key

deviceVars == <<grant, overdue, poller, minter, minted, active, delivered, twice>>

\* "dated": the document carries expires_at.
NoGrant == [state |-> "none", key |-> NoKey, dated |-> FALSE]
Grants == [state : {"none", "pending", "approved"}, key : Keys \cup {NoKey}, dated : BOOLEAN]

DeviceTyped ==
    /\ grant \in Grants /\ overdue \in BOOLEAN /\ twice \in BOOLEAN
    /\ poller \in [Pollers -> [at : {"idle", "take", "drop"}, key : Keys \cup {NoKey},
                               after : BOOLEAN]]
    /\ minter \in [Minters -> [at : {"idle", "matched", "counted", "stored"},
                               key : Keys \cup {NoKey}]]
    /\ minted \subseteq Keys /\ active \subseteq minted /\ delivered \subseteq minted

DeviceInit ==
    /\ grant = NoGrant /\ overdue = FALSE
    /\ poller = [p \in Pollers |-> [at |-> "idle", key |-> NoKey, after |-> FALSE]]
    /\ minter = [m \in Minters |-> [at |-> "idle", key |-> NoKey]]
    /\ minted = {} /\ active = {} /\ delivered = {} /\ twice = FALSE

\* One code is followed; codes do not repeat.
StartLogin ==
    /\ grant = NoGrant /\ ~overdue /\ minted = {}
    /\ grant' = [state |-> "pending", key |-> NoKey, dated |-> TRUE]
    /\ UNCHANGED <<overdue, poller, minter, minted, active, delivered, twice>>

TenMinutesPass ==
    /\ grant.state # "none" /\ overdue' = TRUE
    /\ UNCHANGED <<grant, poller, minter, minted, active, delivered, twice>>

\* Variant: a document without expires_at does not expire.
OutdatedLeniently == overdue /\ grant.dated

\* A document without expires_at has expired at the beginning of time.
Outdated == overdue \/ ~grant.dated

\* A poll of a document that is gone, or pending, changes nothing.
Poll(p) ==
    /\ poller[p].at = "idle" /\ grant # NoGrant
    /\ Outdated \/ grant.state = "approved"
    /\ poller' = [poller EXCEPT ![p] =
         [at |-> IF Outdated THEN "drop" ELSE "take", key |-> grant.key,
          after |-> delivered # {}]]
    /\ UNCHANGED <<grant, overdue, minter, minted, active, delivered, twice>>

\* The document is deleted, then the response is sent.
PollEnds(p) ==
    /\ poller[p].at # "idle"
    /\ grant' = NoGrant
    /\ poller' = [poller EXCEPT ![p] = [at |-> "idle", key |-> NoKey, after |-> FALSE]]
    /\ IF poller[p].at = "take" /\ poller[p].key # NoKey
       THEN /\ delivered' = delivered \cup {poller[p].key}
            /\ twice' = (twice \/ poller[p].after)
       ELSE UNCHANGED <<delivered, twice>>
    /\ UNCHANGED <<overdue, minter, minted, active>>

Goes(m, step, key) == minter' = [minter EXCEPT ![m] = [at |-> step, key |-> key]]

\* approve looks for a pending document that has not expired.
Match(m) ==
    /\ m \in Approvers /\ minter[m].at = "idle"
    /\ grant.state = "pending" /\ ~(overdue /\ grant.dated)
    /\ Goes(m, "matched", NoKey)
    /\ UNCHANGED <<grant, overdue, poller, minted, active, delivered, twice>>

Room == Cardinality(active) < MaxActive

\* count_active_api_keys, and the refusal at the cap.
CountKeys(m) ==
    /\ minter[m].at = IF m \in Approvers THEN "matched" ELSE "idle"
    /\ Goes(m, IF Room THEN "counted" ELSE "idle", NoKey)
    /\ UNCHANGED <<grant, overdue, poller, minted, active, delivered, twice>>

\* The dashboard shows its key in the response; an approval has a merge to do.
StoreKey(m) ==
    /\ minter[m].at = "counted"
    /\ \E k \in Keys \ minted :
         /\ minted' = minted \cup {k} /\ active' = active \cup {k}
         /\ IF m \in Approvers THEN Goes(m, "stored", k) ELSE Goes(m, "idle", NoKey)
    /\ UNCHANGED <<grant, overdue, poller, delivered, twice>>

\* A merge creates the document when it is gone, without its expiry and code.
MergeKey(m) ==
    /\ minter[m].at = "stored"
    /\ grant' = [state |-> "approved", key |-> minter[m].key, dated |-> grant.dated]
    /\ Goes(m, "idle", NoKey)
    /\ UNCHANGED <<overdue, poller, minted, active, delivered, twice>>

Revoke(k) ==
    /\ active' = active \ {k}
    /\ UNCHANGED <<grant, overdue, poller, minter, minted, delivered, twice>>

\* A write fails or the process ends.
MinterDies(m) ==
    /\ minter[m].at # "idle" /\ Goes(m, "idle", NoKey)
    /\ UNCHANGED <<grant, overdue, poller, minted, active, delivered, twice>>

DeviceNext ==
    \/ StartLogin \/ TenMinutesPass
    \/ \E p \in Pollers : Poll(p) \/ PollEnds(p)
    \/ \E m \in Minters : \/ Match(m) \/ CountKeys(m) \/ StoreKey(m) \/ MergeKey(m)
                           \/ MinterDies(m)
    \/ \E k \in active : Revoke(k)

DeviceSpec == DeviceInit /\ [][DeviceNext]_deviceVars
-----------------------------------------------------------------------------
\* Once a poll was handed the key, no poll that begins later is handed one,
\* although an approval in flight may bring the deleted document back
\* (poll_device_login, approve_device_login).
DeliveredOnce == ~twice
===============================================================================
