-------------------------------- MODULE Erasure --------------------------------
(***************************************************************************)
(* Deletion of an account and of everything kept for it.  There is no      *)
(* transaction: the documents go one by one, in an order, each list is     *)
(* read when its turn comes, and any call may fail and end the request.    *)
(* Other requests of the user, who stays in their process's cache for a    *)
(* while, and workers write and delete before and meanwhile.               *)
(***************************************************************************)
EXTENDS FiniteSets

CONSTANTS
    Sessions,   \* sessions the user may have
    Projects    \* projects the user may have

ASSUME ErasureAssumption == Sessions \cap Projects = {}

\* Documents: the parts of every session and project, the user's own, and those
\* the deletion does not come to: what the assistant remembers of the user, the
\* API keys, and what is deleted one by one in other ways (conversations with the
\* assistant, extract jobs, device logins: one document stands for them).
SessionParts == {"event", "blueprint", "session"}
ProjectParts == {"chat", "project"}
Account == <<"user", "user">>
Usage == <<"usage", "user">>
Lasting == {"memory", "key"} \X {"user"}
Loose == <<"loose", "user">>
Apart == Lasting \cup {Loose}
Documents == (SessionParts \X Sessions) \cup (ProjectParts \X Projects)
             \cup {Usage, Account} \cup Apart

VARIABLES
    data,       \* documents that exist
    busy,       \* projects with is_updating set
    phase,      \* what the deletion is about to do
    owner,      \* the session or project it is at
    sessionsLeft, projectsLeft,   \* what it listed and has not come to
    deleting,   \* sessions and projects the user is deleting alone
    astray      \* history: documents written since it began or without their
                \* parent, left by the deletion of their parent alone, and
                \* chats whose deletion failed

erasureVars == <<data, busy, phase, owner, sessionsLeft, projectsLeft, deleting, astray>>

Stages == {"idle", "sessions", "event", "blueprint", "session", "projects", "chat",
           "project", "usage", "account"}

ErasureTyped ==
    /\ data \subseteq Documents /\ astray \subseteq data
    /\ busy \subseteq Projects /\ phase \in Stages
    /\ owner \in Sessions \cup Projects \cup {"user"}
    /\ sessionsLeft \subseteq Sessions /\ projectsLeft \subseteq Projects
    /\ deleting \subseteq Sessions \cup Projects

ErasureInit ==
    /\ data = Documents /\ busy = {} /\ phase = "idle" /\ owner = "user"
    /\ sessionsLeft = {} /\ projectsLeft = {} /\ deleting = {} /\ astray = {}

Children(x) == {<<part, x>> : part \in {"event", "blueprint", "chat"}}

Parent(d) == IF d[1] \in {"event", "blueprint"} THEN <<"session", d[2]>>
             ELSE IF d[1] = "chat" THEN <<"project", d[2]>> ELSE Account
Listed(part) == {d[2] : d \in {e \in data : e[1] = part}}

\* The projects are listed, and none may be at work; then the sessions are.
BeginErasure ==
    /\ phase = "idle" /\ Account \in data
    /\ Listed("project") \cap busy = {}
    /\ projectsLeft' = Listed("project") /\ sessionsLeft' = Listed("session")
    /\ phase' = "sessions" /\ owner' = "user"
    /\ astray' = {d \in astray : Parent(d) \notin data}
    /\ UNCHANGED <<deleting, data, busy>>

EnterSession(s) ==
    /\ phase = "sessions" /\ s \in sessionsLeft
    /\ phase' = "event" /\ owner' = s /\ sessionsLeft' = sessionsLeft \ {s}
    /\ UNCHANGED <<deleting, data, busy, projectsLeft, astray>>

EnterProject(p) ==
    /\ phase = "projects" /\ p \in projectsLeft
    /\ phase' = "chat" /\ owner' = p /\ projectsLeft' = projectsLeft \ {p}
    /\ UNCHANGED <<deleting, data, busy, sessionsLeft, astray>>

ListDone ==
    /\ \/ phase = "sessions" /\ sessionsLeft = {} /\ phase' = "projects"
       \/ phase = "projects" /\ projectsLeft = {} /\ phase' = "usage"
    /\ UNCHANGED <<deleting, data, busy, owner, sessionsLeft, projectsLeft, astray>>

\* The order of the deletions, and where each list goes on.
Following == [event |-> "blueprint", blueprint |-> "session", session |-> "sessions",
              chat |-> "project", project |-> "projects", usage |-> "account",
              account |-> "idle"]

\* Variant: the account goes before its usage.
TargetAccountFirst ==
    IF phase = "usage" THEN Account ELSE IF phase = "account" THEN Usage ELSE <<phase, owner>>

Target == IF phase = "usage" THEN Usage ELSE IF phase = "account" THEN Account
          ELSE <<phase, owner>>

Erase ==
    /\ phase \in DOMAIN Following
    /\ data' = data \ {Target} /\ astray' = astray \ {Target}
    /\ phase' = Following[phase]
    /\ UNCHANGED <<deleting, busy, owner, sessionsLeft, projectsLeft>>

\* What fails for a chat is suppressed.
ChatStays ==
    /\ phase = "chat" /\ phase' = "project"
    /\ astray' = astray \cup ({Target} \cap data)
    /\ UNCHANGED <<deleting, data, busy, owner, sessionsLeft, projectsLeft>>

\* Any other call that fails, or the end of the process, ends the deletion.
EraseFails ==
    /\ phase # "idle" /\ phase' = "idle"
    /\ UNCHANGED <<deleting, data, busy, owner, sessionsLeft, projectsLeft, astray>>

\* What other requests and the workers write; the user document too is written
\* by a merge that creates it (set_my_build_model).
WriteDocument(d) ==
    /\ d \notin data
    /\ data' = data \cup {d}
    /\ astray' = IF d \notin Apart /\ (phase # "idle" \/ ~({Parent(d), Account} \subseteq data))
                 THEN astray \cup {d} ELSE astray
    /\ UNCHANGED <<deleting, busy, phase, owner, sessionsLeft, projectsLeft>>

\* delete_session: the events go, then the session; its blueprints stay, and so
\* do the events a worker writes between.
DropsEvents(s) ==
    /\ <<"session", s>> \in data /\ s \notin deleting
    /\ data' = data \ {<<"event", s>>} /\ astray' = astray \ {<<"event", s>>}
    /\ deleting' = deleting \cup {s}
    /\ UNCHANGED <<busy, phase, owner, sessionsLeft, projectsLeft>>

DropsSession(s) ==
    /\ s \in deleting
    /\ data' = data \ {<<"session", s>>}
    /\ astray' = (astray \cup (Children(s) \cap data)) \ {<<"session", s>>}
    /\ deleting' = deleting \ {s}
    /\ UNCHANGED <<busy, phase, owner, sessionsLeft, projectsLeft>>

\* delete_project: the project goes, if it is not at work, then its chat.
DropsProject(p) ==
    /\ <<"project", p>> \in data /\ p \notin deleting \cup busy
    /\ data' = data \ {<<"project", p>>}
    /\ astray' = (astray \cup (Children(p) \cap data)) \ {<<"project", p>>}
    /\ deleting' = deleting \cup {p}
    /\ UNCHANGED <<busy, phase, owner, sessionsLeft, projectsLeft>>

DropsMessages(p) ==
    /\ p \in deleting
    /\ data' = data \ {<<"chat", p>>} /\ astray' = astray \ {<<"chat", p>>}
    /\ deleting' = deleting \ {p}
    /\ UNCHANGED <<busy, phase, owner, sessionsLeft, projectsLeft>>

\* The call that is due fails, or the process ends.
DropFails(x) ==
    /\ x \in deleting /\ deleting' = deleting \ {x}
    /\ UNCHANGED <<data, busy, phase, owner, sessionsLeft, projectsLeft, astray>>

\* The user deletes a conversation, a login is polled for the last time, and old
\* jobs are cleaned up.  What the assistant remembers is never deleted, nor is
\* a key: it is revoked.
Discards ==
    /\ Loose \in data /\ data' = data \ {Loose}
    /\ UNCHANGED <<deleting, busy, phase, owner, sessionsLeft, projectsLeft, astray>>

Work(p) ==
    /\ busy' \in {busy \cup {p}, busy \ {p}}
    /\ UNCHANGED <<deleting, data, phase, owner, sessionsLeft, projectsLeft, astray>>

ErasureNext ==
    \/ BeginErasure \/ ListDone \/ Erase \/ ChatStays \/ EraseFails \/ Discards
    \/ \E s \in Sessions : EnterSession(s) \/ DropsEvents(s) \/ DropsSession(s)
    \/ \E p \in Projects : EnterProject(p) \/ DropsProject(p) \/ DropsMessages(p) \/ Work(p)
    \/ \E x \in Sessions \cup Projects : DropFails(x)
    \/ \E d \in Documents : WriteDocument(d)

ErasureSpec == ErasureInit /\ [][ErasureNext]_erasureVars
-----------------------------------------------------------------------------
\* A deletion that fails at any point can be asked for again, and what it comes
\* to it deletes for good: once the user document is gone, so is every session,
\* project, chat, blueprint and usage record but what was written meanwhile,
\* children whose parent the user had deleted alone (delete_session leaves
\* blueprints) and chats whose deletion failed.  What it does not come to is
\* left: the assistant's memory of the user and the API keys are there still,
\* though delete_my_account says that it deletes "the current user's account and
\* all associated data" (app/api/v1/account.py:184).
ErasedForGood ==
    Account \notin data => data \ Apart \subseteq astray /\ Lasting \subseteq data
===============================================================================
