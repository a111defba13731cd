------------------------------- MODULE MCProject -------------------------------
(***************************************************************************)
(* Small instances, for TLC, of what is done with one project: its runs    *)
(* (ProjectRuns), the loop in a run that compiles and repairs (AutoFix),   *)
(* the directory its runs write through (WorkspaceSync), its database, its *)
(* chat, and what is remembered of interrupted work.  They share no state  *)
(* in these models, so that a behaviour takes the steps of one of them,    *)
(* chosen at its start.                                                    *)
(***************************************************************************)
EXTENDS ProjectRuns, AutoFix, WorkspaceSync, Databases, ProjectChat, ResumeState, TLC

VARIABLE part       \* whose behaviour this is

Of(p, next, its) == IF part = p THEN next ELSE UNCHANGED its

ProjectInit ==
    /\ part \in {"runs", "fix", "sync", "database", "chat", "resume"}
    /\ Init /\ FixInit /\ SyncInit /\ DatabasesInit /\ ProjectChatInit /\ ResumeInit
    /\ part # "runs" => session = "PROCESSING"
    /\ part # "fix" => framework = "next"
    /\ part # "database" => blueprint = <<>>
    /\ part # "chat" => ~working /\ coder = "forgefy" /\ chain = 1
    /\ part # "resume" => ~updating

ProjectNext ==
    /\ UNCHANGED part
    /\ Of("runs", Next, vars)
    /\ Of("fix", FixNext, fixVars)
    /\ Of("sync", SyncNext, syncVars)
    /\ Of("database", DatabasesNext, databaseVars)
    /\ Of("chat", ProjectChatNext, projectChatVars)
    /\ Of("resume", ResumeNext, resumeVars)

ProjectSpec ==
    ProjectInit
        /\ [][ProjectNext]_<<part, vars, fixVars, syncVars, databaseVars, projectChatVars,
                            resumeVars>>

\* Coroutines and worker processes are interchangeable.
Symmetry == Permutations(Requests) \cup Permutations(Workers)

\* Two spellings of one name.
TableNames == [user |-> "users", User |-> "users"]
EntityLists == {<<>>, <<"User", "user">>}
===============================================================================
