------------------------------- MODULE Databases -------------------------------
(***************************************************************************)
(* The database of one project: a connect request has a provider make it,  *)
(* in steps that fail one by one, and names it on the project document; a  *)
(* wiring or a build then applies to it the tables that the blueprint's    *)
(* entities call for, and records on the document what came of it.  Two    *)
(* requests, a build and a new stub overlap at every await.  What a        *)
(* connection does to a first build that waits for it is in ProjectRuns.   *)
(***************************************************************************)
EXTENDS Naturals, Sequences, FiniteSetsExt

CONSTANTS
    Connectors,    \* connect requests in flight
    Migrators,     \* wirings and builds that provision the schema
    TableOf,       \* slugify: the table that an entity's name becomes
    Blueprints,    \* the entities of a blueprint, in order
    MaxDatabases   \* bound: databases made at the providers

ASSUME DatabasesAssumption ==
    /\ MaxDatabases \in Nat /\ <<>> \in Blueprints
    /\ Blueprints \subseteq Seq(DOMAIN TableOf) /\ "none" \notin DOMAIN TableOf

VARIABLES
    base,        \* the databases at their providers
    named,       \* the database that the document names for each provider; 0 is none
    blueprint,   \* blueprint_context.entities of the document
    status,      \* db_status and db_schema_tables
    connecting,  \* what each connect request is about to do
    migrating,   \* what each run of provision_schema_for_project is about to do
    about,       \* history: the database the status was obtained from
    moved,       \* history: what is named changed under a status or a migration
    silent       \* history: the status is of a migration whose exception had no text

databaseVars == <<base, named, blueprint, status, connecting,
                  migrating, about, moved, silent>>

Entities == DOMAIN TableOf
Tables == {TableOf[e] : e \in Entities}

\* What each provider is asked for: a project and its keys; a project and its
\* Data API; a GCP project, Firebase, a web app, its configuration, Firestore.
SupabaseSteps == 2
NeonSteps == 2
FirebaseSteps == 5
StepsOf == [supabase |-> SupabaseSteps, neon |-> NeonSteps, firebase |-> FirebaseSteps]
Providers == DOMAIN StepsOf

NoDatabase == [of |-> "none", steps |-> 0, tables |-> [t \in Tables |-> "none"], guarded |-> {}]
NoConnect == [at |-> "idle", of |-> "none", db |-> 0]
NoMigration == [at |-> "idle", db |-> 0, entities |-> <<>>, fails |-> "no"]

\* How a migration fails: with an exception whose text says something, or with
\* one that has none, as a connection that times out.
Fails == {"no", "told", "silent"}

DatabasesTyped ==
    /\ base \in [1 .. MaxDatabases -> [of : Providers \cup {"none"}, steps : 0 .. 5,
                     tables : [Tables -> Entities \cup {"none"}], guarded : SUBSET Tables]]
    /\ named \in [Providers -> 0 .. MaxDatabases] /\ about \in 0 .. MaxDatabases
    /\ moved \in BOOLEAN /\ silent \in BOOLEAN /\ blueprint \in Blueprints
    /\ status \in [state : {"none", "ready", "error"}, tables : SUBSET Tables]
    /\ connecting \in [Connectors -> [at : {"idle", "provision"},
                           of : Providers \cup {"none"}, db : 0 .. MaxDatabases]]
    /\ migrating \in [Migrators -> [at : {"idle", "apply", "record"}, db : 0 .. MaxDatabases,
                           entities : Blueprints, fails : Fails]]

DatabasesInit ==
    /\ base = [d \in 1 .. MaxDatabases |-> NoDatabase] /\ named = [p \in Providers |-> 0]
    /\ blueprint \in Blueprints /\ status = [state |-> "none", tables |-> {}]
    /\ connecting = [c \in Connectors |-> NoConnect]
    /\ migrating = [m \in Migrators |-> NoMigration] /\ about = 0 /\ moved = FALSE /\ silent = FALSE

\* The database whose schema is provisioned: Firebase has none.
Postgres(names) == IF names["supabase"] # 0 THEN names["supabase"] ELSE names["neon"]

EndsConnect(c) == connecting' = [connecting EXCEPT ![c] = NoConnect]

\* connect_supabase, connect_neon, connect_firebase: the project is read, and
\* an access token is had or the request refused.
BeginsConnect(c) ==
    /\ connecting[c].at = "idle"
    /\ \E p \in Providers : connecting' = [connecting EXCEPT ![c] =
           [at |-> "provision", of |-> p, db |-> 0]]
    /\ UNCHANGED <<base, named, blueprint, status, migrating, about, moved, silent>>

\* One call of the provider's interface: it makes something; the request goes
\* on, or fails although it may have made it.
Provisions(c) ==
    LET p == connecting[c].of
        d == IF connecting[c].db # 0 THEN connecting[c].db
             ELSE CHOOSE n \in 1 .. MaxDatabases + 1 :
                      /\ n <= MaxDatabases => base[n].of = "none"
                      /\ \A k \in 1 .. n - 1 : base[k].of # "none"
        made == [base EXCEPT ![d].of = p, ![d].steps = @ + 1]
    IN /\ connecting[c].at = "provision" /\ d <= MaxDatabases /\ base[d].steps < StepsOf[p]
       /\ \/ base' = made /\ connecting' = [connecting EXCEPT ![c].db = d]
          \/ base' \in {base, made} /\ EndsConnect(c)
       /\ UNCHANGED <<named, blueprint, status, migrating, about, moved, silent>>

\* The document names what the provider has finished.
Whole(p, d) == d # 0 /\ base[d].steps = StepsOf[p]

Names(c) ==
    LET p == connecting[c].of  d == connecting[c].db  names == [named EXCEPT ![p] = d]
    IN /\ connecting[c].at = "provision" /\ Whole(p, d)
       /\ named' = names
       /\ EndsConnect(c)
       /\ moved' = (moved \/ /\ Postgres(names) # Postgres(named)
                             /\ \/ status.state # "none"
                                \/ \E m \in Migrators : migrating[m].at # "idle")
       /\ UNCHANGED <<base, blueprint, status, migrating, about, silent>>

\* The stub of a build replaces the whole document (see ProjectRuns): it has
\* the blueprint that is built, and names no database.
Stubs ==
    /\ blueprint' \in Blueprints
    /\ named' = [p \in Providers |-> 0] /\ status' = [state |-> "none", tables |-> {}]
    /\ moved' = (moved \/ \E m \in Migrators : migrating[m].at # "idle")
    /\ UNCHANGED <<base, connecting, migrating, about, silent>>

\* provision_schema_for_project reads the document, or is given what the build
\* has read, and has nothing to do without entities or without Postgres.
ReadsProject(m) ==
    /\ migrating[m].at = "idle"
    /\ migrating' = IF blueprint = <<>> \/ Postgres(named) = 0 THEN migrating
                    ELSE [migrating EXCEPT ![m] = [at |-> "apply", db |-> Postgres(named),
                                                   entities |-> blueprint, fails |-> "no"]]
    /\ UNCHANGED <<base, named, blueprint, status, connecting, about, moved, silent>>

\* wire_database wants a database of any provider.
Wires(m) == (\E p \in Providers : named[p] # 0) /\ ReadsProject(m)

\* A build provisions what its project has by now, if anything.
Rebuilds(m) == ReadsProject(m)

\* tables_from_entities: the first entity of a name makes the table.
TablesOf(entities) == {TableOf[entities[i]] : i \in DOMAIN entities}
MakerOf(entities, t) == entities[Min({i \in DOMAIN entities : TableOf[entities[i]] = t})]

\* CREATE TABLE IF NOT EXISTS: a table that exists keeps its columns.
Created(tables, entities) ==
    [t \in Tables |-> IF tables[t] = "none" /\ t \in TablesOf(entities)
                      THEN MakerOf(entities, t) ELSE tables[t]]

\* render_migration: Supabase's tables get their owner policy.
Migrated(d, entities) ==
    [base EXCEPT ![d].tables = Created(@, entities),
                 ![d].guarded = IF base[d].of = "supabase" THEN @ \cup TablesOf(entities) ELSE @]

\* run_migrations, in one transaction: it commits, or does not, or commits and
\* the connection fails before it says so.
Migrates(m) ==
    LET done == Migrated(migrating[m].db, migrating[m].entities)
    IN /\ migrating[m].at = "apply"
       /\ \E fails \in Fails :
            /\ base' \in IF fails = "no" THEN {done} ELSE {base, done}
            /\ migrating' = [migrating EXCEPT ![m].at = "record", ![m].fails = fails]
       /\ UNCHANGED <<named, blueprint, status, connecting, about, moved, silent>>

\* Variant: the status goes by the tables that were asked for.
StatusByTables(fails) == "ready"

\* MigrationResult.status: an error that has no text is none.
StatusOf(fails) == IF fails = "told" THEN "error" ELSE "ready"

\* The write of the status may fail, which is logged.
RecordsStatus(m) ==
    /\ migrating[m].at = "record"
    /\ \/ /\ status' = [state |-> StatusOf(migrating[m].fails),
                        tables |-> TablesOf(migrating[m].entities)]
          /\ about' = migrating[m].db /\ silent' = (migrating[m].fails = "silent")
       \/ UNCHANGED <<status, about, silent>>
    /\ migrating' = [migrating EXCEPT ![m] = NoMigration]
    /\ UNCHANGED <<base, named, blueprint, connecting, moved>>

\* A request or a worker is lost.
ConnectIsLost(c) ==
    /\ connecting[c].at # "idle" /\ EndsConnect(c)
    /\ UNCHANGED <<base, named, blueprint, status, migrating, about, moved, silent>>

MigrationIsLost(m) ==
    /\ migrating[m].at # "idle" /\ migrating' = [migrating EXCEPT ![m] = NoMigration]
    /\ UNCHANGED <<base, named, blueprint, status, connecting, about, moved, silent>>

DatabasesNext ==
    \/ \E c \in Connectors : \/ BeginsConnect(c) \/ Provisions(c) \/ Names(c)
                             \/ ConnectIsLost(c)
    \/ \E m \in Migrators : \/ Wires(m) \/ Rebuilds(m) \/ Migrates(m)
                            \/ RecordsStatus(m) \/ MigrationIsLost(m)
    \/ Stubs

DatabasesSpec == DatabasesInit /\ [][DatabasesNext]_databaseVars
-----------------------------------------------------------------------------
\* What the document says of the project's database is so: a database it names
\* has been provisioned to the end, and tables it calls ready are there, with
\* their owner policy on Supabase, in the database that it names unless the
\* naming changed in between - whichever calls failed, were lost, or overlapped,
\* save that the exception of the migration has no text
\* (connect_*, provision_schema_for_project).
ConnectedIsReal ==
    /\ \A p \in Providers : named[p] # 0 => base[named[p]].steps = StepsOf[p]
    /\ status.state = "ready" /\ ~silent =>
         /\ \A t \in status.tables : /\ base[about].tables[t] # "none"
                                     /\ base[about].of = "supabase" => t \in base[about].guarded
         /\ moved \/ about = Postgres(named)
===============================================================================
