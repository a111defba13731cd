------------------------------- MODULE Catalogue -------------------------------
(***************************************************************************)
(* The build models offered to users, an array on system/config that each  *)
(* administrator's request reads, changes and writes back whole, and the   *)
(* platform's active model beside it.  A read that fails, and an array     *)
(* that is empty, count as the shipped defaults.                           *)
(***************************************************************************)
EXTENDS Naturals, FiniteSets

CONSTANTS
    Admins,     \* administrators' requests in flight
    Models,     \* identifiers of build models
    Defaults    \* DEFAULT_BUILD_MODELS

ASSUME CatalogueAssumption ==
    Defaults \subseteq Models /\ Defaults # {} /\ "unset" \notin Models

VARIABLES
    curated,     \* system/config.build_models; {} is unset or empty
    platform,    \* system/config.build_model
    admin,       \* what each request does and has read
    sequential,  \* history: the array as the requests in the order of their writes leave it
    overlooked   \* history: a request wrote over what it had not read
                 \* (another's write, or an array whose read failed)

catalogueVars == <<curated, platform, admin, sequential, overlooked>>

Offered(set) == IF set = {} THEN Defaults ELSE set

Nothing == [at |-> "idle", model |-> "unset", seen |-> {}]
CatalogueTyped ==
    /\ curated \subseteq Models /\ sequential \subseteq Models
    /\ platform \in Models \cup {"unset"} /\ overlooked \in BOOLEAN
    /\ admin \in [Admins -> [at : {"idle", "choose", "add", "listed", "remove"},
                             model : Models \cup {"unset"},
                             seen : SUBSET Models]]

CatalogueInit ==
    /\ curated = {} /\ sequential = {} /\ platform = "unset" /\ overlooked = FALSE
    /\ admin = [a \in Admins |-> Nothing]

Done(a) == admin' = [admin EXCEPT ![a] = Nothing]

\* get_available_build_models: a read that fails is answered by the defaults.
Readings == {Offered(curated), Defaults}

Reads(a, step, m, seen) ==
    /\ admin' = [admin EXCEPT ![a] = [at |-> step, model |-> m, seen |-> seen]]
    /\ UNCHANGED <<curated, platform, sequential, overlooked>>

\* set_build_model_setting: a model that is offered becomes the platform's.
Choose(a, m) ==
    /\ admin[a].at = "idle"
    /\ \E seen \in Readings : m \in seen /\ Reads(a, "choose", m, seen)

Chosen(a) ==
    /\ admin[a].at = "choose" /\ Done(a)
    /\ platform' = admin[a].model
    /\ overlooked' = (overlooked \/ Offered(curated) # admin[a].seen)
    /\ UNCHANGED <<curated, sequential>>

Add(a, m) ==
    /\ admin[a].at = "idle"
    /\ \E seen \in Readings : m \notin seen /\ Reads(a, "add", m, seen)

\* Variant: the array is written without what only the defaults offer.
AddedAlone(a) ==
    /\ admin[a].at = "add" /\ Done(a)
    /\ curated' = curated \cup {admin[a].model}
    /\ sequential' = Offered(sequential) \cup {admin[a].model}
    /\ overlooked' = (overlooked \/ Offered(curated) # admin[a].seen)
    /\ UNCHANGED platform

Added(a) ==
    /\ admin[a].at = "add" /\ Done(a)
    /\ curated' = admin[a].seen \cup {admin[a].model}
    /\ sequential' = Offered(sequential) \cup {admin[a].model}
    /\ overlooked' = (overlooked \/ Offered(curated) # admin[a].seen)
    /\ UNCHANGED platform

\* remove_build_model: not the active one; that is read first, the array next.
TakeOff(a, m) ==
    /\ admin[a].at = "idle" /\ platform # m
    /\ Reads(a, "listed", m, {})

ModelLists(a) ==
    /\ admin[a].at = "listed"
    /\ \E seen \in Readings :
         IF admin[a].model \in seen THEN Reads(a, "remove", admin[a].model, seen)
         ELSE Done(a) /\ UNCHANGED <<curated, platform, sequential, overlooked>>

Removed(a) ==
    /\ admin[a].at = "remove" /\ Done(a)
    /\ curated' = admin[a].seen \ {admin[a].model}
    /\ sequential' = Offered(sequential) \ {admin[a].model}
    /\ overlooked' =
         (overlooked \/ Offered(curated) # admin[a].seen \/ platform = admin[a].model)
    /\ UNCHANGED platform

CatalogueNext ==
    \E a \in Admins :
      \/ Chosen(a) \/ Added(a) \/ ModelLists(a) \/ Removed(a)
      \/ \E m \in Models : Choose(a, m) \/ Add(a, m) \/ TakeOff(a, m)

CatalogueSpec == CatalogueInit /\ [][CatalogueNext]_catalogueVars
-----------------------------------------------------------------------------
\* Unless a request wrote over what it had not read, the array is what adding
\* and removing one after another make of it, through the defaults it starts
\* from and returns to, and the platform's model is one that users are offered
\* (add_build_model, remove_build_model, set_build_model_setting).
CatalogueKept ==
    overlooked \/ /\ curated = sequential
                  /\ platform = "unset" \/ platform \in Offered(curated)
===============================================================================
