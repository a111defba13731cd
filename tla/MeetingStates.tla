---------------------------- MODULE MeetingStates ----------------------------
(***************************************************************************)
(* The status graph of a meeting session: SessionStatus                    *)
(* (app/db/models/enums.py) and _TRANSITIONS (app/modules/voxa/            *)
(* state_machine.py), with the statuses in which VoxaService ends a        *)
(* meeting (app/modules/voxa/service.py).                                  *)
(***************************************************************************)

Status == {"WAITING", "JOINING", "LISTENING", "PROCESSING",
           "BLUEPRINT_READY", "APPROVED", "BUILDING", "FAILED"}

TransitionGraph ==
    {<<"WAITING", "JOINING">>, <<"WAITING", "LISTENING">>,
     <<"WAITING", "PROCESSING">>, <<"WAITING", "FAILED">>,
     <<"JOINING", "LISTENING">>, <<"JOINING", "PROCESSING">>,
     <<"JOINING", "FAILED">>,
     <<"LISTENING", "PROCESSING">>,
     <<"PROCESSING", "BLUEPRINT_READY">>, <<"PROCESSING", "FAILED">>,
     <<"BLUEPRINT_READY", "APPROVED">>,
     <<"APPROVED", "BUILDING">>,
     <<"FAILED", "PROCESSING">>}

CanMove(from, to) == <<from, to>> \in TransitionGraph

\* _ENDABLE: the statuses from which a meeting can be ended.
Endable == {"JOINING", "LISTENING"}

\* The statuses from which the application offers a blueprint to the user.
Backed == {"BLUEPRINT_READY", "APPROVED", "BUILDING"}
=============================================================================
