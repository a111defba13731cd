----------------------------- MODULE MCAgentLoop -----------------------------
(* Small instances of AgentLoop for TLC. *)
EXTENDS AgentLoop, TLC
=============================================================================
