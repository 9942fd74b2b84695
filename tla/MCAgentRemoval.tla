---------------------------- MODULE MCAgentRemoval ----------------------------
(***************************************************************************)
(* AgentRemoval with one command of others, beside the hooks of one event. *)
(***************************************************************************)
EXTENDS AgentRemoval
==============================================================================
