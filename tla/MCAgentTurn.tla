---------------------------- MODULE MCAgentTurn ----------------------------
(* AgentTurn for TLC; each .cfg gives the constants of one instance. *)
EXTENDS AgentTurn
=============================================================================
