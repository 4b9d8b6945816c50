----------------------------- MODULE MCAgentLoop -----------------------------
(***************************************************************************)
(* The agent's loop alone for TLC, its keys given by the configuration.    *)
(***************************************************************************)
EXTENDS AgentLoop
==============================================================================
