---------------------------- MODULE MCMcpSession ----------------------------
(***************************************************************************)
(* The MCP session for TLC.                                                *)
(***************************************************************************)
EXTENDS McpSession
=============================================================================
