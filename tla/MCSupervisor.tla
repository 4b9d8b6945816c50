---------------------------- MODULE MCSupervisor ----------------------------
(***************************************************************************)
(* The entrypoint for TLC: its children are given, nothing is symmetric.   *)
(***************************************************************************)
EXTENDS Supervisor
=============================================================================
