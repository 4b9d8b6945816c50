---------------------------- MODULE MCToolsCache ----------------------------
(***************************************************************************)
(* Instances of ToolsCache for TLC.                                        *)
(***************************************************************************)
EXTENDS ToolsCache, TLC

\* Requests are interchangeable: only safety runs use the symmetry.
Symmetric == Permutations(Requests)
=============================================================================
