------------------------------ MODULE MCRebuild ------------------------------
(***************************************************************************)
(* Finite instances of Rebuild: the heads of MCService on hosts that are   *)
(* lost.                                                                   *)
(***************************************************************************)
EXTENDS MCService, Rebuild
==============================================================================
