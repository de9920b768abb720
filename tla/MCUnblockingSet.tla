--------------------------- MODULE MCUnblockingSet ---------------------------
(***************************************************************************)
(* Two threads that add and two that remove.                               *)
(***************************************************************************)
EXTENDS UnblockingSafeSet
==============================================================================
