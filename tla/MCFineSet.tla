----------------------------- MODULE MCFineSet -------------------------------
(***************************************************************************)
(* Two threads that add and two that remove, one call each; an address    *)
(* that was deleted is used again.                                         *)
(***************************************************************************)
EXTENDS FineSafeSet
==============================================================================
