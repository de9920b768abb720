------------------------------- MODULE MCStack --------------------------------
(***************************************************************************)
(* Three threads that push and pop, and the owner.  The users are alike,   *)
(* and so are the addresses.                                               *)
(***************************************************************************)
EXTENDS LockFreeStack, TLC

Symmetry == Permutations(Users) \cup Permutations(Address)
==============================================================================
