-------------------------------- MODULE MCTree --------------------------------
(***************************************************************************)
(* Ten items; the last has the key of the fifth.                           *)
(***************************************************************************)
EXTENDS RedBlackTree

MCItem == 1 .. 10
MCKeyOf(i) == IF i = 10 THEN 5 ELSE i
==============================================================================
