-------------------------------- MODULE MCSort --------------------------------
(***************************************************************************)
(* Five elements, of which two are equal, on three cores; four elements    *)
(* with as few cores as can be, and with a number that is not known, which *)
(* makes the maximum greater than any number of threads.                   *)
(***************************************************************************)
EXTENDS ParallelSort

MCElem == 1 .. 5
MCValue(x) == IF x = 5 THEN 2 ELSE x
MCGiven == {[list |-> 1 .. 5, cores |-> 3]} \cup [list : {{1}, {2, 5}, {2, 3, 4, 5}}, cores : 0 .. 2]
MCLess(x, y) == MCValue(x) < MCValue(y)
==============================================================================
