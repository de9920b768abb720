------------------------------ MODULE FifoQueue ------------------------------
(***************************************************************************)
(* What common/safe_queue.h promises: values come out in the order they    *)
(* went in, each once, and only from a queue that holds one.               *)
(***************************************************************************)
EXTENDS Sequences

CONSTANT Value

VARIABLES
    items,     \* what the queue holds, oldest first
    taken      \* every value taken so far, in the order of the pops

Init == items = << >> /\ taken = << >>

Put(v) == items' = Append(items, v) /\ UNCHANGED taken

Take ==
    /\ items # << >>
    /\ items' = Tail(items)
    /\ taken' = Append(taken, Head(items))

Next == (\E v \in Value : Put(v)) \/ Take

Spec == Init /\ [][Next]_<<items, taken>>
==============================================================================
