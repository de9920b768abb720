------------------------------ MODULE LifoStack -------------------------------
(***************************************************************************)
(* What common/safe_stack.h promises: a pop takes what was pushed last, or *)
(* finds the stack empty, at one moment between its call and its return.   *)
(***************************************************************************)
EXTENDS Sequences

CONSTANTS Thread, Value, None, Empty

VARIABLES
    items,  \* what the stack holds, the top first
    got     \* what each thread's pop has taken: a value, Empty, or None yet

Init == items = << >> /\ got = [t \in Thread |-> None]

Push(v) == items' = <<v>> \o items /\ UNCHANGED got

Pop(t) ==
    /\ got[t] = None
    /\ \/ /\ items # << >>
          /\ got' = [got EXCEPT ![t] = Head(items)]
          /\ items' = Tail(items)
       \/ /\ items = << >>
          /\ got' = [got EXCEPT ![t] = Empty]
          /\ UNCHANGED items

Return(t) ==
    /\ got[t] # None
    /\ got' = [got EXCEPT ![t] = None]
    /\ UNCHANGED items

Next ==
    \/ \E v \in Value : Push(v)
    \/ \E t \in Thread : Pop(t) \/ Return(t)

Spec == Init /\ [][Next]_<<items, got>>
==============================================================================
