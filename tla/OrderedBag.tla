------------------------------ MODULE OrderedBag ------------------------------
(***************************************************************************)
(* What common/red_black_tree.h promises: Insert adds an item, also beside *)
(* others of the same key; Delete takes out one item of the key it is      *)
(* given, or leaves all if there is none.  A call takes effect at one      *)
(* moment before it returns.                                               *)
(***************************************************************************)
CONSTANTS Item, Key, KeyOf(_), None

VARIABLES items,
          op, arg   \* the call that has not taken effect yet, "none" and None

vars == <<items, op, arg>>

Init == items = {} /\ op = "none" /\ arg = None

Call(name, x) == op = "none" /\ op' = name /\ arg' = x /\ UNCHANGED items

Done(name, x) == op = name /\ arg = x /\ op' = "none" /\ arg' = None

Insert(i) == Done("insert", i) /\ i \notin items /\ items' = items \cup {i}

Delete(k) ==
    /\ Done("delete", k)
    /\ \E i \in items : KeyOf(i) = k /\ items' = items \ {i}

DeleteNothing(k) ==
    /\ Done("delete", k)
    /\ \A i \in items : KeyOf(i) # k
    /\ UNCHANGED items

Next ==
    \/ \E i \in Item : Call("insert", i) \/ Insert(i)
    \/ \E k \in Key : Call("delete", k) \/ Delete(k) \/ DeleteNothing(k)

Spec == Init /\ [][Next]_vars
==============================================================================
