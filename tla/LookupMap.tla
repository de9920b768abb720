------------------------------ MODULE LookupMap ------------------------------
(***************************************************************************)
(* What common/safe_lookup_table.h promises to the threads that share a    *)
(* table: it is one map, and each call reads or changes it at one moment   *)
(* between its call and its return, get_map too, which reads all of it.    *)
(***************************************************************************)
EXTENDS Naturals

CONSTANTS Thread, Key, Value, None

VARIABLES
    map,        \* the value of each key, None if it is not there
    call,       \* what each thread is doing: [op, key, value], or None
    answer      \* what its call has been decided to return, or None

vars == <<map, call, answer>>

Init ==
    /\ map = [k \in Key |-> None]
    /\ call = [t \in Thread |-> None]
    /\ answer = [t \in Thread |-> None]

Call(t, op, k, v) ==
    /\ call[t] = None
    /\ call' = [call EXCEPT ![t] = [op |-> op, key |-> k, value |-> v]]
    /\ UNCHANGED <<map, answer>>

\* An answer is a set: of nothing (add, remove), of one value or None
\* (value_for), or of all the pairs (get_map).
Effect(t) ==
    LET c == call[t] IN
    /\ c # None /\ answer[t] = None
    /\ map' = IF c.op \in {"add", "remove"} THEN [map EXCEPT ![c.key] = c.value] ELSE map
    /\ answer' = [answer EXCEPT ![t] =
                     CASE c.op = "value_for" -> {map[c.key]}
                       [] c.op = "get_map" -> {<<k, map[k]>> : k \in {j \in Key : map[j] # None}}
                       [] OTHER -> {}]
    /\ UNCHANGED call

Return(t) ==
    /\ answer[t] # None
    /\ call' = [call EXCEPT ![t] = None]
    /\ answer' = [answer EXCEPT ![t] = None]
    /\ UNCHANGED map

Next == \E t \in Thread :
    \/ \E op \in {"value_for", "add", "remove", "get_map"}, k \in Key, v \in Value \cup {None} :
          Call(t, op, k, v)
    \/ Effect(t)
    \/ Return(t)

Spec == Init /\ [][Next]_vars
==============================================================================
