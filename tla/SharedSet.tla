------------------------------ MODULE SharedSet ------------------------------
(***************************************************************************)
(* What common/safe_set.h promises to threads that share a set: every call *)
(* of add or remove takes effect at one moment between its call and its    *)
(* return.  A call that answers TRUE changes the set then; one that        *)
(* answers FALSE found the key there (add) or missing (remove).            *)
(***************************************************************************)
EXTENDS Naturals

CONSTANTS Thread, Key, None

VARIABLES
    members,    \* the set
    call,       \* what each thread is doing: [op, key], or None
    answer,     \* what its call has been decided to return, or None
    seen        \* whether its key has been in the set, ever since it called

vars == <<members, call, answer, seen>>

Init ==
    /\ members = {}
    /\ call = [t \in Thread |-> None]
    /\ answer = [t \in Thread |-> None]
    /\ seen = [t \in Thread |-> {}]

Observe ==
    seen' = [t \in Thread |->
                IF call'[t] = None THEN {}
                ELSE LET there == call'[t].key \in members'
                     IN  IF call[t] = None THEN {there}
                                           ELSE seen[t] \cup {there}]

Call(t, op, k) ==
    /\ call[t] = None
    /\ call' = [call EXCEPT ![t] = [op |-> op, key |-> k]]
    /\ UNCHANGED <<members, answer>>

Undecided(t) == call[t] # None /\ answer[t] = None

Succeed(t) ==
    /\ Undecided(t)
    /\ \/ /\ call[t].op = "add" /\ call[t].key \notin members
          /\ members' = members \cup {call[t].key}
       \/ /\ call[t].op = "remove" /\ call[t].key \in members
          /\ members' = members \ {call[t].key}
    /\ answer' = [answer EXCEPT ![t] = TRUE]
    /\ UNCHANGED call

Fail(t) ==
    /\ Undecided(t)
    /\ (call[t].op = "add") \in seen[t]
    /\ answer' = [answer EXCEPT ![t] = FALSE]
    /\ UNCHANGED <<members, call>>

Return(t) ==
    /\ answer[t] # None
    /\ call' = [call EXCEPT ![t] = None]
    /\ answer' = [answer EXCEPT ![t] = None]
    /\ UNCHANGED members

Next ==
    /\ \E t \in Thread :
          \/ \E op \in {"add", "remove"}, k \in Key : Call(t, op, k)
          \/ Succeed(t) \/ Fail(t) \/ Return(t)
    /\ Observe

Spec == Init /\ [][Next]_vars
==============================================================================
