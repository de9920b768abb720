----------------------------- MODULE FineSafeSet -----------------------------
(***************************************************************************)
(* FineSafeSet of common/safe_set.h, a sorted list with a mutex in every   *)
(* node: a call goes down the list hand over hand, so that it holds the    *)
(* mutexes of two neighbours when it links or unlinks a node.  The threads *)
(* are those of test_safe/main.cpp, some calling add, others remove.       *)
(*                                                                         *)
(* A node is an address.  remove deletes the node, and a later add may get *)
(* the same address from new.                                              *)
(***************************************************************************)
EXTENDS Integers, Reachability

CONSTANTS
    Adders, Removers,   \* the threads of test_safe/main.cpp:58-63
    Times,              \* how many calls each of them makes
    Keys,               \* the numbers they add and remove
    MinKey, MaxKey,     \* INT32_MIN and INT32_MAX, the keys of the sentinels
    Address,            \* bound: the addresses new gives
    Head, Tail,         \* the sentinels
    Free,               \* a mutex nobody holds
    None                \* no answer yet, no call, or a null pointer

Threads == Adders \cup Removers
Nodes == Address \cup {Head, Tail}

ASSUME ThreadAssumption ==
    /\ Adders \cap Removers = {}
    /\ Times \in Nat \ {0}
    /\ MinKey \in Int /\ MaxKey \in Int /\ MinKey < MaxKey
    /\ Keys \subseteq MinKey + 1 .. MaxKey - 1
    /\ Head # Tail /\ Head \notin Address /\ Tail \notin Address
    /\ Free \notin Threads
    /\ None \notin Nodes /\ None \notin BOOLEAN /\ None \notin Keys
    /\ None \notin [op : {"add", "remove"}, key : Keys]

VARIABLES
    key, next, mu,      \* the fields of the nodes; mu[n] is who holds the mutex
    live,               \* the nodes that have not been deleted
    pc, pre, cur,       \* where each thread is, and its two pointers
    arg, answer,        \* the key of its call, and what the call will return
    left,               \* how many calls it still has to make
    seen                \* history: whether its key was in the set since the call

program == <<key, next, mu, live, pc, pre, cur, arg, answer, left>>

vars == <<program, seen>>

Init ==
    /\ key = [n \in Nodes |-> IF n = Tail THEN MaxKey ELSE MinKey]
    /\ next = [n \in Nodes |-> IF n = Head THEN Tail ELSE None]
    /\ mu = [n \in Nodes |-> Free]
    /\ live = {Head, Tail}
    /\ pc = [t \in Threads |-> "call"]
    /\ pre = [t \in Threads |-> Head]
    /\ cur = [t \in Threads |-> Head]
    /\ arg = [t \in Threads |-> None]
    /\ answer = [t \in Threads |-> None]
    /\ left = [t \in Threads |-> Times]
    /\ seen = [t \in Threads |-> {}]

Goto(t, from, to) == pc[t] = from /\ pc' = [pc EXCEPT ![t] = to]

\* The nodes a walk from the head meets.
OnList == Reached(Head, next, None)

Members == {key[n] : n \in OnList \ {Head, Tail}}

Observe ==
    LET now == Members'
        calling == {t \in Threads : pc'[t] \notin {"call", "done"}}
    IN  seen' = [t \in Threads |->
                    IF t \notin calling THEN {}
                    ELSE {arg'[t] \in now} \cup (IF pc[t] = "call" THEN {} ELSE seen[t])]
------------------------------------------------------------------------------
(* The walk down the list, the same in add and in remove.                   *)

\* process_add and process_remove draw a key and make the next call.
Call(t) ==
    /\ Goto(t, "call", "lockHead")
    /\ \E k \in Keys : arg' = [arg EXCEPT ![t] = k]
    /\ UNCHANGED <<key, next, mu, live, pre, cur, answer, left>>

\* A node's fields are written under its mutex, so they are read with the step
\* that takes it.
LockHead(t) ==
    /\ Goto(t, "lockHead", "lockCur")
    /\ mu[Head] = Free
    /\ mu' = [mu EXCEPT ![Head] = t]
    /\ pre' = [pre EXCEPT ![t] = Head]
    /\ cur' = [cur EXCEPT ![t] = next[Head]]
    /\ UNCHANGED <<key, next, live, arg, answer, left>>

LockCur(t) ==
    /\ Goto(t, "lockCur", IF key[cur[t]] < arg[t] THEN "advance" ELSE "act")
    /\ mu[cur[t]] = Free
    /\ mu' = [mu EXCEPT ![cur[t]] = t]
    /\ UNCHANGED <<key, next, live, pre, cur, arg, answer, left>>

\* Mutant: both mutexes are released before the next one is taken.
AdvanceOpenHanded(t) ==
    /\ Goto(t, "advance", "lockCur")
    /\ mu' = [mu EXCEPT ![pre[t]] = Free, ![cur[t]] = Free]
    /\ pre' = [pre EXCEPT ![t] = cur[t]]
    /\ cur' = [cur EXCEPT ![t] = next[cur[t]]]
    /\ UNCHANGED <<key, next, live, arg, answer, left>>

Advance(t) ==
    /\ Goto(t, "advance", "lockCur")
    /\ mu' = [mu EXCEPT ![pre[t]] = Free]
    /\ pre' = [pre EXCEPT ![t] = cur[t]]
    /\ cur' = [cur EXCEPT ![t] = next[cur[t]]]
    /\ UNCHANGED <<key, next, live, arg, answer, left>>
------------------------------------------------------------------------------
(* What they do where the walk ends, with both mutexes held.                *)

Decide(t, found) == answer' = [answer EXCEPT ![t] = found]

\* add finds the key.
RefuseAdd(t) ==
    /\ t \in Adders
    /\ Goto(t, "act", "unlockPre")
    /\ key[cur[t]] = arg[t]
    /\ Decide(t, FALSE)
    /\ UNCHANGED <<key, next, mu, live, pre, cur, arg, left>>

\* add links a new node; it is reached through pre alone, whose mutex is held
\* until its own successor is set.
LinkNode(t) ==
    /\ t \in Adders
    /\ Goto(t, "act", "unlockCur")
    /\ key[cur[t]] # arg[t]
    /\ \E n \in Address \ live :
          /\ live' = live \cup {n}
          /\ key' = [key EXCEPT ![n] = arg[t]]
          /\ next' = [next EXCEPT ![pre[t]] = n, ![n] = cur[t]]
          /\ mu' = [mu EXCEPT ![n] = Free]
    /\ Decide(t, TRUE)
    /\ UNCHANGED <<pre, cur, arg, left>>

\* Mutant: the node is deleted while its mutex is held.
UnlinkAndDelete(t) ==
    /\ t \in Removers
    /\ Goto(t, "act", "unlockCur")
    /\ key[cur[t]] = arg[t]
    /\ next' = [next EXCEPT ![pre[t]] = next[cur[t]]]
    /\ live' = live \ {cur[t]}
    /\ Decide(t, TRUE)
    /\ UNCHANGED <<key, mu, pre, cur, arg, left>>

\* Mutant: remove takes out whatever node its walk ends at.
UnlinkAny(t) ==
    /\ t \in Removers
    /\ Goto(t, "act", "unlockCur")
    /\ cur[t] # Tail
    /\ next' = [next EXCEPT ![pre[t]] = next[cur[t]]]
    /\ Decide(t, TRUE)
    /\ UNCHANGED <<key, mu, live, pre, cur, arg, left>>

UnlinkNode(t) ==
    /\ t \in Removers
    /\ Goto(t, "act", "unlockCur")
    /\ key[cur[t]] = arg[t]
    /\ next' = [next EXCEPT ![pre[t]] = next[cur[t]]]
    /\ Decide(t, TRUE)
    /\ UNCHANGED <<key, mu, live, pre, cur, arg, left>>

RefuseRemove(t) ==
    /\ t \in Removers
    /\ Goto(t, "act", "unlockCur")
    /\ key[cur[t]] # arg[t]
    /\ Decide(t, FALSE)
    /\ UNCHANGED <<key, next, mu, live, pre, cur, arg, left>>

\* add that found the key unlocks pre first, every other call cur.
PreFirst(t) == t \in Adders /\ ~answer[t]

UnlockCur(t) ==
    /\ Goto(t, "unlockCur",
            IF PreFirst(t) THEN "return"
            ELSE IF t \in Removers /\ answer[t] THEN "delete"
            ELSE "unlockPre")
    /\ mu' = [mu EXCEPT ![cur[t]] = Free]
    /\ UNCHANGED <<key, next, live, pre, cur, arg, answer, left>>

DeleteCur(t) ==
    /\ Goto(t, "delete", "unlockPre")
    /\ live' = live \ {cur[t]}
    /\ UNCHANGED <<key, next, mu, pre, cur, arg, answer, left>>

\* Mutant: the mutex of pre is kept.
UnlockPreNever(t) ==
    /\ Goto(t, "unlockPre", IF PreFirst(t) THEN "unlockCur" ELSE "return")
    /\ UNCHANGED <<key, next, mu, live, pre, cur, arg, answer, left>>

UnlockPre(t) ==
    /\ Goto(t, "unlockPre", IF PreFirst(t) THEN "unlockCur" ELSE "return")
    /\ mu' = [mu EXCEPT ![pre[t]] = Free]
    /\ UNCHANGED <<key, next, live, pre, cur, arg, answer, left>>

Return(t) ==
    /\ Goto(t, "return", IF left[t] = 1 THEN "done" ELSE "call")
    /\ left' = [left EXCEPT ![t] = @ - 1]
    /\ answer' = [answer EXCEPT ![t] = None]
    /\ arg' = [arg EXCEPT ![t] = None]
    /\ pre' = [pre EXCEPT ![t] = Head]
    /\ cur' = [cur EXCEPT ![t] = Head]
    /\ UNCHANGED <<key, next, mu, live>>
------------------------------------------------------------------------------
Step(t) ==
    \/ Call(t) \/ LockHead(t) \/ LockCur(t) \/ Advance(t)
    \/ RefuseAdd(t) \/ LinkNode(t) \/ UnlinkNode(t) \/ RefuseRemove(t)
    \/ UnlockCur(t) \/ DeleteCur(t) \/ UnlockPre(t) \/ Return(t)

AllDone == \A t \in Threads : pc[t] = "done"

Joined == AllDone /\ UNCHANGED program

Next ==
    /\ \/ \E t \in Threads : Step(t)
       \/ Joined
    /\ Observe

Spec == Init /\ [][Next]_vars

\* A mutex that is given back is given in turn, and every thread runs.
FairSpec == Spec /\ \A t \in Threads : WF_program(Step(t))
------------------------------------------------------------------------------
\* A thread that waits for the mutex of cur holds that of pre and sees them
\* side by side, and neither is ever deleted under it: no one locks a mutex that
\* is destroyed, or unlocks a node that was freed.  The list is sorted all the
\* while, and made of nodes that have not been deleted.
HandOverHand ==
    /\ OnList \subseteq live /\ Tail \in OnList
    /\ \A n \in OnList \ {Tail} : next[n] \in OnList /\ key[n] < key[next[n]]
    /\ \A t \in Threads :
           /\ pc[t] \in {"lockCur", "advance", "act", "delete"} =>
                 mu[pre[t]] = t /\ pre[t] \in OnList
           /\ pc[t] \in {"lockCur", "advance", "act"} =>
                 next[pre[t]] = cur[t] /\ cur[t] \in live
           /\ pc[t] \in {"advance", "act", "unlockCur"} =>
                 mu[cur[t]] = t /\ cur[t] \in live

\* The nodes a thread may still touch before it returns.
Uses(t) ==
    CASE pc[t] \in {"lockCur", "advance", "act", "delete"} -> {pre[t], cur[t]}
      [] pc[t] = "unlockCur" -> IF PreFirst(t) THEN {cur[t]} ELSE {pre[t], cur[t]}
      [] pc[t] = "unlockPre" -> IF PreFirst(t) THEN {pre[t], cur[t]} ELSE {pre[t]}
      [] OTHER -> {}

\* remove deletes a node that no other thread will touch again, and no thread
\* will touch one that is deleted.
DeletedAlone ==
    \A t \in Threads :
        /\ Uses(t) \subseteq live
        /\ pc[t] = "delete" => \A u \in Threads \ {t} : cur[t] \notin Uses(u)

\* Every call takes effect at one moment between its call and its return.
Shared == INSTANCE SharedSet WITH
    Thread <- Threads, Key <- Keys, members <- Members,
    call <- [t \in Threads |->
                IF pc[t] \in {"call", "done"} THEN None
                ELSE [op |-> IF t \in Adders THEN "add" ELSE "remove",
                      key |-> arg[t]]]

IsSet == Shared!Spec

\* Every thread is joined (test_safe/main.cpp:65-69): hand over hand, the
\* threads wait for one another only down the list.
AllThreadsJoin == <>AllDone
==============================================================================
