-------------------------- MODULE UnblockingSafeSet ---------------------------
(***************************************************************************)
(* UnblockingSafeSet of common/safe_set.h, a sorted list without locks:    *)
(* remove marks the node it takes out, in the same word as the node's next *)
(* pointer, and whoever walks past a marked node unlinks it.  The word is  *)
(* an AtomicMarkablePointer, whose compareAndSet fails when the word has   *)
(* the wrong mark or changes between its load and its exchange, so that    *)
(* it is one step here.                                                    *)
(*                                                                         *)
(* Nodes are numbered in the order they are linked, after the sentinels;   *)
(* they are deleted with the set only.                                     *)
(***************************************************************************)
EXTENDS Integers, Reachability

CONSTANTS
    Adders, Removers,   \* the threads of test_safe/main.cpp:73-77
    Times,              \* how many calls each of them makes
    Keys,               \* the numbers they add and remove
    MinKey, MaxKey,     \* INT32_MIN and INT32_MAX, the keys of the sentinels
    MaxNode,            \* bound: how many nodes can be linked
    None                \* no answer yet, no call, or a null pointer

Threads == Adders \cup Removers
Head == 0
Tail == 1
Nodes == 0 .. MaxNode + 1

ASSUME ThreadAssumption ==
    /\ Adders \cap Removers = {}
    /\ Times \in Nat \ {0} /\ MaxNode \in Nat
    /\ MinKey \in Int /\ MaxKey \in Int /\ MinKey < MaxKey
    /\ Keys \subseteq MinKey + 1 .. MaxKey - 1
    /\ None \notin Nodes /\ None \notin BOOLEAN /\ None \notin Keys
    /\ None \notin [op : {"add", "remove"}, key : Keys]

VARIABLES
    key, next, marked,  \* the fields of the nodes; marked is in the word of next
    linked,             \* how many nodes have been linked behind the sentinels
    pc,                 \* where each thread is
    pre, cur, succ,     \* its pointers
    snip,               \* whether its last attempt to unlink succeeded
    arg, answer,        \* the key of its call, and what the call will return
    left,               \* how many calls it still has to make
    seen                \* history: whether its key was in the set since the call

locals == <<pre, cur, succ, snip>>
program == <<key, next, marked, linked, pc, locals, arg, answer, left>>
vars == <<program, seen>>

Init ==
    /\ key = [n \in Nodes |-> IF n = Tail THEN MaxKey ELSE MinKey]
    /\ next = [n \in Nodes |-> IF n = Head THEN Tail ELSE None]
    /\ marked = [n \in Nodes |-> FALSE]
    /\ linked = 0
    /\ pc = [t \in Threads |-> "call"]
    /\ pre = [t \in Threads |-> Head]
    /\ cur = [t \in Threads |-> Head]
    /\ succ = [t \in Threads |-> Head]
    /\ snip = [t \in Threads |-> TRUE]
    /\ arg = [t \in Threads |-> None]
    /\ answer = [t \in Threads |-> None]
    /\ left = [t \in Threads |-> Times]
    /\ seen = [t \in Threads |-> {}]

Used == 0 .. linked + 1

\* The set: what is on the list and has no mark.
Members == {key[n] : n \in {m \in Used \ {Head, Tail} : ~marked[m]}}

Observe ==
    LET now == Members'
        calling == {t \in Threads : pc'[t] \notin {"call", "done"}}
    IN  seen' = [t \in Threads |->
                    IF t \notin calling THEN {}
                    ELSE {arg'[t] \in now} \cup (IF pc[t] = "call" THEN {} ELSE seen[t])]

Goto(t, from, to) == pc[t] = from /\ pc' = [pc EXCEPT ![t] = to]

Decide(t, result) == answer' = [answer EXCEPT ![t] = result]

\* Mutant: compareAndSet does not compare the marks.
PointsMarkedOrNot(n, p) == next[n] = p

\* n.next still is the unmarked pointer to p.
Points(n, p) == next[n] = p /\ ~marked[n]
------------------------------------------------------------------------------
Call(t) ==
    /\ Goto(t, "call", "find")
    /\ \E k \in Keys : arg' = [arg EXCEPT ![t] = k]
    /\ UNCHANGED <<key, next, marked, linked, locals, answer, left>>

(* find: walk to the first node whose key is at least the argument,         *)
(* unlinking the marked nodes on the way.                                   *)

Find(t) ==
    /\ Goto(t, "find", "walk")
    /\ snip' = [snip EXCEPT ![t] = TRUE]
    /\ pre' = [pre EXCEPT ![t] = Head]
    /\ cur' = [cur EXCEPT ![t] = next[Head]]
    /\ UNCHANGED <<key, next, marked, linked, succ, arg, answer, left>>

\* Load the word of cur, which is marked.
MeetMarked(t) ==
    /\ Goto(t, "walk", "snip")
    /\ marked[cur[t]]
    /\ succ' = [succ EXCEPT ![t] = next[cur[t]]]
    /\ UNCHANGED <<key, next, marked, linked, pre, cur, snip, arg, answer, left>>

Snip(t) ==
    /\ Goto(t, "snip", "walk")
    /\ LET done == Points(pre[t], cur[t])
       IN  /\ snip' = [snip EXCEPT ![t] = done]
           /\ cur' = IF done THEN [cur EXCEPT ![t] = succ[t]] ELSE cur
           /\ next' = IF done THEN [next EXCEPT ![pre[t]] = succ[t]] ELSE next
    /\ UNCHANGED <<key, marked, linked, pre, succ, arg, answer, left>>

\* Load the word of cur, which is not marked, and go on to the next node.
Pass(t) ==
    /\ pc[t] = "walk"
    /\ ~marked[cur[t]]
    /\ succ' = [succ EXCEPT ![t] = next[cur[t]]]
    /\ IF snip[t]
       THEN /\ key[cur[t]] < arg[t]
            /\ pre' = [pre EXCEPT ![t] = cur[t]]
            /\ cur' = [cur EXCEPT ![t] = next[cur[t]]]
       ELSE UNCHANGED <<pre, cur>>
    /\ UNCHANGED <<key, next, marked, linked, pc, snip, arg, answer, left>>

\* The walk ends at cur; the call returns unless it has something to change.
Window(t) ==
    /\ LET found == key[cur[t]] = arg[t]
           change == IF t \in Adders THEN ~found ELSE found
       IN  /\ Goto(t, "walk", IF change THEN "change" ELSE "return")
           /\ Decide(t, IF change THEN None ELSE FALSE)
    /\ ~marked[cur[t]] /\ snip[t]
    /\ key[cur[t]] >= arg[t]
    /\ succ' = [succ EXCEPT ![t] = next[cur[t]]]
    /\ UNCHANGED <<key, next, marked, linked, pre, cur, snip, arg, left>>
------------------------------------------------------------------------------
\* Mutant: the new node takes the place of cur.
LinkOver(t) ==
    /\ t \in Adders
    /\ Goto(t, "change", "return")
    /\ Points(pre[t], cur[t])
    /\ linked < MaxNode
    /\ LET n == linked + 2
       IN  /\ key' = [key EXCEPT ![n] = arg[t]]
           /\ next' = [next EXCEPT ![n] = succ[t], ![pre[t]] = n]
    /\ linked' = linked + 1
    /\ Decide(t, TRUE)
    /\ UNCHANGED <<marked, locals, arg, left>>

\* add links a new node, which was its own until now, ...
LinkNode(t) ==
    /\ t \in Adders
    /\ Goto(t, "change", "return")
    /\ Points(pre[t], cur[t])
    /\ linked < MaxNode
    /\ LET n == linked + 2
       IN  /\ key' = [key EXCEPT ![n] = arg[t]]
           /\ next' = [next EXCEPT ![n] = cur[t], ![pre[t]] = n]
    /\ linked' = linked + 1
    /\ Decide(t, TRUE)
    /\ UNCHANGED <<marked, locals, arg, left>>

\* ... or leaves it and starts again.
LinkFails(t) ==
    /\ t \in Adders
    /\ Goto(t, "change", "find")
    /\ ~Points(pre[t], cur[t])
    /\ UNCHANGED <<key, next, marked, linked, locals, arg, answer, left>>

\* remove reads the successor of cur, whatever its mark, ...
ReadSucc(t) ==
    /\ t \in Removers
    /\ Goto(t, "change", "mark")
    /\ succ' = [succ EXCEPT ![t] = next[cur[t]]]
    /\ UNCHANGED <<key, next, marked, linked, pre, cur, snip, arg, answer, left>>

\* ... marks cur if that has not changed and starts again if it has, ...
Mark(t) ==
    /\ Goto(t, "mark", "unlink")
    /\ Points(cur[t], succ[t])
    /\ marked' = [marked EXCEPT ![cur[t]] = TRUE]
    /\ Decide(t, TRUE)
    /\ UNCHANGED <<key, next, linked, locals, arg, left>>

MarkFails(t) ==
    /\ Goto(t, "mark", "find")
    /\ ~Points(cur[t], succ[t])
    /\ UNCHANGED <<key, next, marked, linked, locals, arg, answer, left>>

\* Mutant: the pointer is stored, not exchanged.
UnlinkBlindly(t) ==
    /\ Goto(t, "unlink", "return")
    /\ next' = [next EXCEPT ![pre[t]] = succ[t]]
    /\ UNCHANGED <<key, marked, linked, locals, arg, answer, left>>

\* ... and tries once to unlink it.
Unlink(t) ==
    /\ Goto(t, "unlink", "return")
    /\ next' = IF Points(pre[t], cur[t]) THEN [next EXCEPT ![pre[t]] = succ[t]]
                                         ELSE next
    /\ UNCHANGED <<key, marked, linked, locals, arg, answer, left>>

Return(t) ==
    /\ Goto(t, "return", IF left[t] = 1 THEN "done" ELSE "call")
    /\ left' = [left EXCEPT ![t] = @ - 1]
    /\ answer' = [answer EXCEPT ![t] = None]
    /\ arg' = [arg EXCEPT ![t] = None]
    /\ pre' = [pre EXCEPT ![t] = Head]
    /\ cur' = [cur EXCEPT ![t] = Head]
    /\ succ' = [succ EXCEPT ![t] = Head]
    /\ snip' = [snip EXCEPT ![t] = TRUE]
    /\ UNCHANGED <<key, next, marked, linked>>
------------------------------------------------------------------------------
Step(t) ==
    \/ Call(t) \/ Find(t) \/ MeetMarked(t) \/ Snip(t) \/ Pass(t) \/ Window(t)
    \/ LinkNode(t) \/ LinkFails(t)
    \/ ReadSucc(t) \/ Mark(t) \/ MarkFails(t) \/ Unlink(t)
    \/ Return(t)

AllDone == \A t \in Threads : pc[t] = "done"

Joined == AllDone /\ UNCHANGED program

Next ==
    /\ \/ \E t \in Threads : Step(t)
       \/ Joined
    /\ Observe

Spec == Init /\ [][Next]_vars

\* The scheduler runs every thread.
FairSpec == Spec /\ \A t \in Threads : WF_program(Step(t))
------------------------------------------------------------------------------
\* The nodes a walk from the head meets.
OnList == Reached(Head, next, None)

\* Keys grow along every pointer, even from nodes that have been unlinked, so
\* that a walk that was overtaken still ends; and the nodes without a mark are
\* all on the list: a node is unlinked only when it is marked, and nothing is
\* linked behind a node that has been taken out.  A call that is about to change
\* the list stands at the place of its key, between a smaller one and one that is
\* not smaller.
SortedList ==
    /\ \A n \in Used \ {Tail} : next[n] \in Used /\ key[n] < key[next[n]]
    /\ {n \in Used : ~marked[n]} \subseteq OnList
    /\ \A t \in Threads :
          pc[t] \in {"change", "mark", "unlink"} =>
              /\ key[pre[t]] < arg[t]
              /\ IF t \in Adders THEN arg[t] < key[cur[t]] ELSE arg[t] = key[cur[t]]

\* A marked node is out of the set for good: nobody ever writes its word again.
MarkedForGood ==
    [][\A n \in Nodes : marked[n] => marked'[n] /\ next'[n] = next[n]]_vars

\* Every call takes effect at one moment between its call and its return.
Shared == INSTANCE SharedSet WITH
    Thread <- Threads, Key <- Keys, members <- Members,
    call <- [t \in Threads |->
                IF pc[t] \in {"call", "done"} THEN None
                ELSE [op |-> IF t \in Adders THEN "add" ELSE "remove",
                      key |-> arg[t]]]

IsSet == Shared!Spec

(***************************************************************************)
(* test_safe/main.cpp:79-83 joins every thread.  A find whose attempt to   *)
(* unlink fails because pre has been marked or points elsewhere tries the  *)
(* same again: the loop that would start from the head is never left.      *)
(***************************************************************************)
AllThreadsJoin == <>AllDone
==============================================================================
