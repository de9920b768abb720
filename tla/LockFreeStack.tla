----------------------------- MODULE LockFreeStack ----------------------------
(***************************************************************************)
(* LockFreeStack of common/safe_stack.h, with split reference counts: the  *)
(* pointer to a node carries, in the same word, how many threads have      *)
(* taken a reference through it (the external count); the node counts, in  *)
(* internal_count_, how many gave one back.  Who brings the sum to zero    *)
(* deletes the node.                                                       *)
(*                                                                         *)
(* The users are threads that push and pop as they like, as the threads of *)
(* sort_algorithm/parallel_sort.h do, and the owner of the stack, whose    *)
(* destructor pops until the stack is empty once the others have ended.    *)
(* A node is an address: a later push may be given one that was deleted.   *)
(***************************************************************************)
EXTENDS Integers, Sequences, FiniteSets, Reachability

CONSTANTS
    Users, Owner,   \* the threads
    Times,          \* how often each user pushes or pops
    Address,        \* bound: the addresses new gives
    CountLimit,     \* 2^16: the external count has the upper 16 bits of a word
    MaxRefs,        \* bound: no external count grows past it by contention
    EarlierPops,    \* how many pops have found the stack empty before
    Null, None, Empty

Threads == Users \cup {Owner}
Value == Users \X (1 .. Times)

ASSUME StackAssumption ==
    /\ Owner \notin Users /\ IsFiniteSet(Users) /\ IsFiniteSet(Address)
    /\ Times \in Nat
    /\ CountLimit \in Nat \ {0, 1} /\ MaxRefs \in Nat /\ EarlierPops \in Nat
    /\ Null \notin Address
    /\ None \notin Value /\ Empty \notin Value /\ None # Empty

Counted == [ptr : Address \cup {Null}, count : 0 .. CountLimit - 1]
Ptr(p, c) == [ptr |-> p, count |-> c % CountLimit]

VARIABLES
    head,                   \* head_, a counted pointer
    data, internal, next,   \* the fields of the nodes
    live,                   \* the nodes that have not been deleted
    pc, left,               \* where each thread is, and its operations to do
    node,                   \* the node a push made
    old, ptr, succ,         \* old_head, ptr and ptr->next_ of a pop
    got                     \* what a pop has taken

vars == <<head, data, internal, next, live, pc, left, node, old, ptr, succ, got>>

Init ==
    /\ head = Ptr(Null, EarlierPops)
    /\ data = [n \in Address |-> None]
    /\ internal = [n \in Address |-> 0]
    /\ next = [n \in Address |-> Ptr(Null, 0)]
    /\ live = {}
    /\ pc = [t \in Threads |-> "idle"]
    /\ left = [t \in Threads |-> IF t \in Users THEN Times ELSE 0]
    /\ node = [t \in Threads |-> Null]
    /\ old = [t \in Threads |-> Ptr(Null, 0)]
    /\ ptr = [t \in Threads |-> Null]
    /\ succ = [t \in Threads |-> Ptr(Null, 0)]
    /\ got = [t \in Threads |-> None]

Goto(t, from, to) == pc[t] = from /\ pc' = [pc EXCEPT ![t] = to]
------------------------------------------------------------------------------
\* push makes its node and loads head_ into the node's next_.
MakeNode(t) ==
    /\ left[t] > 0
    /\ Goto(t, "idle", "link")
    /\ \E n \in Address \ live :
          /\ node' = [node EXCEPT ![t] = n]
          /\ live' = live \cup {n}
          /\ data' = [data EXCEPT ![n] = <<t, left[t]>>]
          /\ internal' = [internal EXCEPT ![n] = 0]
          /\ next' = [next EXCEPT ![n] = head]
    /\ left' = [left EXCEPT ![t] = @ - 1]
    /\ UNCHANGED <<head, old, ptr, succ, got>>

\* Mutant: head_ is stored without comparing it.
LinkBlindly(t) ==
    /\ Goto(t, "link", "idle")
    /\ head' = Ptr(node[t], 1)
    /\ node' = [node EXCEPT ![t] = Null]
    /\ UNCHANGED <<data, internal, next, live, left, old, ptr, succ, got>>

\* The exchange of push; compare_exchange_weak may fail for no reason, which
\* leaves the state as it was.
LinkNode(t) ==
    /\ Goto(t, "link", "idle")
    /\ head = next[node[t]]
    /\ head' = Ptr(node[t], 1)
    /\ node' = [node EXCEPT ![t] = Null]
    /\ UNCHANGED <<data, internal, next, live, left, old, ptr, succ, got>>

Relink(t) ==
    /\ pc[t] = "link"
    /\ head # next[node[t]]
    /\ next' = [next EXCEPT ![node[t]] = head]
    /\ UNCHANGED <<head, data, internal, live, pc, left, node, old, ptr, succ, got>>
------------------------------------------------------------------------------
\* pop; the owner's begins when the threads that used the stack have ended.
LoadHead(t) ==
    /\ Goto(t, "idle", "increase")
    /\ IF t = Owner THEN \A u \in Users : pc[u] = "idle" /\ left[u] = 0
                    ELSE left[t] > 0
    /\ old' = [old EXCEPT ![t] = head]
    /\ left' = [left EXCEPT ![t] = IF t = Owner THEN @ ELSE @ - 1]
    /\ UNCHANGED <<head, data, internal, next, live, node, ptr, succ, got>>

\* The threads with a reference to n that they have not given back.
Holders(n) ==
    {t \in Threads : ptr[t] = n /\ pc[t] \in {"peek", "exchange", "swap",
                                              "settle", "giveBack"}}

\* increase_head_count: take a reference to the node at the top, if any.  Two
\* threads can make each other fail and try again for ever, so MaxRefs bounds
\* the references that are taken while there are others.
IncreaseHeadCount(t) ==
    /\ Goto(t, "increase", IF head.ptr = Null THEN "return" ELSE "peek")
    /\ head = old[t]
    /\ head.count < MaxRefs \/ Holders(head.ptr) = {}
    /\ LET counted == Ptr(head.ptr, head.count + 1)
       IN  head' = counted /\ old' = [old EXCEPT ![t] = counted]
    /\ ptr' = [ptr EXCEPT ![t] = head.ptr]
    /\ got' = IF head.ptr = Null THEN [got EXCEPT ![t] = Empty] ELSE got
    /\ UNCHANGED <<data, internal, next, live, left, node, succ>>

IncreaseAgain(t) ==
    /\ pc[t] = "increase"
    /\ head # old[t]
    /\ old' = [old EXCEPT ![t] = head]
    /\ UNCHANGED <<head, data, internal, next, live, pc, left, node, ptr, succ, got>>

ReadNext(t) ==
    /\ Goto(t, "peek", "exchange")
    /\ succ' = [succ EXCEPT ![t] = next[ptr[t]]]
    /\ UNCHANGED <<head, data, internal, next, live, left, node, old, ptr, got>>

\* Mutant: the count that came with the next pointer is forgotten.
TakeNodeAnew(t) ==
    /\ Goto(t, "exchange", "swap")
    /\ head = old[t]
    /\ head' = Ptr(succ[t].ptr, 1)
    /\ UNCHANGED <<data, internal, next, live, left, node, old, ptr, succ, got>>

TakeNode(t) ==
    /\ Goto(t, "exchange", "swap")
    /\ head = old[t]
    /\ head' = succ[t]
    /\ UNCHANGED <<data, internal, next, live, left, node, old, ptr, succ, got>>

LoseNode(t) ==
    /\ Goto(t, "exchange", "giveBack")
    /\ head # old[t]
    /\ old' = [old EXCEPT ![t] = head]
    /\ UNCHANGED <<head, data, internal, next, live, left, node, ptr, succ, got>>

SwapData(t) ==
    /\ Goto(t, "swap", "settle")
    /\ got' = [got EXCEPT ![t] = data[ptr[t]]]
    /\ data' = [data EXCEPT ![ptr[t]] = None]
    /\ UNCHANGED <<head, internal, next, live, left, node, old, ptr, succ>>

\* Mutant: one reference less is to be given back.
SettleLess(t) ==
    LET increase == old[t].count - 3
       IN  /\ Goto(t, "settle",
                   IF internal[ptr[t]] = -increase THEN "deleteTaken" ELSE "return")
           /\ internal' = [internal EXCEPT ![ptr[t]] = @ + increase]
           /\ UNCHANGED <<head, data, next, live, left, node, old, ptr, succ, got>>

\* Mutant: the thread's own reference is not taken off.
SettleMore(t) ==
    LET increase == old[t].count - 1
       IN  /\ Goto(t, "settle",
                   IF internal[ptr[t]] = -increase THEN "deleteTaken" ELSE "return")
           /\ internal' = [internal EXCEPT ![ptr[t]] = @ + increase]
           /\ UNCHANGED <<head, data, next, live, left, node, old, ptr, succ, got>>

\* The one that took the node adds what the others are to give back: all the
\* references that were taken but its own and the one for being on the stack.
Settle(t) ==
    /\ LET increase == old[t].count - 2
       IN  /\ Goto(t, "settle",
                   IF internal[ptr[t]] = -increase THEN "deleteTaken" ELSE "return")
           /\ internal' = [internal EXCEPT ![ptr[t]] = @ + increase]
    /\ UNCHANGED <<head, data, next, live, left, node, old, ptr, succ, got>>

\* The others give back theirs, and try again.
GiveBack(t) ==
    /\ Goto(t, "giveBack", IF internal[ptr[t]] = 1 THEN "deleteLost" ELSE "increase")
    /\ internal' = [internal EXCEPT ![ptr[t]] = @ - 1]
    /\ UNCHANGED <<head, data, next, live, left, node, old, ptr, succ, got>>

DeleteNode(t) ==
    /\ Goto(t, "deleteTaken", "return") \/ Goto(t, "deleteLost", "increase")
    /\ live' = live \ {ptr[t]}
    /\ UNCHANGED <<head, data, internal, next, left, node, old, ptr, succ, got>>

\* The destructor pops until a pop finds nothing.
Return(t) ==
    /\ Goto(t, "return", IF t = Owner /\ got[t] = Empty THEN "done" ELSE "idle")
    /\ got' = [got EXCEPT ![t] = None]
    /\ old' = [old EXCEPT ![t] = Ptr(Null, 0)]
    /\ ptr' = [ptr EXCEPT ![t] = Null]
    /\ succ' = [succ EXCEPT ![t] = Ptr(Null, 0)]
    /\ UNCHANGED <<head, data, internal, next, live, left, node>>
------------------------------------------------------------------------------
Push(t) == MakeNode(t) \/ LinkNode(t) \/ Relink(t)

Pop(t) ==
    \/ LoadHead(t) \/ IncreaseHeadCount(t) \/ IncreaseAgain(t) \/ ReadNext(t)
    \/ TakeNode(t) \/ LoseNode(t) \/ SwapData(t) \/ Settle(t) \/ GiveBack(t)
    \/ DeleteNode(t) \/ Return(t)

Destroyed == pc[Owner] = "done" /\ UNCHANGED vars

Next == (\E t \in Threads : Push(t) \/ Pop(t)) \/ Destroyed

Spec == Init /\ [][Next]_vars
------------------------------------------------------------------------------
\* s are the nodes that the pointers lead to, one after the other.
Descends(s) ==
    /\ head.ptr = IF s = << >> THEN Null ELSE s[1]
    /\ \A i \in DOMAIN s :
          next[s[i]].ptr = IF i = Len(s) THEN Null ELSE s[i + 1]

\* The nodes on the stack, from the top.
OnStack ==
    CHOOSE s \in UNION {[1 .. k -> Address] : k \in 0 .. Cardinality(Address)} :
        Descends(s)

\* The same as a set.
Stacked == Reached(head.ptr, [n \in Address |-> next[n].ptr], Null)

\* The nodes that their pushes have not linked yet.
Fresh == {node[t] : t \in Threads}

\* The threads that have taken n from the stack and not settled yet, and those
\* that have found that they are to delete it.
Takers(n) == {t \in Holders(n) : pc[t] \in {"swap", "settle"}}
Deleters(n) ==
    {t \in Threads : ptr[t] = n /\ pc[t] \in {"deleteTaken", "deleteLost"}}

\* The pointers that count the references to n: from the stack, or what a
\* thread that took the node has kept.
Pointers(n) ==
    {p \in {head} \cup {next[m] : m \in Stacked} : p.ptr = n}
        \cup {old[t] : t \in Takers(n)}

\* A thread only touches nodes that have not been deleted, and the stack is
\* made of such nodes.
NoUseAfterFree ==
    /\ \A t \in Threads :
          /\ pc[t] = "link" => node[t] \in live
          /\ pc[t] \in {"peek", "exchange", "swap", "settle", "giveBack",
                        "deleteTaken", "deleteLost"} => ptr[t] \in live
    /\ Stacked \subseteq live

\* The two counts of a node add up to the threads that hold it, and one more
\* while the stack itself does: so no one who holds it can see zero, and the
\* last one does.
CountsHolders ==
    \A n \in live \ Fresh :
        LET refs == Cardinality(Holders(n))
        IN  /\ Cardinality(Pointers(n)) <= 1
            /\ \A p \in Pointers(n) : internal[n] + p.count = refs + 1
            /\ Pointers(n) = {} => internal[n] = refs
            /\ n \in Stacked => Takers(n) = {}

\* A node that is out of the stack and that nobody holds is about to be
\* deleted, by one thread: none is forgotten and none deleted twice.  When the
\* destructor ends, every node that was ever pushed has been deleted.
DeletedOnce ==
    /\ pc[Owner] = "done" => live = {}
    /\ \A n \in live \ (Fresh \cup Stacked) :
           Cardinality(Deleters(n)) = IF Holders(n) = {} THEN 1 ELSE 0

\* Pushes and pops take effect one at a time, last in first out, on a thread's
\* way from call to return.
Lifo == INSTANCE LifoStack WITH
    Thread <- Threads,
    items <- [i \in DOMAIN OnStack |-> data[OnStack[i]]],
    got <- [t \in Threads |-> IF pc[t] = "swap" THEN data[ptr[t]] ELSE got[t]]

IsLifo == Lifo!Spec
==============================================================================
