-------------------------- MODULE LockFreeStack_proofs -------------------------
(***************************************************************************)
(* The split reference counts of LockFreeStack are right, for any number   *)
(* of users, operations and addresses: no node is touched after it was     *)
(* deleted, and every node is deleted once.  So the stack is last in,      *)
(* first out.  What is assumed is what the code assumes: that 16 bits      *)
(* suffice for the external count of a node.                               *)
(***************************************************************************)
EXTENDS LockFreeStack, FiniteSetTheorems, SequenceTheorems

\* set_external_count asks what happens if the count is larger than 16 bit;
\* here it is not: while a node is at the top its count does not start again.
NoNodeWraps ==
    head'.ptr = head.ptr /\ head.ptr # Null => head.count <= head'.count

Holding == {"peek", "exchange", "swap", "settle", "giveBack"}
Steps == Holding \cup {"idle", "link", "increase", "deleteTaken", "deleteLost",
                       "return", "done"}

TypeOK ==
    /\ head \in Counted
    /\ data \in [Address -> Value \cup {None}]
    /\ internal \in [Address -> Int]
    /\ next \in [Address -> Counted]
    /\ live \in SUBSET Address
    /\ pc \in [Threads -> Steps]
    /\ left \in [Threads -> 0 .. Times]
    /\ node \in [Threads -> Address \cup {Null}]
    /\ old \in [Threads -> Counted]
    /\ ptr \in [Threads -> Address \cup {Null}]
    /\ succ \in [Threads -> Counted]
    /\ got \in [Threads -> Value \cup {None, Empty}]

\* What a thread knows of the node it is at.
Local ==
    \A t \in Threads :
        /\ pc[t] = "link" <=> node[t] # Null
        /\ pc[t] \in Holding \cup {"deleteTaken", "deleteLost"} => ptr[t] \in live
        /\ pc[t] \in {"peek", "exchange", "swap", "settle"} => old[t].ptr = ptr[t]
        /\ pc[t] = "exchange" => succ[t] = next[ptr[t]]

\* No two pointers on the stack lead to the same node.
OneWay ==
    /\ \A m \in Stacked : next[m].ptr = head.ptr => head.ptr = Null
    /\ \A m, k \in Stacked :
           next[m].ptr = next[k].ptr => next[m].ptr = Null \/ m = k

\* Who holds each node, has taken it and is to delete it, and how many hold it.
HeldBy == [n \in Address |-> Holders(n)]
TakenBy == [n \in Address |-> Takers(n)]
DeletedBy == [n \in Address |-> Deleters(n)]
Refs == [n \in Address |-> Cardinality(HeldBy[n])]

\* What a pointer counts of the node it leads to.
Counts(p) == p.ptr # Null => internal[p.ptr] + p.count = Refs[p.ptr] + 1

StackCounts == Counts(head) /\ \A m \in Stacked : Counts(next[m])

\* A node is pushed, then on the stack, then taken, then held by some that lost
\* it, then deleted.
FreshNode(n) ==
    /\ n \in live /\ n \notin Stacked /\ internal[n] = 0
    /\ HeldBy[n] = {} /\ DeletedBy[n] = {}

StackedNode(n) ==
    /\ n \in live /\ internal[n] <= 0
    /\ TakenBy[n] = {} /\ DeletedBy[n] = {}

TakenNode(n, t) ==
    /\ TakenBy[n] = {t} /\ DeletedBy[n] = {} /\ internal[n] <= 0
    /\ internal[n] + old[t].count = Refs[n] + 1

SettledNode(n) ==
    /\ internal[n] = Refs[n]
    /\ IF Refs[n] = 0 THEN \E d \in Threads : DeletedBy[n] = {d}
                      ELSE DeletedBy[n] = {}

NodeState(n) ==
    /\ n \in Fresh => FreshNode(n)
    /\ n \in Stacked => StackedNode(n)
    /\ n \in live /\ n \notin Fresh /\ n \notin Stacked =>
           IF TakenBy[n] = {} THEN SettledNode(n)
                              ELSE \E t \in Threads : TakenNode(n, t)

OwnNodes == \A t, u \in Threads : node[t] = node[u] => node[t] = Null \/ t = u

NodeStates == \A n \in Address : NodeState(n)

\* The destructor runs alone, and stops at an empty stack.
OwnerLast ==
    /\ left[Owner] = 0
    /\ pc[Owner] # "idle" => \A u \in Users : pc[u] = "idle" /\ left[u] = 0
    /\ got[Owner] = Empty => pc[Owner] = "return" /\ head.ptr = Null
    /\ pc[Owner] = "done" => head.ptr = Null

IInv ==
    /\ TypeOK /\ Local /\ OneWay /\ StackCounts
    /\ OwnNodes /\ NodeStates /\ OwnerLast
------------------------------------------------------------------------------
USE DEF Threads

LEMMA StackShape ==
    ASSUME TypeOK
    PROVE  /\ Stacked \subseteq Address
           /\ head.ptr # Null => head.ptr \in Stacked
           /\ \A m \in Stacked : next[m].ptr # Null => next[m].ptr \in Stacked
           /\ \A n \in Stacked : n # head.ptr => \E m \in Stacked : next[m].ptr = n
<1> DEFINE below == [n \in Address |-> next[n].ptr]
<1>1. head.ptr \in Address \cup {Null} /\ below \in [Address -> Address \cup {Null}]
  BY DEF TypeOK, Counted
<1>2. /\ Stacked \subseteq Address
      /\ Closed(Stacked, head.ptr, below, Null)
  BY <1>1, ReachedClosed DEF Stacked
<1>3. \A n \in Stacked : n # head.ptr => \E m \in Stacked : below[m] = n
  <2> SUFFICES ASSUME NEW n \in Stacked, n # head.ptr
               PROVE  \E m \in Stacked : below[m] = n
    OBVIOUS
  <2>1. Stacked = Reached(head.ptr, below, Null)
    BY DEF Stacked
  <2> HIDE DEF below
  <2>2. n \in Reached(head.ptr, below, Null)
    BY <2>1
  <2>3. \E m \in Reached(head.ptr, below, Null) : below[m] = n
    BY <1>1, <2>2, ReachedLed
  <2> QED
    BY <2>1, <2>3
<1> QED
  BY <1>2, <1>3 DEF Closed

LEMMA RefsAreNat ==
    ASSUME NEW n \in Address
    PROVE  /\ IsFiniteSet(HeldBy[n]) /\ Refs[n] \in Nat
           /\ Refs[n] = 0 <=> HeldBy[n] = {}
<1>1. IsFiniteSet(Threads)
  BY StackAssumption, FS_AddElement
<1>2. HeldBy[n] \subseteq Threads
  BY DEF HeldBy, Holders
<1>3. IsFiniteSet(HeldBy[n])
  BY <1>1, <1>2, FS_Subset
<1> QED
  BY <1>3, FS_CardinalityType, FS_EmptySet DEF Refs

\* What a step of thread t does to the three groups of threads.
LEMMA GroupsStep ==
    ASSUME NEW t \in Threads, NEW n \in Address,
           \A u \in Threads : u # t => pc'[u] = pc[u] /\ ptr'[u] = ptr[u]
    PROVE  /\ HeldBy'[n] = IF ptr'[t] = n /\ pc'[t] \in Holding
                           THEN HeldBy[n] \cup {t} ELSE HeldBy[n] \ {t}
           /\ TakenBy'[n] = IF ptr'[t] = n /\ pc'[t] \in {"swap", "settle"}
                            THEN TakenBy[n] \cup {t} ELSE TakenBy[n] \ {t}
           /\ DeletedBy'[n] =
                 IF ptr'[t] = n /\ pc'[t] \in {"deleteTaken", "deleteLost"}
                 THEN DeletedBy[n] \cup {t} ELSE DeletedBy[n] \ {t}
<1>1. /\ HeldBy[n] = {u \in Threads : ptr[u] = n /\ pc[u] \in Holding}
      /\ HeldBy'[n] = {u \in Threads : ptr'[u] = n /\ pc'[u] \in Holding}
  BY DEF HeldBy, Holders, Holding
<1>2. /\ TakenBy[n] = {u \in Threads : ptr[u] = n /\ pc[u] \in {"swap", "settle"}}
      /\ TakenBy'[n] = {u \in Threads : ptr'[u] = n /\ pc'[u] \in {"swap", "settle"}}
  BY DEF TakenBy, Takers, Holders
<1>3. /\ DeletedBy[n] =
           {u \in Threads : ptr[u] = n /\ pc[u] \in {"deleteTaken", "deleteLost"}}
      /\ DeletedBy'[n] =
           {u \in Threads : ptr'[u] = n /\ pc'[u] \in {"deleteTaken", "deleteLost"}}
  BY DEF DeletedBy, Deleters
<1>4. HeldBy'[n] = IF ptr'[t] = n /\ pc'[t] \in Holding
                   THEN HeldBy[n] \cup {t} ELSE HeldBy[n] \ {t}
  BY <1>1
<1>5. TakenBy'[n] = IF ptr'[t] = n /\ pc'[t] \in {"swap", "settle"}
                    THEN TakenBy[n] \cup {t} ELSE TakenBy[n] \ {t}
  BY <1>2
<1>6. DeletedBy'[n] = IF ptr'[t] = n /\ pc'[t] \in {"deleteTaken", "deleteLost"}
                      THEN DeletedBy[n] \cup {t} ELSE DeletedBy[n] \ {t}
  BY <1>3
<1> QED
  BY <1>4, <1>5, <1>6

\* Which group a thread is in is told by where it is.
LEMMA GroupMember ==
    ASSUME NEW t \in Threads, NEW n \in Address
    PROVE  /\ t \in HeldBy[n] <=> ptr[t] = n /\ pc[t] \in Holding
           /\ t \in TakenBy[n] <=> ptr[t] = n /\ pc[t] \in {"swap", "settle"}
           /\ t \in DeletedBy[n] <=>
                 ptr[t] = n /\ pc[t] \in {"deleteTaken", "deleteLost"}
           /\ HeldBy[n] \subseteq Threads /\ TakenBy[n] \subseteq HeldBy[n]
           /\ DeletedBy[n] \subseteq Threads
BY DEF HeldBy, Holders, TakenBy, Takers, DeletedBy, Deleters, Holding

LEMMA RefsStep ==
    ASSUME NEW n \in Address
    PROVE  /\ HeldBy'[n] = HeldBy[n] => Refs'[n] = Refs[n]
           /\ \A t : t \notin HeldBy[n] /\ HeldBy'[n] = HeldBy[n] \cup {t}
                     => Refs'[n] = Refs[n] + 1
           /\ \A t : t \in HeldBy[n] /\ HeldBy'[n] = HeldBy[n] \ {t}
                     => Refs'[n] = Refs[n] - 1
<1>1. Refs[n] = Cardinality(HeldBy[n]) /\ Refs'[n] = Cardinality(HeldBy'[n])
  BY DEF Refs
<1>2. IsFiniteSet(HeldBy[n])
  BY RefsAreNat
<1>3. \A t : t \notin HeldBy[n] => Cardinality(HeldBy[n] \cup {t}) = Cardinality(HeldBy[n]) + 1
  BY <1>2, FS_AddElement
<1>4. \A t : t \in HeldBy[n] => Cardinality(HeldBy[n] \ {t}) = Cardinality(HeldBy[n]) - 1
  BY <1>2, FS_RemoveElement
<1> QED
  BY <1>1, <1>3, <1>4
------------------------------------------------------------------------------
\* A step that leaves a node as it was leaves it in its state.
LEMMA SameNode ==
    ASSUME NEW n \in Address, NodeState(n), live' \cap {n} = live \cap {n},
           n \in Stacked' <=> n \in Stacked, n \in Fresh' <=> n \in Fresh,
           internal'[n] = internal[n], HeldBy'[n] = HeldBy[n],
           TakenBy'[n] = TakenBy[n], DeletedBy'[n] = DeletedBy[n],
           \A u \in TakenBy[n] : old'[u] = old[u]
    PROVE  NodeState(n)'
<1>1. Refs'[n] = Refs[n] /\ (n \in live' <=> n \in live)
  BY RefsStep
<1>2. n \in Fresh' => FreshNode(n)'
  BY <1>1 DEF NodeState, FreshNode
<1>3. n \in Stacked' => StackedNode(n)'
  BY <1>1 DEF NodeState, StackedNode
<1>4. ASSUME n \in live', n \notin Fresh', n \notin Stacked'
      PROVE  IF TakenBy'[n] = {} THEN SettledNode(n)'
                                 ELSE \E t \in Threads : TakenNode(n, t)'
  <2>1. IF TakenBy[n] = {} THEN SettledNode(n)
                           ELSE \E t \in Threads : TakenNode(n, t)
    BY <1>1, <1>4 DEF NodeState
  <2>2. CASE TakenBy[n] = {}
    BY <1>1, <2>1, <2>2 DEF SettledNode
  <2>3. CASE TakenBy[n] # {}
    <3>1. PICK t \in Threads : TakenNode(n, t)
      BY <2>1, <2>3
    <3>2. t \in TakenBy[n] /\ old'[t] = old[t]
      BY <3>1 DEF TakenNode
    <3>3. TakenNode(n, t)'
      BY <1>1, <3>1, <3>2 DEF TakenNode
    <3> QED
      BY <2>3, <3>3
  <2> QED
    BY <2>2, <2>3
<1> QED
  BY <1>2, <1>3, <1>4 DEF NodeState

\* Neither the stack nor the groups of a node change.
LEMMA QuietStep ==
    ASSUME TypeOK, OneWay, StackCounts, OwnNodes, NodeStates,
           head'.ptr = head.ptr, head.ptr # Null => head' = head,
           UNCHANGED <<internal, next, live, node>>,
           \A n \in Address : /\ HeldBy'[n] = HeldBy[n]
                              /\ TakenBy'[n] = TakenBy[n]
                              /\ DeletedBy'[n] = DeletedBy[n]
                              /\ \A u \in TakenBy[n] : old'[u] = old[u]
    PROVE  OneWay' /\ StackCounts' /\ OwnNodes' /\ NodeStates'
<1>1. Stacked' = Stacked /\ Fresh' = Fresh
  BY DEF Stacked, Fresh
<1>2. OneWay' /\ OwnNodes'
  BY <1>1 DEF OneWay, OwnNodes
<1>3. StackCounts'
  <2>1. \A n \in Address : Refs'[n] = Refs[n] /\ internal'[n] = internal[n]
    BY RefsStep
  <2>2. Counts(head)'
    <3> SUFFICES ASSUME head'.ptr # Null
                 PROVE  internal'[head'.ptr] + head'.count = Refs'[head'.ptr] + 1
      BY DEF Counts
    <3>1. head' = head /\ head.ptr \in Address
      BY DEF TypeOK, Counted
    <3> QED
      BY <2>1, <3>1 DEF StackCounts, Counts
  <2>3. ASSUME NEW m \in Stacked PROVE Counts(next[m])'
    <3> SUFFICES ASSUME next[m].ptr # Null
                 PROVE  internal'[next[m].ptr] + next[m].count = Refs'[next[m].ptr] + 1
      BY DEF Counts
    <3>1. next[m].ptr \in Address
      BY StackShape DEF TypeOK, Counted
    <3> QED
      BY <2>1, <3>1 DEF StackCounts, Counts
  <2> QED
    BY <1>1, <2>2, <2>3 DEF StackCounts
<1>4. NodeStates'
  BY <1>1, SameNode DEF NodeStates
<1> QED
  BY <1>2, <1>3, <1>4
------------------------------------------------------------------------------
(* Every step keeps the types.                                              *)

\* One more is counted, or the count starts again.
LEMMA CountUp ==
    ASSUME NEW p \in Address \cup {Null}, NEW c \in 0 .. CountLimit - 1
    PROVE  /\ Ptr(p, c + 1) \in Counted /\ Ptr(p, c + 1).ptr = p
           /\ Ptr(p, c + 1).count = IF c + 1 < CountLimit THEN c + 1 ELSE 0
<1>1. CountLimit \in Nat /\ CountLimit > 1
  BY StackAssumption
<1>2. (c + 1) % CountLimit = IF c + 1 < CountLimit THEN c + 1 ELSE 0
  <2>1. CASE c + 1 < CountLimit
    BY <1>1, <2>1
  <2>2. CASE c + 1 = CountLimit
    BY <1>1, <2>2
  <2> QED
    BY <1>1, <2>1, <2>2
<1> QED
  BY <1>1, <1>2 DEF Ptr, Counted

LEMMA CountOne ==
    ASSUME NEW p \in Address \cup {Null}
    PROVE  /\ Ptr(p, 1) \in Counted /\ Ptr(p, 1).ptr = p /\ Ptr(p, 1).count = 1
           /\ Ptr(p, 0) \in Counted /\ Ptr(p, 0).ptr = p
<1>1. CountLimit \in Nat /\ CountLimit > 1
  BY StackAssumption
<1>2. 1 % CountLimit = 1 /\ 0 % CountLimit = 0
  BY <1>1
<1> QED
  BY <1>1, <1>2 DEF Ptr, Counted

LEMMA InvInit == Init => IInv
<1> SUFFICES ASSUME Init PROVE IInv
  OBVIOUS
<1> USE StackAssumption
<1>1. TypeOK
  <2>1. EarlierPops % CountLimit \in 0 .. CountLimit - 1
    OBVIOUS
  <2>2. head \in Counted
    BY <2>1 DEF Init, Ptr, Counted
  <2> QED
    BY <2>2, CountOne DEF Init, TypeOK, Steps
<1>2. Stacked = {}
  <2>1. head.ptr = Null /\ \A n \in Address : next[n].ptr = Null
    BY CountOne DEF Init, Ptr
  <2>2. Stacked \subseteq Address
    BY <1>1, StackShape
  <2>3. \A n \in Stacked : FALSE
    BY <1>1, <2>1, <2>2, StackShape
  <2> QED
    BY <2>3
<1>3. \A n \in Address : HeldBy[n] = {} /\ TakenBy[n] = {} /\ DeletedBy[n] = {}
  BY GroupMember DEF Init, Holding
<1>4. Local /\ OwnerLast
  BY DEF Init, Local, OwnerLast, Holding, Ptr
<1>5. OneWay /\ StackCounts
  BY <1>2 DEF Init, OneWay, StackCounts, Counts, Ptr
<1>6. OwnNodes /\ NodeStates
  BY <1>2, <1>3 DEF Init, OwnNodes, NodeStates, NodeState, Fresh
<1> QED
  BY <1>1, <1>4, <1>5, <1>6 DEF IInv

LEMMA TypeMakeNode == ASSUME IInv, NEW t \in Threads, MakeNode(t) PROVE TypeOK'
<1> USE StackAssumption
<1>1. t \in Users /\ left[t] \in 1 .. Times
  BY DEF IInv, TypeOK, OwnerLast, MakeNode
<1>2. <<t, left[t]>> \in Value
  BY <1>1 DEF Value
<1>3. PICK n \in Address \ live :
         /\ node' = [node EXCEPT ![t] = n]
         /\ live' = live \cup {n}
         /\ data' = [data EXCEPT ![n] = <<t, left[t]>>]
         /\ internal' = [internal EXCEPT ![n] = 0]
         /\ next' = [next EXCEPT ![n] = head]
  BY DEF MakeNode
<1>4. data' \in [Address -> Value \cup {None}]
  BY <1>2, <1>3 DEF IInv, TypeOK
<1>5. /\ pc' \in [Threads -> Steps] /\ left' \in [Threads -> 0 .. Times]
      /\ UNCHANGED <<head, old, ptr, succ, got>>
  BY <1>1 DEF IInv, TypeOK, MakeNode, Goto, Steps
<1>6. /\ node' \in [Threads -> Address \cup {Null}] /\ live' \in SUBSET Address
      /\ internal' \in [Address -> Int] /\ next' \in [Address -> Counted]
  BY <1>3 DEF IInv, TypeOK
<1> QED
  BY <1>4, <1>5, <1>6 DEF IInv, TypeOK

LEMMA TypeLink ==
    ASSUME IInv, NEW t \in Threads, LinkNode(t) \/ Relink(t) PROVE TypeOK'
<1>1. CASE LinkNode(t)
  BY <1>1, CountOne DEF IInv, TypeOK, Local, LinkNode, Goto, Steps
<1>2. CASE Relink(t)
  BY <1>2 DEF IInv, TypeOK, Local, Relink
<1> QED
  BY <1>1, <1>2

LEMMA TypeIncrease ==
    ASSUME IInv, NEW t \in Threads, LoadHead(t) \/ IncreaseHeadCount(t) \/ IncreaseAgain(t)
    PROVE  TypeOK'
<1>1. CASE LoadHead(t)
  <2>1. t # Owner => left[t] > 0
    BY <1>1 DEF LoadHead
  <2>2. left' \in [Threads -> 0 .. Times]
    BY <1>1, <2>1, StackAssumption DEF IInv, TypeOK, LoadHead
  <2>3. pc' \in [Threads -> Steps] /\ old' \in [Threads -> Counted]
    BY <1>1 DEF IInv, TypeOK, LoadHead, Goto, Steps
  <2> QED
    BY <1>1, <2>2, <2>3 DEF IInv, TypeOK, LoadHead
<1>2. CASE IncreaseHeadCount(t)
  <2>1. head.ptr \in Address \cup {Null} /\ head.count \in 0 .. CountLimit - 1
    BY DEF IInv, TypeOK, Counted
  <2>2. Ptr(head.ptr, head.count + 1) \in Counted
    BY <2>1, CountUp
  <2>3. head' \in Counted /\ old' \in [Threads -> Counted]
    BY <1>2, <2>2 DEF IInv, TypeOK, IncreaseHeadCount
  <2>4. pc' \in [Threads -> Steps] /\ ptr' \in [Threads -> Address \cup {Null}]
    BY <1>2, <2>1 DEF IInv, TypeOK, IncreaseHeadCount, Goto, Steps, Holding
  <2>5. got' \in [Threads -> Value \cup {None, Empty}]
    BY <1>2 DEF IInv, TypeOK, IncreaseHeadCount
  <2> QED
    BY <1>2, <2>3, <2>4, <2>5 DEF IInv, TypeOK, IncreaseHeadCount
<1>3. CASE IncreaseAgain(t)
  BY <1>3 DEF IInv, TypeOK, IncreaseAgain
<1> QED
  BY <1>1, <1>2, <1>3

LEMMA TypeTake ==
    ASSUME IInv, NEW t \in Threads,
           ReadNext(t) \/ TakeNode(t) \/ LoseNode(t) \/ SwapData(t)
    PROVE  TypeOK'
<1>1. pc[t] \in Holding => ptr[t] \in Address
  BY DEF IInv, TypeOK, Local
<1>2. CASE ReadNext(t)
  BY <1>1, <1>2 DEF IInv, TypeOK, ReadNext, Goto, Steps, Holding
<1>3. CASE TakeNode(t)
  BY <1>3 DEF IInv, TypeOK, TakeNode, Goto, Steps, Holding
<1>4. CASE LoseNode(t)
  BY <1>4 DEF IInv, TypeOK, LoseNode, Goto, Steps, Holding
<1>5. CASE SwapData(t)
  BY <1>1, <1>5 DEF IInv, TypeOK, SwapData, Goto, Steps, Holding
<1> QED
  BY <1>2, <1>3, <1>4, <1>5

LEMMA TypeSettle ==
    ASSUME IInv, NEW t \in Threads,
           Settle(t) \/ GiveBack(t) \/ DeleteNode(t) \/ Return(t)
    PROVE  TypeOK'
<1>1. pc[t] \in Holding => ptr[t] \in Address
  BY DEF IInv, TypeOK, Local
<1>2. CASE Settle(t)
  <2>1. old[t].count \in Int
    BY StackAssumption DEF IInv, TypeOK, Counted
  <2>2. internal' \in [Address -> Int]
    BY <1>1, <1>2, <2>1 DEF IInv, TypeOK, Settle, Goto, Holding
  <2> QED
    BY <1>2, <2>2 DEF IInv, TypeOK, Settle, Goto, Steps
<1>3. CASE GiveBack(t)
  BY <1>1, <1>3 DEF IInv, TypeOK, GiveBack, Goto, Steps, Holding
<1>4. CASE DeleteNode(t)
  BY <1>4 DEF IInv, TypeOK, DeleteNode, Goto, Steps
<1>5. CASE Return(t)
  BY <1>5, CountOne DEF IInv, TypeOK, Return, Goto, Steps
<1> QED
  BY <1>2, <1>3, <1>4, <1>5
------------------------------------------------------------------------------
(* Every step keeps what the threads know.                                  *)

Touching == Holding \cup {"deleteTaken", "deleteLost"}

LEMMA LocalStep ==
    ASSUME Local, NEW t \in Threads,
           \A u \in Threads : u # t =>
               /\ pc'[u] = pc[u] /\ node'[u] = node[u] /\ ptr'[u] = ptr[u]
               /\ old'[u] = old[u] /\ succ'[u] = succ[u]
               /\ pc[u] \in Touching =>
                      ptr[u] \in live' /\ next'[ptr[u]] = next[ptr[u]],
           pc'[t] = "link" <=> node'[t] # Null,
           pc'[t] \in Touching => ptr'[t] \in live',
           pc'[t] \in {"peek", "exchange", "swap", "settle"} => old'[t].ptr = ptr'[t],
           pc'[t] = "exchange" => succ'[t] = next'[ptr'[t]]
    PROVE  Local'
BY DEF Local, Touching, Holding

\* A node that a thread touches is none that another has yet to link.
LEMMA TouchedNode ==
    ASSUME IInv, NEW t \in Threads, pc[t] \in Touching
    PROVE  /\ ptr[t] \in Address /\ ptr[t] \in live /\ ptr[t] \notin Fresh
           /\ NodeState(ptr[t])
<1>1. ptr[t] \in live /\ ptr[t] \in Address
  BY DEF IInv, TypeOK, Local, Touching
<1>2. t \in HeldBy[ptr[t]] \/ t \in DeletedBy[ptr[t]]
  BY <1>1, GroupMember DEF Touching
<1> QED
  BY <1>1, <1>2 DEF IInv, NodeStates, NodeState, FreshNode

LEMMA LocalPush ==
    ASSUME IInv, TypeOK', NEW t \in Threads, MakeNode(t) \/ LinkNode(t) \/ Relink(t)
    PROVE  Local'
<1> USE StackAssumption
<1>1. /\ UNCHANGED <<ptr, old, succ>> /\ live \subseteq live'
      /\ pc[t] \notin Touching /\ pc'[t] \notin Touching
      /\ \A u \in Threads : u # t => pc'[u] = pc[u] /\ node'[u] = node[u]
      /\ pc'[t] = "link" <=> node'[t] # Null
  BY DEF IInv, TypeOK, Local, MakeNode, LinkNode, Relink, Goto, Touching, Holding
<1>2. ASSUME NEW u \in Threads, pc[u] \in Touching
      PROVE  ptr[u] \in live' /\ next'[ptr[u]] = next[ptr[u]]
  <2>1. ptr[u] \in Address /\ ptr[u] \in live /\ ptr[u] \notin Fresh
    BY <1>2, TouchedNode
  <2>2. ptr[u] # node[t]
    BY <2>1 DEF Fresh
  <2> QED
    BY <1>1, <2>1, <2>2 DEF IInv, TypeOK, MakeNode, LinkNode, Relink
<1> QED
  BY <1>1, <1>2, LocalStep DEF IInv, Touching, Holding

LEMMA LocalTake ==
    ASSUME IInv, NEW t \in Threads,
           \/ LoadHead(t) \/ IncreaseHeadCount(t) \/ IncreaseAgain(t) \/ ReadNext(t)
           \/ TakeNode(t) \/ LoseNode(t) \/ SwapData(t)
    PROVE  Local'
<1> USE StackAssumption
<1>1. /\ UNCHANGED <<live, next, node>>
      /\ \A u \in Threads : u # t =>
            /\ pc'[u] = pc[u] /\ ptr'[u] = ptr[u]
            /\ old'[u] = old[u] /\ succ'[u] = succ[u]
  BY DEF IInv, TypeOK, LoadHead, IncreaseHeadCount, IncreaseAgain, ReadNext,
         TakeNode, LoseNode, SwapData, Goto
<1>2. \A u \in Threads : pc[u] \in Touching => ptr[u] \in live
  BY DEF IInv, Local, Touching
<1>3. /\ pc[t] # "link" /\ pc'[t] # "link" /\ node[t] = Null
  BY DEF IInv, TypeOK, Local, LoadHead, IncreaseHeadCount, IncreaseAgain,
         ReadNext, TakeNode, LoseNode, SwapData, Goto
<1>4. CASE LoadHead(t) \/ IncreaseAgain(t)
  <2>1. pc'[t] = "increase"
    BY <1>4 DEF IInv, TypeOK, LoadHead, IncreaseAgain, Goto
  <2> QED
    BY <1>1, <1>2, <1>3, <2>1, LocalStep DEF IInv, Touching, Holding
<1>5. CASE IncreaseHeadCount(t)
  <2>1. CASE head.ptr = Null
    <3>1. pc'[t] = "return"
      BY <1>5, <2>1 DEF IInv, TypeOK, IncreaseHeadCount, Goto
    <3> QED
      BY <1>1, <1>2, <1>3, <3>1, LocalStep DEF IInv, Touching, Holding
  <2>2. CASE head.ptr # Null
    <3>1. pc'[t] = "peek" /\ ptr'[t] = head.ptr /\ old'[t].ptr = head.ptr
      BY <1>5, <2>2 DEF IInv, TypeOK, IncreaseHeadCount, Goto, Ptr
    <3>2. head.ptr \in live
      BY <2>2, StackShape DEF IInv, NodeStates, NodeState, StackedNode
    <3> QED
      BY <1>1, <1>2, <1>3, <3>1, <3>2, LocalStep DEF IInv, Touching, Holding
  <2> QED
    BY <2>1, <2>2
<1>6. CASE ReadNext(t) \/ TakeNode(t) \/ LoseNode(t) \/ SwapData(t)
  <2>1. /\ pc[t] \in Holding /\ pc'[t] \in Holding /\ ptr'[t] = ptr[t]
        /\ pc'[t] \in {"exchange", "swap", "settle"} =>
              old'[t] = old[t] /\ pc[t] \in {"peek", "exchange", "swap", "settle"}
        /\ pc'[t] # "peek"
        /\ pc'[t] = "exchange" => succ'[t] = next[ptr[t]]
    BY <1>6 DEF IInv, TypeOK, ReadNext, TakeNode, LoseNode, SwapData, Goto, Holding
  <2>2. pc'[t] \in {"exchange", "swap", "settle"} => old[t].ptr = ptr[t]
    BY <2>1 DEF IInv, Local
  <2> QED
    BY <1>1, <1>2, <1>3, <2>1, <2>2, LocalStep DEF IInv, Touching, Holding
<1> QED
  BY <1>4, <1>5, <1>6

\* Who deletes a node is alone with it.
LEMMA DeleterAlone ==
    ASSUME IInv, NEW t \in Threads, pc[t] \in {"deleteTaken", "deleteLost"}
    PROVE  /\ ptr[t] \in live /\ ptr[t] \in Address
           /\ ptr[t] \notin Stacked /\ ptr[t] \notin Fresh
           /\ \A u \in Threads : pc[u] \in Touching /\ ptr[u] = ptr[t] => u = t
<1> DEFINE n == ptr[t]
<1>1. n \in live /\ n \in Address /\ n \notin Fresh /\ NodeState(n)
  BY TouchedNode DEF Touching
<1>2. t \in DeletedBy[n]
  BY <1>1, GroupMember
<1>3. n \notin Stacked /\ TakenBy[n] = {} /\ SettledNode(n)
  BY <1>1, <1>2 DEF NodeState, StackedNode, TakenNode
<1>4. HeldBy[n] = {} /\ DeletedBy[n] = {t}
  BY <1>1, <1>2, <1>3, RefsAreNat DEF SettledNode
<1>5. ASSUME NEW u \in Threads, pc[u] \in Touching, ptr[u] = n PROVE u = t
  <2>1. u \in HeldBy[n] \/ u \in DeletedBy[n]
    BY <1>1, <1>5, GroupMember DEF Touching
  <2> QED
    BY <1>4, <2>1
<1> QED
  BY <1>1, <1>3, <1>5

LEMMA LocalSettle ==
    ASSUME IInv, NEW t \in Threads,
           Settle(t) \/ GiveBack(t) \/ DeleteNode(t) \/ Return(t)
    PROVE  Local'
<1> USE StackAssumption
<1>1. /\ UNCHANGED <<next, node>>
      /\ \A u \in Threads : u # t =>
            /\ pc'[u] = pc[u] /\ ptr'[u] = ptr[u]
            /\ old'[u] = old[u] /\ succ'[u] = succ[u]
  BY DEF IInv, TypeOK, Settle, GiveBack, DeleteNode, Return, Goto
<1>2. \A u \in Threads : pc[u] \in Touching => ptr[u] \in live
  BY DEF IInv, Local, Touching
<1>3. /\ pc[t] # "link" /\ pc'[t] # "link" /\ node[t] = Null
      /\ pc'[t] \notin Holding
  BY DEF IInv, TypeOK, Local, Settle, GiveBack, DeleteNode, Return, Goto, Holding
<1>4. pc'[t] \in Touching => /\ pc[t] \in Touching /\ ptr'[t] = ptr[t]
                             /\ ~DeleteNode(t)
  BY <1>3 DEF IInv, TypeOK, Settle, GiveBack, DeleteNode, Return, Goto, Touching, Holding
<1>5. \A u \in Threads : u # t /\ pc[u] \in Touching => ptr[u] \in live'
  <2>1. CASE DeleteNode(t)
    <3>1. pc[t] \in {"deleteTaken", "deleteLost"} /\ live' = live \ {ptr[t]}
      BY <2>1 DEF DeleteNode, Goto
    <3> QED
      BY <1>2, <3>1, DeleterAlone
  <2>2. CASE ~DeleteNode(t)
    <3>1. live' = live
      BY <2>2 DEF Settle, GiveBack, Return
    <3> QED
      BY <1>2, <3>1
  <2> QED
    BY <2>1, <2>2
<1>6. pc'[t] \in Touching => ptr'[t] \in live'
  <2> SUFFICES ASSUME pc'[t] \in Touching PROVE ptr'[t] \in live'
    OBVIOUS
  <2>1. live' = live
    BY <1>4 DEF Settle, GiveBack, Return
  <2> QED
    BY <1>2, <1>4, <2>1
<1> QED
  BY <1>1, <1>3, <1>5, <1>6, LocalStep DEF IInv, Touching, Holding
------------------------------------------------------------------------------
(* Every step keeps the counts and the states of the nodes.                 *)

StackState == OneWay /\ StackCounts /\ OwnNodes /\ NodeStates

\* Most steps of a pop change neither the stack nor who holds what.
LEMMA QuietPop ==
    ASSUME IInv, NEW t \in Threads,
           LoadHead(t) \/ IncreaseAgain(t) \/ ReadNext(t) \/ LoseNode(t)
               \/ SwapData(t) \/ Return(t)
    PROVE  StackState'
<1>1. /\ UNCHANGED <<head, internal, next, live, node>>
      /\ \A u \in Threads : u # t => /\ pc'[u] = pc[u] /\ ptr'[u] = ptr[u]
                                   /\ old'[u] = old[u]
  BY DEF IInv, TypeOK, LoadHead, IncreaseAgain, ReadNext, LoseNode, SwapData,
         Return, Goto
<1>2. /\ pc'[t] \in Holding <=> pc[t] \in Holding
      /\ pc'[t] \in {"swap", "settle"} <=> pc[t] \in {"swap", "settle"}
      /\ pc'[t] \notin {"deleteTaken", "deleteLost"}
      /\ pc[t] \notin {"deleteTaken", "deleteLost"}
      /\ pc[t] \in Holding => ptr'[t] = ptr[t]
      /\ pc[t] \in {"swap", "settle"} => old'[t] = old[t]
  BY DEF IInv, TypeOK, LoadHead, IncreaseAgain, ReadNext, LoseNode, SwapData,
         Return, Goto, Holding
<1>3. ASSUME NEW n \in Address
      PROVE  /\ HeldBy'[n] = HeldBy[n] /\ TakenBy'[n] = TakenBy[n]
             /\ DeletedBy'[n] = DeletedBy[n]
             /\ \A u \in TakenBy[n] : old'[u] = old[u]
  <2>1. /\ HeldBy'[n] = IF ptr'[t] = n /\ pc'[t] \in Holding
                        THEN HeldBy[n] \cup {t} ELSE HeldBy[n] \ {t}
        /\ TakenBy'[n] = IF ptr'[t] = n /\ pc'[t] \in {"swap", "settle"}
                         THEN TakenBy[n] \cup {t} ELSE TakenBy[n] \ {t}
        /\ DeletedBy'[n] =
              IF ptr'[t] = n /\ pc'[t] \in {"deleteTaken", "deleteLost"}
              THEN DeletedBy[n] \cup {t} ELSE DeletedBy[n] \ {t}
    <3>1. \A u \in Threads : u # t => pc'[u] = pc[u] /\ ptr'[u] = ptr[u]
      BY <1>1
    <3> QED
      BY <3>1, GroupsStep
  <2>2. /\ t \in HeldBy[n] <=> ptr[t] = n /\ pc[t] \in Holding
        /\ t \in TakenBy[n] <=> ptr[t] = n /\ pc[t] \in {"swap", "settle"}
        /\ t \notin DeletedBy[n] /\ TakenBy[n] \subseteq Threads
    BY <1>2, GroupMember
  <2>3. HeldBy'[n] = HeldBy[n]
    BY <1>2, <2>1, <2>2
  <2>4. TakenBy'[n] = TakenBy[n]
    <3>1. pc[t] \in {"swap", "settle"} => ptr'[t] = ptr[t]
      BY <1>2 DEF Holding
    <3>2. CASE t \in TakenBy[n]
      <4>1. TakenBy'[n] = TakenBy[n] \cup {t}
        BY <1>2, <2>1, <2>2, <3>1, <3>2
      <4> QED
        BY <3>2, <4>1
    <3>3. CASE t \notin TakenBy[n]
      <4>1. TakenBy'[n] = TakenBy[n] \ {t}
        BY <1>2, <2>1, <2>2, <3>1, <3>3
      <4> QED
        BY <3>3, <4>1
    <3> QED
      BY <3>2, <3>3
  <2>5. DeletedBy'[n] = DeletedBy[n]
    BY <1>2, <2>1, <2>2
  <2>6. \A u \in TakenBy[n] : old'[u] = old[u]
    BY <1>1, <1>2, <2>2
  <2> QED
    BY <2>3, <2>4, <2>5, <2>6
<1> QED
  BY <1>1, <1>3, QuietStep DEF IInv, StackState

\* The nodes of the stack are as they were, and nothing is put on it or taken.
LEMMA SameStack ==
    ASSUME TypeOK, OneWay, StackCounts, head' = head, Stacked' = Stacked,
           \A m \in Stacked : /\ next'[m] = next[m] /\ internal'[m] = internal[m]
                              /\ HeldBy'[m] = HeldBy[m]
    PROVE  OneWay' /\ StackCounts'
<1>1. OneWay'
  BY DEF OneWay
<1>2. \A m \in Stacked : Refs'[m] = Refs[m]
  BY RefsStep, StackShape
<1>3. Counts(head)'
  BY <1>2, StackShape DEF StackCounts, Counts
<1>4. ASSUME NEW m \in Stacked PROVE Counts(next[m])'
  <2> SUFFICES ASSUME next'[m].ptr # Null
               PROVE  internal'[next'[m].ptr] + next'[m].count = Refs'[next'[m].ptr] + 1
    BY DEF Counts
  <2>1. next'[m] = next[m] /\ next[m].ptr \in Stacked
    BY StackShape
  <2> QED
    BY <1>2, <2>1 DEF StackCounts, Counts
<1> QED
  BY <1>1, <1>3, <1>4 DEF StackCounts

\* A thread that touches no node, before or after, changes no group.
LEMMA GroupsKept ==
    ASSUME NEW t \in Threads, pc[t] \notin Touching, pc'[t] \notin Touching,
           \A u \in Threads : u # t => pc'[u] = pc[u] /\ ptr'[u] = ptr[u]
    PROVE  \A n \in Address : /\ HeldBy'[n] = HeldBy[n] /\ TakenBy'[n] = TakenBy[n]
                              /\ DeletedBy'[n] = DeletedBy[n]
<1> SUFFICES ASSUME NEW n \in Address
             PROVE  /\ HeldBy'[n] = HeldBy[n] /\ TakenBy'[n] = TakenBy[n]
                    /\ DeletedBy'[n] = DeletedBy[n]
  OBVIOUS
<1>1. /\ pc[t] \notin Holding /\ pc'[t] \notin Holding
      /\ pc[t] \notin {"swap", "settle"} /\ pc'[t] \notin {"swap", "settle"}
      /\ pc[t] \notin {"deleteTaken", "deleteLost"}
      /\ pc'[t] \notin {"deleteTaken", "deleteLost"}
  BY DEF Touching, Holding
<1>2. t \notin HeldBy[n] /\ t \notin TakenBy[n] /\ t \notin DeletedBy[n]
  BY <1>1, GroupMember
<1>3. /\ HeldBy'[n] = HeldBy[n] \ {t} /\ TakenBy'[n] = TakenBy[n] \ {t}
      /\ DeletedBy'[n] = DeletedBy[n] \ {t}
  BY <1>1, GroupsStep
<1> QED
  BY <1>2, <1>3

\* push makes a node that nobody knows.
LEMMA MakeNodeStep ==
    ASSUME IInv, NEW t \in Threads, MakeNode(t) PROVE StackState'
<1>1. PICK a \in Address \ live :
         /\ node' = [node EXCEPT ![t] = a]
         /\ live' = live \cup {a}
         /\ internal' = [internal EXCEPT ![a] = 0]
         /\ next' = [next EXCEPT ![a] = head]
  BY DEF MakeNode
<1>2. /\ UNCHANGED <<head, old>> /\ node[t] = Null /\ node'[t] = a
      /\ \A u \in Threads : u # t => node'[u] = node[u]
      /\ \A u \in Threads : u # t => pc'[u] = pc[u] /\ ptr'[u] = ptr[u]
      /\ pc[t] = "idle" /\ pc'[t] = "link" /\ a # Null
      /\ internal'[a] = 0 /\ \A n \in Address : n # a => internal'[n] = internal[n]
      /\ \A n \in Address : n # a => next'[n] = next[n]
  BY <1>1, StackAssumption DEF IInv, TypeOK, Local, MakeNode, Goto
<1>3. /\ Stacked \subseteq live /\ Stacked \subseteq Address /\ a \notin Stacked
      /\ a \notin Fresh /\ NodeState(a)
  BY StackShape DEF IInv, NodeStates, NodeState, StackedNode, FreshNode
<1>4. Stacked' = Stacked
  <2> DEFINE below == [n \in Address |-> next[n].ptr]
             after == [n \in Address |-> next'[n].ptr]
  <2>1. /\ head.ptr \in Address \cup {Null}
        /\ below \in [Address -> Address \cup {Null}]
        /\ after \in [Address -> Address \cup {Null}]
    BY <1>1 DEF IInv, TypeOK, Counted
  <2>2. \A m \in Stacked : after[m] = below[m]
    BY <1>2, <1>3
  <2>3. Stacked = Reached(head.ptr, below, Null) /\ Stacked' = Reached(head.ptr, after, Null)
    BY <1>2 DEF Stacked
  <2> HIDE DEF below, after
  <2> QED
    BY <2>1, <2>2, <2>3, ReachedSame
<1>5. \A n \in Address : /\ HeldBy'[n] = HeldBy[n] /\ TakenBy'[n] = TakenBy[n]
                          /\ DeletedBy'[n] = DeletedBy[n]
  <2>1. pc[t] \notin Touching /\ pc'[t] \notin Touching
    BY <1>2 DEF Touching, Holding
  <2>2. \A u \in Threads : u # t => pc'[u] = pc[u] /\ ptr'[u] = ptr[u]
    BY <1>2
  <2> QED
    BY <2>1, <2>2, GroupsKept
<1>6. OneWay' /\ StackCounts'
  <2>1. \A m \in Stacked : /\ next'[m] = next[m] /\ internal'[m] = internal[m]
                            /\ HeldBy'[m] = HeldBy[m]
    BY <1>2, <1>3, <1>5
  <2> QED
    BY <1>2, <1>4, <2>1, SameStack DEF IInv
<1>7. OwnNodes'
  BY <1>2, <1>3 DEF IInv, OwnNodes, Fresh
<1>8. \A n \in Address : n \in Fresh' <=> n \in Fresh \/ n = a
  <2>1. \A n \in Address : n \in Fresh <=> \E u \in Threads : u # t /\ node[u] = n
    BY <1>2, StackAssumption DEF Fresh
  <2>2. \A n \in Address : n \in Fresh' <=> \E u \in Threads : node'[u] = n
    BY DEF Fresh
  <2> QED
    BY <1>2, <2>1, <2>2
<1>9. NodeState(a)'
  <2>1. HeldBy[a] = {} /\ DeletedBy[a] = {}
    BY <1>1, GroupMember DEF IInv, Local
  <2>2. FreshNode(a)'
    BY <1>1, <1>2, <1>3, <1>4, <1>5, <2>1 DEF FreshNode
  <2> QED
    BY <1>3, <1>4, <1>8, <2>2 DEF NodeState
<1>10. ASSUME NEW n \in Address, n # a PROVE NodeState(n)'
  <2>1. NodeState(n) /\ live' \cap {n} = live \cap {n}
    BY <1>1, <1>10 DEF IInv, NodeStates
  <2> QED
    BY <1>2, <1>4, <1>5, <1>8, <1>10, <2>1, SameNode
<1> QED
  BY <1>6, <1>7, <1>9, <1>10 DEF NodeStates, StackState

\* The exchange of push puts the node on the stack, with the count one.
LEMMA LinkNodeStep ==
    ASSUME IInv, NEW t \in Threads, LinkNode(t) PROVE StackState'
<1>0. PICK a \in Address : a = node[t]
  BY DEF IInv, TypeOK, Local, LinkNode, Goto
<1>1. /\ UNCHANGED <<old, next, live, internal, ptr>> /\ node'[t] = Null
      /\ \A u \in Threads : u # t => node'[u] = node[u] /\ pc'[u] = pc[u]
      /\ pc[t] = "link" /\ pc'[t] = "idle" /\ a # Null
      /\ next[a] = head /\ head' = Ptr(a, 1)
  BY <1>0, StackAssumption DEF IInv, TypeOK, LinkNode, Goto
<1>2. head'.ptr = a /\ head'.count = 1
  BY <1>1, CountOne
<1>3. FreshNode(a) /\ a \in Fresh
  BY <1>0 DEF IInv, NodeStates, NodeState, Fresh
<1>4. Stacked' = Stacked \cup {a}
  <2> DEFINE below == [n \in Address |-> next[n].ptr]
  <2>1. /\ head.ptr \in Address \cup {Null} /\ Null \notin Address
        /\ below \in [Address -> Address \cup {Null}] /\ below[a] = head.ptr
    BY <1>1, StackAssumption DEF IInv, TypeOK, Counted
  <2>2. Stacked = Reached(head.ptr, below, Null) /\ Stacked' = Reached(a, below, Null)
    BY <1>1, <1>2 DEF Stacked
  <2> HIDE DEF below
  <2> QED
    BY <1>1, <2>1, <2>2, ReachedPush
<1>5. \A n \in Address : /\ HeldBy'[n] = HeldBy[n] /\ TakenBy'[n] = TakenBy[n]
                          /\ DeletedBy'[n] = DeletedBy[n]
  <2>1. pc[t] \notin Touching /\ pc'[t] \notin Touching
    BY <1>1 DEF Touching, Holding
  <2>2. \A u \in Threads : u # t => pc'[u] = pc[u] /\ ptr'[u] = ptr[u]
    BY <1>1
  <2> QED
    BY <2>1, <2>2, GroupsKept
<1>6. \A n \in Address : Refs'[n] = Refs[n]
  BY <1>5, RefsStep
<1>7. OneWay'
  <2>1. \A m \in Stacked : next[m].ptr # a
    BY <1>1, <1>3, StackShape DEF IInv, FreshNode
  <2>2. next[a].ptr # a
    BY <1>1, <1>3, StackShape DEF IInv, FreshNode
  <2> QED
    BY <1>1, <1>2, <1>4, <2>1, <2>2 DEF IInv, OneWay
<1>8. StackCounts'
  <2>1. Counts(head)'
    <3>1. Refs[a] = 0 /\ internal[a] = 0
      BY <1>1, <1>3, RefsAreNat DEF FreshNode
    <3> QED
      BY <1>1, <1>2, <1>6, <3>1 DEF Counts
  <2>2. ASSUME NEW m \in Stacked \cup {a} PROVE Counts(next[m])'
    <3>1. Counts(next[m])
      BY <1>1, <2>2 DEF IInv, StackCounts
    <3>2. next[m].ptr \in Address \cup {Null}
      BY <1>1, <2>2, StackShape DEF IInv, TypeOK, Counted
    <3> QED
      BY <1>1, <1>6, <3>1, <3>2 DEF Counts
  <2> QED
    BY <1>4, <2>1, <2>2 DEF StackCounts
<1>9. OwnNodes'
  BY <1>1 DEF IInv, OwnNodes
<1>10. \A n \in Address : n \in Fresh' <=> n \in Fresh /\ n # a
  <2>1. \A u \in Threads : node[u] = a => u = t
    BY <1>0, <1>1 DEF IInv, OwnNodes
  <2> QED
    BY <1>0, <1>1, <2>1, StackAssumption DEF Fresh
<1>11. NodeState(a)'
  <2>1. TakenBy[a] = {}
    BY <1>0, <1>3, GroupMember DEF FreshNode
  <2>2. StackedNode(a)'
    BY <1>1, <1>3, <1>5, <2>1 DEF StackedNode, FreshNode
  <2> QED
    BY <1>1, <1>4, <1>10, <2>2 DEF NodeState
<1>12. ASSUME NEW n \in Address, n # a PROVE NodeState(n)'
  <2>1. NodeState(n) /\ live' \cap {n} = live \cap {n}
    BY <1>1 DEF IInv, NodeStates
  <2>2. n \in Stacked' <=> n \in Stacked
    BY <1>4, <1>12
  <2> QED
    BY <1>1, <1>5, <1>10, <1>12, <2>1, <2>2, SameNode
<1> QED
  BY <1>7, <1>8, <1>9, <1>11, <1>12 DEF NodeStates, StackState

\* A push that has to try again writes the node it has not linked yet.
LEMMA RelinkStep ==
    ASSUME IInv, NEW t \in Threads, Relink(t) PROVE StackState'
<1>0. PICK a \in Address : a = node[t] /\ a # Null
  BY StackAssumption DEF IInv, TypeOK, Local, Relink
<1>1. /\ UNCHANGED <<head, live, internal, node, pc, ptr, old>>
      /\ next' = [next EXCEPT ![a] = head]
  BY <1>0 DEF Relink
<1>2. /\ \A n \in Address : n # a => next'[n] = next[n]
      /\ \A n \in Address : next'[n] \in Counted
  BY <1>1 DEF IInv, TypeOK
<1>3. a \notin Stacked /\ Stacked \subseteq Address
  BY <1>0, StackShape DEF IInv, NodeStates, NodeState, FreshNode, Fresh
<1>4. Stacked' = Stacked /\ Fresh' = Fresh
  <2> DEFINE below == [n \in Address |-> next[n].ptr]
             after == [n \in Address |-> next'[n].ptr]
  <2>1. /\ head.ptr \in Address \cup {Null}
        /\ below \in [Address -> Address \cup {Null}]
        /\ after \in [Address -> Address \cup {Null}]
    BY <1>2 DEF IInv, TypeOK, Counted
  <2>2. \A m \in Stacked : after[m] = below[m]
    BY <1>2, <1>3
  <2>3. Stacked = Reached(head.ptr, below, Null) /\ Stacked' = Reached(head.ptr, after, Null)
    BY <1>1 DEF Stacked
  <2> HIDE DEF below, after
  <2>4. Stacked' = Stacked
    BY <2>1, <2>2, <2>3, ReachedSame
  <2> QED
    BY <1>1, <2>4 DEF Fresh
<1>5. \A n \in Address : /\ HeldBy'[n] = HeldBy[n] /\ TakenBy'[n] = TakenBy[n]
                          /\ DeletedBy'[n] = DeletedBy[n]
  BY <1>1 DEF HeldBy, Holders, TakenBy, Takers, DeletedBy, Deleters
<1>6. OneWay' /\ StackCounts'
  <2>1. \A m \in Stacked : /\ next'[m] = next[m] /\ internal'[m] = internal[m]
                            /\ HeldBy'[m] = HeldBy[m]
    BY <1>1, <1>2, <1>3, <1>5
  <2> QED
    BY <1>1, <1>4, <2>1, SameStack DEF IInv
<1>7. OwnNodes'
  BY <1>1 DEF IInv, OwnNodes
<1>8. ASSUME NEW n \in Address PROVE NodeState(n)'
  <2>1. NodeState(n) /\ live' \cap {n} = live \cap {n}
    BY <1>1 DEF IInv, NodeStates
  <2> QED
    BY <1>1, <1>4, <1>5, <2>1, SameNode
<1> QED
  BY <1>6, <1>7, <1>8 DEF NodeStates, StackState

\* A reference is taken and counted in the pointer at the top.
LEMMA IncreaseStep ==
    ASSUME IInv, NEW t \in Threads, IncreaseHeadCount(t), NoNodeWraps
    PROVE  StackState'
<1>1. /\ UNCHANGED <<live, internal, node, next>>
      /\ \A u \in Threads : u # t => /\ pc'[u] = pc[u] /\ ptr'[u] = ptr[u]
                                   /\ old'[u] = old[u]
      /\ pc[t] = "increase" /\ pc'[t] = IF head.ptr = Null THEN "return" ELSE "peek"
      /\ ptr'[t] = head.ptr /\ head' = Ptr(head.ptr, head.count + 1)
  BY DEF IInv, TypeOK, IncreaseHeadCount, Goto
<1>2. head.ptr \in Address \cup {Null} /\ head.count \in 0 .. CountLimit - 1
  BY DEF IInv, TypeOK, Counted
<1>3. /\ head'.ptr = head.ptr
      /\ head'.count = IF head.count + 1 < CountLimit THEN head.count + 1 ELSE 0
  BY <1>1, <1>2, CountUp
<1>4. Stacked' = Stacked /\ Fresh' = Fresh
  BY <1>1, <1>3 DEF Stacked, Fresh
<1>5. ASSUME NEW n \in Address
      PROVE  /\ HeldBy'[n] = IF n = head.ptr THEN HeldBy[n] \cup {t} ELSE HeldBy[n]
             /\ TakenBy'[n] = TakenBy[n] /\ DeletedBy'[n] = DeletedBy[n]
             /\ t \notin HeldBy[n] /\ \A u \in TakenBy[n] : old'[u] = old[u]
  <2>1. /\ HeldBy'[n] = IF ptr'[t] = n /\ pc'[t] \in Holding
                        THEN HeldBy[n] \cup {t} ELSE HeldBy[n] \ {t}
        /\ TakenBy'[n] = TakenBy[n] \ {t} /\ DeletedBy'[n] = DeletedBy[n] \ {t}
    <3>1. \A u \in Threads : u # t => pc'[u] = pc[u] /\ ptr'[u] = ptr[u]
      BY <1>1
    <3>2. pc'[t] \notin {"swap", "settle", "deleteTaken", "deleteLost"}
      BY <1>1
    <3> QED
      BY <3>1, <3>2, GroupsStep
  <2>2. /\ t \notin HeldBy[n] /\ t \notin TakenBy[n] /\ t \notin DeletedBy[n]
        /\ TakenBy[n] \subseteq Threads
    BY <1>1, GroupMember DEF Holding
  <2>3. HeldBy'[n] = IF n = head.ptr THEN HeldBy[n] \cup {t} ELSE HeldBy[n]
    BY <1>1, <2>1, <2>2, StackAssumption DEF Holding
  <2> QED
    BY <1>1, <2>1, <2>2, <2>3
<1>6. CASE head.ptr = Null
  <2>1. \A n \in Address : HeldBy'[n] = HeldBy[n]
    BY <1>5, <1>6, StackAssumption
  <2> QED
    BY <1>1, <1>3, <1>5, <1>6, <2>1, QuietStep DEF IInv, StackState
<1>7. CASE head.ptr # Null
  <2>1. PICK a \in Address : a = head.ptr
    BY <1>2, <1>7
  <2>2. a \in Stacked /\ NodeState(a)
    BY <1>7, <2>1, StackShape DEF IInv, NodeStates
  <2>3. head'.count = head.count + 1
    BY <1>2, <1>3, <1>7, StackAssumption DEF NoNodeWraps
  <2>4. /\ Refs'[a] = Refs[a] + 1
        /\ \A n \in Address : n # a => Refs'[n] = Refs[n]
    BY <1>5, <2>1, RefsStep
  <2>5. OneWay' /\ OwnNodes'
    BY <1>1, <1>3, <1>4 DEF IInv, OneWay, OwnNodes
  <2>6. StackCounts'
    <3>1. Counts(head)'
      <4>1. internal[a] + head.count = Refs[a] + 1 /\ internal[a] \in Int /\ Refs[a] \in Nat
        BY <1>7, <2>1, RefsAreNat DEF IInv, TypeOK, StackCounts, Counts
      <4> QED
        BY <1>1, <1>2, <1>3, <2>1, <2>3, <2>4, <4>1 DEF Counts
    <3>2. ASSUME NEW m \in Stacked PROVE Counts(next[m])'
      <4> SUFFICES ASSUME next[m].ptr # Null
                   PROVE  internal[next[m].ptr] + next[m].count = Refs'[next[m].ptr] + 1
        BY <1>1 DEF Counts
      <4>1. next[m].ptr # a /\ next[m].ptr \in Address
        BY <1>7, <2>1, StackShape DEF IInv, OneWay
      <4> QED
        BY <2>4, <4>1 DEF IInv, StackCounts, Counts
    <3> QED
      BY <1>1, <1>4, <3>1, <3>2 DEF StackCounts
  <2>7. NodeState(a)'
    <3>1. StackedNode(a)
      BY <2>2 DEF NodeState
    <3>2. StackedNode(a)'
      BY <1>1, <1>5, <3>1 DEF StackedNode
    <3>3. a \notin Fresh
      BY <2>2 DEF NodeState, FreshNode
    <3> QED
      BY <1>4, <2>2, <3>2, <3>3 DEF NodeState
  <2>8. ASSUME NEW n \in Address, n # a PROVE NodeState(n)'
    <3>1. NodeState(n) /\ live' \cap {n} = live \cap {n}
      BY <1>1 DEF IInv, NodeStates
    <3>2. HeldBy'[n] = HeldBy[n]
      BY <1>5, <2>1, <2>8
    <3> QED
      BY <1>1, <1>4, <1>5, <3>1, <3>2, SameNode
  <2> QED
    BY <2>5, <2>6, <2>7, <2>8 DEF NodeStates, StackState
<1> QED
  BY <1>6, <1>7

\* The exchange of pop takes the node at the top off the stack.
LEMMA TakeNodeStep ==
    ASSUME IInv, NEW t \in Threads, TakeNode(t) PROVE StackState'
<1>0. PICK a \in Address : a = ptr[t]
  BY DEF IInv, TypeOK, Local, TakeNode, Goto, Holding
<1>1. /\ UNCHANGED <<live, internal, node, next, old, ptr>>
      /\ \A u \in Threads : u # t => pc'[u] = pc[u]
      /\ pc[t] = "exchange" /\ pc'[t] = "swap" /\ head = old[t]
      /\ head.ptr = a /\ a # Null /\ head' = next[a]
  BY <1>0, StackAssumption DEF IInv, TypeOK, Local, TakeNode, Goto
<1>2. /\ a \in Stacked /\ NodeState(a) /\ StackedNode(a) /\ a \notin Fresh
      /\ Stacked \subseteq Address
  BY <1>1, StackShape DEF IInv, NodeStates, NodeState, FreshNode
<1>3. \A m \in Stacked : next[m].ptr # a
  BY <1>1 DEF IInv, OneWay
<1>4. Stacked' = Stacked \ {a} /\ Fresh' = Fresh
  <2> DEFINE below == [n \in Address |-> next[n].ptr]
  <2>1. Null \notin Address /\ below \in [Address -> Address \cup {Null}]
    BY StackAssumption DEF IInv, TypeOK, Counted
  <2>2. Stacked = Reached(a, below, Null) /\ Stacked' = Reached(below[a], below, Null)
    BY <1>1 DEF Stacked
  <2>3. \A m \in Stacked : below[m] # a
    BY <1>2, <1>3
  <2> HIDE DEF below
  <2>4. Stacked' = Stacked \ {a}
    BY <2>1, <2>2, <2>3, ReachedPop
  <2> QED
    BY <1>1, <2>4 DEF Fresh
<1>5. ASSUME NEW n \in Address
      PROVE  /\ HeldBy'[n] = HeldBy[n] /\ DeletedBy'[n] = DeletedBy[n]
             /\ TakenBy'[n] = IF n = a THEN {t} ELSE TakenBy[n]
  <2>1. \A u \in Threads : u # t => pc'[u] = pc[u] /\ ptr'[u] = ptr[u]
    BY <1>1
  <2>2. /\ pc'[t] \in {"swap", "settle"} /\ pc'[t] \in Holding
        /\ pc'[t] \notin {"deleteTaken", "deleteLost"} /\ ptr'[t] = a
    BY <1>0, <1>1 DEF Holding
  <2>3. /\ HeldBy'[n] = IF a = n THEN HeldBy[n] \cup {t} ELSE HeldBy[n] \ {t}
        /\ TakenBy'[n] = IF a = n THEN TakenBy[n] \cup {t} ELSE TakenBy[n] \ {t}
        /\ DeletedBy'[n] = DeletedBy[n] \ {t}
    BY <2>1, <2>2, GroupsStep
  <2>4. /\ t \in HeldBy[n] <=> n = a
        /\ t \notin TakenBy[n] /\ t \notin DeletedBy[n]
    BY <1>0, <1>1, GroupMember DEF Holding
  <2>5. TakenBy[a] = {}
    BY <1>2 DEF StackedNode
  <2> QED
    BY <2>3, <2>4, <2>5
<1>6. \A n \in Address : Refs'[n] = Refs[n]
  BY <1>5, RefsStep
<1>7. OneWay' /\ OwnNodes'
  <2>1. \A m, k \in Stacked : next[m].ptr = next[k].ptr => next[m].ptr = Null \/ m = k
    BY DEF IInv, OneWay
  <2> QED
    BY <1>1, <1>2, <1>4, <2>1 DEF IInv, OneWay, OwnNodes
<1>8. StackCounts'
  <2>1. ASSUME NEW m \in Stacked PROVE Counts(next[m])'
    <3>1. Counts(next[m]) /\ (next[m].ptr # Null => next[m].ptr \in Address)
      BY StackShape DEF IInv, StackCounts
    <3> QED
      BY <1>1, <1>6, <3>1 DEF Counts
  <2>2. Counts(head)'
    <3>1. Counts(next[a])'
      BY <1>2, <2>1
    <3> QED
      BY <1>1, <3>1 DEF Counts
  <2> QED
    BY <1>4, <2>1, <2>2 DEF StackCounts
<1>9. NodeState(a)'
  <2>1. internal[a] + old[t].count = Refs[a] + 1
    BY <1>1 DEF IInv, StackCounts, Counts
  <2>2. TakenNode(a, t)'
    BY <1>1, <1>2, <1>5, <1>6, <2>1 DEF TakenNode, StackedNode
  <2>3. TakenBy'[a] # {} /\ a \notin Fresh' /\ a \notin Stacked'
    BY <1>2, <1>4, <1>5
  <2> QED
    BY <2>2, <2>3 DEF NodeState
<1>10. ASSUME NEW n \in Address, n # a PROVE NodeState(n)'
  <2>1. NodeState(n) /\ live' \cap {n} = live \cap {n}
    BY <1>1 DEF IInv, NodeStates
  <2>2. n \in Stacked' <=> n \in Stacked
    BY <1>4, <1>10
  <2> QED
    BY <1>1, <1>4, <1>5, <1>10, <2>1, <2>2, SameNode
<1> QED
  BY <1>7, <1>8, <1>9, <1>10 DEF NodeStates, StackState

\* The thread that took the node adds what the pointer counted.
LEMMA SettleStep ==
    ASSUME IInv, NEW t \in Threads, Settle(t) PROVE StackState'
<1>0. PICK a \in Address : a = ptr[t]
  BY DEF IInv, TypeOK, Local, Settle, Goto, Holding
<1>1. /\ UNCHANGED <<head, live, node, next, old, ptr>>
      /\ \A u \in Threads : u # t => pc'[u] = pc[u]
      /\ pc[t] = "settle"
      /\ pc'[t] = IF internal[a] = -(old[t].count - 2) THEN "deleteTaken" ELSE "return"
      /\ internal'[a] = internal[a] + (old[t].count - 2)
      /\ \A n \in Address : n # a => internal'[n] = internal[n]
  BY <1>0 DEF IInv, TypeOK, Settle, Goto
<1>2. t \in TakenBy[a] /\ t \in HeldBy[a] /\ NodeState(a) /\ a \in live
  BY <1>0, <1>1, GroupMember DEF IInv, NodeStates, Local, Holding
<1>3. a \notin Fresh /\ a \notin Stacked
  BY <1>2 DEF NodeState, FreshNode, StackedNode
<1>4. TakenNode(a, t)
  <2>1. PICK u \in Threads : TakenNode(a, u)
    BY <1>2, <1>3 DEF NodeState
  <2> QED
    BY <1>2, <2>1 DEF TakenNode
<1>5. Stacked' = Stacked /\ Fresh' = Fresh
  BY <1>1 DEF Stacked, Fresh
<1>6. ASSUME NEW n \in Address
      PROVE  /\ HeldBy'[n] = HeldBy[n] \ {t} /\ TakenBy'[n] = TakenBy[n] \ {t}
             /\ DeletedBy'[n] = IF n = a /\ pc'[t] = "deleteTaken"
                                THEN DeletedBy[n] \cup {t} ELSE DeletedBy[n]
             /\ n # a => /\ HeldBy'[n] = HeldBy[n] /\ TakenBy'[n] = TakenBy[n]
                         /\ DeletedBy'[n] = DeletedBy[n]
  <2>1. \A u \in Threads : u # t => pc'[u] = pc[u] /\ ptr'[u] = ptr[u]
    BY <1>1
  <2>2. /\ pc'[t] \notin {"swap", "settle"} /\ pc'[t] \notin Holding
        /\ pc'[t] \in {"deleteTaken", "deleteLost"} <=> pc'[t] = "deleteTaken"
        /\ ptr'[t] = a
    BY <1>0, <1>1 DEF Holding
  <2>3. /\ HeldBy'[n] = HeldBy[n] \ {t} /\ TakenBy'[n] = TakenBy[n] \ {t}
        /\ DeletedBy'[n] = IF a = n /\ pc'[t] = "deleteTaken"
                           THEN DeletedBy[n] \cup {t} ELSE DeletedBy[n] \ {t}
    BY <2>1, <2>2, GroupsStep
  <2>4. /\ t \notin DeletedBy[n]
        /\ n # a => t \notin HeldBy[n] /\ t \notin TakenBy[n]
    BY <1>0, <1>1, GroupMember
  <2>5. HeldBy'[n] = HeldBy[n] \ {t} /\ TakenBy'[n] = TakenBy[n] \ {t}
    BY <2>3
  <2>6. DeletedBy'[n] = IF n = a /\ pc'[t] = "deleteTaken"
                        THEN DeletedBy[n] \cup {t} ELSE DeletedBy[n]
    BY <2>3, <2>4
  <2>7. n # a => HeldBy'[n] = HeldBy[n] /\ TakenBy'[n] = TakenBy[n]
    BY <2>4, <2>5
  <2> QED
    BY <2>5, <2>6, <2>7
<1>7. OneWay' /\ StackCounts'
  <2>1. \A m \in Stacked : /\ next'[m] = next[m] /\ internal'[m] = internal[m]
                            /\ HeldBy'[m] = HeldBy[m]
    <3>1. \A m \in Stacked : m \in Address /\ m # a
      BY <1>3, StackShape DEF IInv
    <3> QED
      BY <1>1, <1>6, <3>1
  <2> QED
    BY <1>1, <1>5, <2>1, SameStack DEF IInv
<1>8. OwnNodes'
  BY <1>1 DEF IInv, OwnNodes
<1>9. NodeState(a)'
  <2>1. /\ Refs'[a] = Refs[a] - 1 /\ Refs[a] \in Nat /\ Refs'[a] \in Nat
        /\ internal[a] + old[t].count = Refs[a] + 1
        /\ internal[a] \in Int /\ old[t].count \in Int
    <3>1. Refs'[a] = Refs[a] - 1 /\ Refs[a] \in Nat /\ Refs[a] # 0
      BY <1>2, <1>6, RefsStep, RefsAreNat
    <3>2. internal[a] \in Int /\ old[t] \in Counted
      BY DEF IInv, TypeOK
    <3>3. old[t].count \in Int
      BY <3>2, StackAssumption DEF Counted
    <3>4. Refs'[a] \in Nat
      BY <3>1
    <3> QED
      BY <1>4, <3>1, <3>2, <3>3, <3>4 DEF TakenNode
  <2>2. internal'[a] = Refs'[a]
    BY <1>1, <2>1
  <2>3. pc'[t] = "deleteTaken" <=> Refs'[a] = 0
    BY <1>1, <2>1
  <2>4. DeletedBy'[a] = IF Refs'[a] = 0 THEN {t} ELSE {}
    BY <1>4, <1>6, <2>3 DEF TakenNode
  <2>5. SettledNode(a)'
    BY <2>2, <2>4 DEF SettledNode
  <2>6. TakenBy'[a] = {}
    BY <1>4, <1>6 DEF TakenNode
  <2> QED
    BY <1>3, <1>5, <2>5, <2>6 DEF NodeState
<1>10. ASSUME NEW n \in Address, n # a PROVE NodeState(n)'
  <2>1. NodeState(n) /\ live' \cap {n} = live \cap {n}
    BY <1>1 DEF IInv, NodeStates
  <2>2. /\ HeldBy'[n] = HeldBy[n] /\ TakenBy'[n] = TakenBy[n]
        /\ DeletedBy'[n] = DeletedBy[n]
    BY <1>6, <1>10
  <2> QED
    BY <1>1, <1>5, <1>10, <2>1, <2>2, SameNode
<1> QED
  BY <1>7, <1>8, <1>9, <1>10 DEF NodeStates, StackState

\* A thread that lost the node gives its reference back.
LEMMA GiveBackStep ==
    ASSUME IInv, NEW t \in Threads, GiveBack(t) PROVE StackState'
<1>0. PICK a \in Address : a = ptr[t]
  BY DEF IInv, TypeOK, Local, GiveBack, Goto, Holding
<1>1. /\ UNCHANGED <<head, live, node, next, old, ptr>>
      /\ \A u \in Threads : u # t => pc'[u] = pc[u]
      /\ pc[t] = "giveBack"
      /\ pc'[t] = IF internal[a] = 1 THEN "deleteLost" ELSE "increase"
      /\ internal'[a] = internal[a] - 1
      /\ \A n \in Address : n # a => internal'[n] = internal[n]
  BY <1>0 DEF IInv, TypeOK, GiveBack, Goto
<1>2. /\ t \in HeldBy[a] /\ t \notin TakenBy[a] /\ NodeState(a) /\ a \in live
      /\ internal[a] \in Int
  BY <1>0, <1>1, GroupMember DEF IInv, TypeOK, NodeStates, Local, Holding
<1>3. a \notin Fresh
  BY <1>2 DEF NodeState, FreshNode
<1>4. Stacked' = Stacked /\ Fresh' = Fresh /\ Stacked \subseteq Address
  BY <1>1, StackShape DEF IInv, Stacked, Fresh
<1>5. ASSUME NEW n \in Address
      PROVE  /\ HeldBy'[n] = HeldBy[n] \ {t} /\ TakenBy'[n] = TakenBy[n]
             /\ DeletedBy'[n] = IF n = a /\ pc'[t] = "deleteLost"
                                THEN DeletedBy[n] \cup {t} ELSE DeletedBy[n]
             /\ n # a => HeldBy'[n] = HeldBy[n] /\ DeletedBy'[n] = DeletedBy[n]
  <2>1. \A u \in Threads : u # t => pc'[u] = pc[u] /\ ptr'[u] = ptr[u]
    BY <1>1
  <2>2. /\ pc'[t] \notin {"swap", "settle"} /\ pc'[t] \notin Holding
        /\ pc'[t] \in {"deleteTaken", "deleteLost"} <=> pc'[t] = "deleteLost"
        /\ ptr'[t] = a
    BY <1>0, <1>1 DEF Holding
  <2>3. /\ HeldBy'[n] = HeldBy[n] \ {t} /\ TakenBy'[n] = TakenBy[n] \ {t}
        /\ DeletedBy'[n] = IF a = n /\ pc'[t] = "deleteLost"
                           THEN DeletedBy[n] \cup {t} ELSE DeletedBy[n] \ {t}
    BY <2>1, <2>2, GroupsStep
  <2>4. /\ t \notin DeletedBy[n] /\ t \notin TakenBy[n]
        /\ n # a => t \notin HeldBy[n]
    BY <1>0, <1>1, GroupMember
  <2>5. HeldBy'[n] = HeldBy[n] \ {t} /\ TakenBy'[n] = TakenBy[n]
    BY <2>3, <2>4
  <2>6. DeletedBy'[n] = IF n = a /\ pc'[t] = "deleteLost"
                        THEN DeletedBy[n] \cup {t} ELSE DeletedBy[n]
    BY <2>3, <2>4
  <2>7. n # a => HeldBy'[n] = HeldBy[n]
    BY <2>4, <2>5
  <2> QED
    BY <2>5, <2>6, <2>7
<1>6. /\ Refs[a] \in Nat /\ Refs[a] # 0 /\ Refs'[a] = Refs[a] - 1
      /\ \A n \in Address : n # a => Refs'[n] = Refs[n]
  <2>1. Refs[a] \in Nat /\ Refs[a] # 0 /\ Refs'[a] = Refs[a] - 1
    BY <1>2, <1>5, RefsStep, RefsAreNat
  <2> QED
    BY <1>5, <2>1, RefsStep
<1>7. OneWay' /\ OwnNodes'
  BY <1>1, <1>4 DEF IInv, OneWay, OwnNodes
<1>8. StackCounts'
  <2>1. ASSUME NEW p \in Counted, Counts(p), p.ptr # Null
        PROVE  internal'[p.ptr] + p.count = Refs'[p.ptr] + 1
    <3>1. p.ptr \in Address /\ p.count \in Int
      BY <2>1, StackAssumption DEF Counted
    <3>2. internal[p.ptr] + p.count = Refs[p.ptr] + 1
      BY <2>1 DEF Counts
    <3>3. CASE p.ptr = a
      BY <1>1, <1>2, <1>6, <3>1, <3>2, <3>3
    <3>4. CASE p.ptr # a
      BY <1>1, <1>6, <3>1, <3>2, <3>4
    <3> QED
      BY <3>3, <3>4
  <2>2. Counts(head)'
    BY <1>1, <2>1 DEF IInv, TypeOK, StackCounts, Counts
  <2>3. ASSUME NEW m \in Stacked PROVE Counts(next[m])'
    <3>1. next[m] \in Counted /\ Counts(next[m]) /\ next'[m] = next[m]
      BY <1>1, <1>4 DEF IInv, TypeOK, StackCounts
    <3> QED
      BY <2>1, <3>1 DEF Counts
  <2> QED
    BY <1>4, <2>2, <2>3 DEF StackCounts
<1>9. NodeState(a)'
  <2>1. CASE a \in Stacked
    <3>1. StackedNode(a)
      BY <1>2, <2>1 DEF NodeState
    <3>2. internal'[a] <= 0 /\ pc'[t] = "increase"
      BY <1>1, <1>2, <3>1 DEF StackedNode
    <3>3. StackedNode(a)'
      BY <1>1, <1>5, <3>1, <3>2 DEF StackedNode
    <3> QED
      BY <1>3, <1>4, <2>1, <3>3 DEF NodeState
  <2>2. CASE a \notin Stacked /\ TakenBy[a] # {}
    <3>1. PICK u \in Threads : TakenNode(a, u)
      BY <1>2, <1>3, <2>2 DEF NodeState
    <3>2. internal'[a] <= 0 /\ pc'[t] = "increase"
      BY <1>1, <1>2, <3>1 DEF TakenNode
    <3>3. internal'[a] + old[u].count = Refs'[a] + 1
      <4>1. old[u].count \in Int
        BY StackAssumption DEF IInv, TypeOK, Counted
      <4> QED
        BY <1>1, <1>2, <1>6, <3>1, <4>1 DEF TakenNode
    <3>4. TakenNode(a, u)'
      BY <1>1, <1>5, <3>1, <3>2, <3>3 DEF TakenNode
    <3> QED
      BY <1>3, <1>4, <1>5, <2>2, <3>4 DEF NodeState
  <2>3. CASE a \notin Stacked /\ TakenBy[a] = {}
    <3>1. SettledNode(a)
      BY <1>2, <1>3, <2>3 DEF NodeState
    <3>2. internal'[a] = Refs'[a] /\ (pc'[t] = "deleteLost" <=> Refs'[a] = 0)
      BY <1>1, <1>2, <1>6, <3>1 DEF SettledNode
    <3>3. DeletedBy'[a] = IF Refs'[a] = 0 THEN {t} ELSE {}
      BY <1>5, <1>6, <3>1, <3>2 DEF SettledNode
    <3>4. SettledNode(a)'
      BY <3>2, <3>3 DEF SettledNode
    <3> QED
      BY <1>3, <1>4, <1>5, <2>3, <3>4 DEF NodeState
  <2> QED
    BY <2>1, <2>2, <2>3
<1>10. ASSUME NEW n \in Address, n # a PROVE NodeState(n)'
  <2>1. NodeState(n) /\ live' \cap {n} = live \cap {n}
    BY <1>1 DEF IInv, NodeStates
  <2>2. /\ HeldBy'[n] = HeldBy[n] /\ TakenBy'[n] = TakenBy[n]
        /\ DeletedBy'[n] = DeletedBy[n]
    BY <1>5, <1>10
  <2> QED
    BY <1>1, <1>4, <1>10, <2>1, <2>2, SameNode
<1> QED
  BY <1>7, <1>8, <1>9, <1>10 DEF NodeStates, StackState

\* Who brought the sum to zero deletes the node.
LEMMA DeleteStep ==
    ASSUME IInv, NEW t \in Threads, DeleteNode(t) PROVE StackState'
<1>0. PICK a \in Address : a = ptr[t]
  BY DEF IInv, TypeOK, Local, DeleteNode, Goto
<1>1. /\ UNCHANGED <<head, internal, node, next, old, ptr>>
      /\ \A u \in Threads : u # t => pc'[u] = pc[u]
      /\ pc[t] \in {"deleteTaken", "deleteLost"} /\ pc'[t] \in {"return", "increase"}
      /\ live' = live \ {a}
  BY <1>0 DEF IInv, TypeOK, DeleteNode, Goto
<1>2. a \notin Stacked /\ a \notin Fresh
  BY <1>0, <1>1, DeleterAlone
<1>3. Stacked' = Stacked /\ Fresh' = Fresh /\ Stacked \subseteq Address
  BY <1>1, StackShape DEF IInv, Stacked, Fresh
<1>4. ASSUME NEW n \in Address
      PROVE  /\ HeldBy'[n] = HeldBy[n] /\ TakenBy'[n] = TakenBy[n]
             /\ n # a => DeletedBy'[n] = DeletedBy[n]
  <2>1. \A u \in Threads : u # t => pc'[u] = pc[u] /\ ptr'[u] = ptr[u]
    BY <1>1
  <2>2. /\ pc'[t] \notin {"swap", "settle"} /\ pc'[t] \notin Holding
        /\ pc'[t] \notin {"deleteTaken", "deleteLost"}
    BY <1>1 DEF Holding
  <2>3. /\ HeldBy'[n] = HeldBy[n] \ {t} /\ TakenBy'[n] = TakenBy[n] \ {t}
        /\ DeletedBy'[n] = DeletedBy[n] \ {t}
    BY <2>1, <2>2, GroupsStep
  <2>4. /\ t \notin HeldBy[n] /\ t \notin TakenBy[n]
        /\ n # a => t \notin DeletedBy[n]
    BY <1>0, <1>1, GroupMember DEF Holding
  <2>5. HeldBy'[n] = HeldBy[n] /\ TakenBy'[n] = TakenBy[n]
    BY <2>3, <2>4
  <2> QED
    BY <2>3, <2>4, <2>5
<1>5. OneWay' /\ StackCounts'
  <2>1. \A m \in Stacked : /\ next'[m] = next[m] /\ internal'[m] = internal[m]
                            /\ HeldBy'[m] = HeldBy[m]
    BY <1>1, <1>3, <1>4
  <2> QED
    BY <1>1, <1>3, <2>1, SameStack DEF IInv
<1>6. OwnNodes'
  BY <1>1 DEF IInv, OwnNodes
<1>7. NodeState(a)'
  BY <1>1, <1>2, <1>3 DEF NodeState
<1>8. ASSUME NEW n \in Address, n # a PROVE NodeState(n)'
  <2>1. NodeState(n) /\ live' \cap {n} = live \cap {n}
    BY <1>1, <1>8 DEF IInv, NodeStates
  <2> QED
    BY <1>1, <1>3, <1>4, <1>8, <2>1, SameNode
<1> QED
  BY <1>5, <1>6, <1>7, <1>8 DEF NodeStates, StackState
------------------------------------------------------------------------------
\* When the destructor runs no user does anything.
LEMMA UserRuns ==
    ASSUME IInv, NEW t \in Users, Push(t) \/ Pop(t)
    PROVE  pc[Owner] = "idle"
<1>1. pc[t] # "idle" \/ left[t] > 0
  BY StackAssumption
     DEF Push, Pop, MakeNode, LinkNode, Relink, LoadHead, IncreaseHeadCount,
         IncreaseAgain, ReadNext, TakeNode, LoseNode, SwapData, Settle, GiveBack,
         DeleteNode, Return, Goto
<1> QED
  BY <1>1 DEF IInv, OwnerLast

LEMMA OwnerStep == ASSUME IInv, NEW t \in Threads, Push(t) \/ Pop(t) PROVE OwnerLast'
<1>1. CASE t \in Users
  <2>1. t # Owner /\ pc[Owner] = "idle" /\ got[Owner] # Empty
    BY <1>1, UserRuns, StackAssumption DEF IInv, OwnerLast
  <2>2. left'[Owner] = left[Owner] /\ pc'[Owner] = pc[Owner] /\ got'[Owner] = got[Owner]
    BY <2>1
       DEF IInv, TypeOK, Push, Pop, MakeNode, LinkNode, Relink, LoadHead,
           IncreaseHeadCount, IncreaseAgain, ReadNext, TakeNode, LoseNode, SwapData,
           Settle, GiveBack, DeleteNode, Return, Goto
  <2> QED
    BY <2>1, <2>2 DEF IInv, OwnerLast
<1>2. CASE t = Owner
  <2>1. ~MakeNode(t)
    BY <1>2 DEF IInv, OwnerLast, MakeNode
  <2>2. \A u \in Users : pc'[u] = pc[u] /\ left'[u] = left[u]
    BY <1>2, <2>1, StackAssumption
       DEF IInv, TypeOK, Push, Pop, LinkNode, Relink, LoadHead,
           IncreaseHeadCount, IncreaseAgain, ReadNext, TakeNode, LoseNode, SwapData,
           Settle, GiveBack, DeleteNode, Return, Goto
  <2>3. left'[Owner] = 0
    BY <1>2, <2>1
       DEF IInv, TypeOK, OwnerLast, Push, Pop, LinkNode, Relink, LoadHead,
           IncreaseHeadCount, IncreaseAgain, ReadNext, TakeNode, LoseNode, SwapData,
           Settle, GiveBack, DeleteNode, Return
  <2>4. pc'[Owner] # "idle" => \A u \in Users : pc'[u] = "idle" /\ left'[u] = 0
    <3>1. CASE LoadHead(t)
      BY <1>2, <2>2, <3>1 DEF LoadHead
    <3>2. CASE ~LoadHead(t)
      <4>1. pc[Owner] # "idle"
        BY <1>2, <2>1, <3>2
           DEF Push, Pop, LinkNode, Relink, IncreaseHeadCount, IncreaseAgain, ReadNext,
               TakeNode, LoseNode, SwapData, Settle, GiveBack, DeleteNode, Return, Goto
      <4> QED
        BY <2>2, <4>1 DEF IInv, OwnerLast
    <3> QED
      BY <3>1, <3>2
  <2>5. /\ got'[Owner] = Empty => pc'[Owner] = "return" /\ head'.ptr = Null
        /\ pc'[Owner] = "done" => head'.ptr = Null
    <3>1. CASE IncreaseHeadCount(t)
      <4>1. head.ptr \in Address \cup {Null} /\ head.count \in 0 .. CountLimit - 1
        BY DEF IInv, TypeOK, Counted
      <4>2. head'.ptr = head.ptr
        BY <3>1, <4>1, CountUp DEF IncreaseHeadCount
      <4>3. pc[Owner] = "increase" /\ got[Owner] # Empty
        BY <1>2, <3>1 DEF IInv, OwnerLast, IncreaseHeadCount, Goto
      <4>4. pc'[Owner] = IF head.ptr = Null THEN "return" ELSE "peek"
        BY <1>2, <3>1 DEF IInv, TypeOK, IncreaseHeadCount, Goto
      <4>5. got'[Owner] = IF head.ptr = Null THEN Empty ELSE got[Owner]
        BY <1>2, <3>1 DEF IInv, TypeOK, IncreaseHeadCount
      <4> QED
        BY <4>2, <4>3, <4>4, <4>5
    <3>2. CASE Return(t)
      <4>1. head' = head /\ got'[Owner] = None
        BY <1>2, <3>2 DEF IInv, TypeOK, Return
      <4>2. pc'[Owner] = "done" => got[Owner] = Empty
        BY <1>2, <3>2 DEF IInv, TypeOK, Return, Goto
      <4> QED
        BY <4>1, <4>2, StackAssumption DEF IInv, OwnerLast
    <3>3. CASE SwapData(t)
      <4>1. pc'[Owner] = "settle" /\ got'[Owner] = data[ptr[Owner]] /\ ptr[Owner] \in Address
        BY <1>2, <3>3 DEF IInv, TypeOK, Local, Holding, SwapData, Goto
      <4>2. data[ptr[Owner]] # Empty
        BY <4>1, StackAssumption DEF IInv, TypeOK
      <4> QED
        BY <4>1, <4>2
    <3>4. CASE ~IncreaseHeadCount(t) /\ ~Return(t) /\ ~SwapData(t)
      <4>1. got'[Owner] = got[Owner] /\ pc'[Owner] # "done" /\ pc[Owner] # "return"
        BY <1>2, <2>1, <3>4
           DEF IInv, TypeOK, Push, Pop, LinkNode, Relink, LoadHead, IncreaseAgain, ReadNext,
               TakeNode, LoseNode, Settle, GiveBack, DeleteNode, Goto
      <4> QED
        BY <4>1 DEF IInv, OwnerLast
    <3> QED
      BY <3>1, <3>2, <3>3, <3>4
  <2> QED
    BY <2>3, <2>4, <2>5 DEF OwnerLast
<1> QED
  BY <1>1, <1>2

LEMMA InvStep == IInv /\ [Next]_vars /\ [NoNodeWraps]_vars => IInv'
<1> SUFFICES ASSUME IInv, [Next]_vars, [NoNodeWraps]_vars PROVE IInv'
  OBVIOUS
<1>1. ASSUME NEW t \in Threads, Push(t) \/ Pop(t), NoNodeWraps PROVE IInv'
  <2>1. TypeOK'
    BY <1>1, TypeMakeNode, TypeLink, TypeIncrease, TypeTake, TypeSettle DEF Push, Pop
  <2>2. Local'
    BY <1>1, <2>1, LocalPush, LocalTake, LocalSettle DEF Push, Pop
  <2>3. StackState'
    BY <1>1, QuietPop, MakeNodeStep, LinkNodeStep, RelinkStep, IncreaseStep,
       TakeNodeStep, SettleStep, GiveBackStep, DeleteStep DEF Push, Pop
  <2>4. OwnerLast'
    BY <1>1, OwnerStep
  <2> QED
    BY <2>1, <2>2, <2>3, <2>4 DEF IInv, StackState
<1>2. CASE UNCHANGED vars
  <2>1. Stacked' = Stacked /\ Fresh' = Fresh
    BY <1>2 DEF vars, Stacked, Fresh
  <2>2. HeldBy' = HeldBy /\ TakenBy' = TakenBy /\ DeletedBy' = DeletedBy
    BY <1>2 DEF vars, HeldBy, TakenBy, DeletedBy, Holders, Takers, Deleters
  <2>3. TypeOK' /\ Local' /\ OwnerLast'
    BY <1>2 DEF vars, IInv, TypeOK, Local, OwnerLast
  <2>4. OneWay' /\ StackCounts'
    BY <1>2, <2>1, <2>2, SameStack DEF vars, IInv
  <2>5. OwnNodes' /\ NodeStates'
    BY <1>2, <2>1, <2>2, SameNode DEF vars, IInv, OwnNodes, NodeStates
  <2> QED
    BY <2>3, <2>4, <2>5 DEF IInv
<1>3. CASE ~UNCHANGED vars
  BY <1>1, <1>3 DEF Next, Destroyed
<1> QED
  BY <1>2, <1>3
------------------------------------------------------------------------------
\* The inductive invariant.
THEOREM Invariant == Spec /\ [][NoNodeWraps]_vars => []IInv
BY InvInit, InvStep, PTL DEF Spec

\* The types, for any number of users, operations and addresses.
THEOREM TypeCorrect == Spec /\ [][NoNodeWraps]_vars => []TypeOK
BY Invariant, PTL DEF IInv

\* push and pop only follow pointers to nodes that have not been deleted: a
\* pop reads next_ of a node that others may take and delete, and the
\* reference it has counted keeps the node.
THEOREM NothingUsedFreed == Spec /\ [][NoNodeWraps]_vars => []NoUseAfterFree
<1>1. IInv => NoUseAfterFree
  <2> SUFFICES ASSUME IInv PROVE NoUseAfterFree
    OBVIOUS
  <2>1. ASSUME NEW t \in Threads, pc[t] = "link" PROVE node[t] \in live
    <3>1. node[t] \in Address /\ node[t] \in Fresh
      BY <2>1 DEF IInv, TypeOK, Local, Fresh
    <3> QED
      BY <3>1 DEF IInv, NodeStates, NodeState, FreshNode
  <2>2. Stacked \subseteq live
    BY StackShape DEF IInv, NodeStates, NodeState, StackedNode
  <2>3. \A t \in Threads : pc[t] \in Touching => ptr[t] \in live
    BY DEF IInv, Local, Touching
  <2> QED
    BY <2>1, <2>2, <2>3 DEF NoUseAfterFree, Touching, Holding
<1> QED
  BY <1>1, Invariant, PTL

LEMMA AtMostOne ==
    ASSUME NEW S, \A a, b \in S : a = b
    PROVE  Cardinality(S) <= 1
<1>1. CASE S = {}
  BY <1>1, FS_EmptySet
<1>2. CASE S # {}
  <2>1. PICK x : S = {x}
    BY <1>2
  <2> QED
    BY <2>1, FS_Singleton
<1> QED
  BY <1>1, <1>2

\* internal_count_ and the external count of the one pointer to a node add up to
\* the threads that hold it, so that the two tests for zero in pop are right.
THEOREM CountsAreRight == Spec /\ [][NoNodeWraps]_vars => []CountsHolders
<1>1. ASSUME IInv, NEW n \in live \ Fresh
      PROVE  /\ Cardinality(Pointers(n)) <= 1
             /\ \A p \in Pointers(n) : internal[n] + p.count = Cardinality(Holders(n)) + 1
             /\ Pointers(n) = {} => internal[n] = Cardinality(Holders(n))
             /\ n \in Stacked => Takers(n) = {}
  <2> DEFINE P == {p \in {head} \cup {next[m] : m \in Stacked} : p.ptr = n}
  <2>1. /\ n \in Address /\ n # Null /\ NodeState(n) /\ n \notin Fresh
        /\ Takers(n) = TakenBy[n] /\ Refs[n] = Cardinality(Holders(n))
    BY <1>1, StackAssumption
       DEF IInv, TypeOK, NodeStates, TakenBy, Refs, HeldBy
  <2>2. Pointers(n) = P \cup {old[t] : t \in TakenBy[n]}
    BY <2>1 DEF Pointers
  <2>3. \A a, b \in P : a = b
    BY <1>1, <2>1 DEF IInv, OneWay
  <2>4. \A p \in P : internal[n] + p.count = Refs[n] + 1
    BY <1>1, <2>1 DEF IInv, StackCounts, Counts
  <2>5. n \in Stacked => TakenBy[n] = {}
    BY <2>1 DEF NodeState, StackedNode
  <2>6. P = {} <=> n \notin Stacked
    BY <1>1, <2>1, StackShape DEF IInv
  <2> HIDE DEF P
  <2>7. CASE n \in Stacked
    <3>1. Pointers(n) = P /\ P # {}
      BY <2>2, <2>5, <2>6, <2>7
    <3> QED
      BY <2>1, <2>3, <2>4, <2>5, <3>1, AtMostOne
  <2>8. CASE n \notin Stacked /\ TakenBy[n] = {}
    <3>1. Pointers(n) = {}
      BY <2>2, <2>6, <2>8
    <3>2. internal[n] = Refs[n]
      BY <1>1, <2>1, <2>8 DEF NodeState, SettledNode
    <3> QED
      BY <2>1, <2>8, <3>1, <3>2, AtMostOne
  <2>9. CASE n \notin Stacked /\ TakenBy[n] # {}
    <3>1. PICK t \in Threads : TakenNode(n, t)
      BY <1>1, <2>1, <2>9 DEF NodeState
    <3>2. Pointers(n) = {old[t]}
      BY <2>2, <2>6, <2>9, <3>1 DEF TakenNode
    <3>3. internal[n] + old[t].count = Refs[n] + 1
      BY <3>1 DEF TakenNode
    <3> QED
      BY <2>1, <2>9, <3>2, <3>3, AtMostOne
  <2> QED
    BY <2>7, <2>8, <2>9
<1>2. IInv => CountsHolders
  BY <1>1 DEF CountsHolders
<1> QED
  BY <1>2, Invariant, PTL

LEMMA EmptyStack == ASSUME TypeOK, head.ptr = Null PROVE Stacked = {}
<1> DEFINE below == [n \in Address |-> next[n].ptr]
<1>1. below \in [Address -> Address \cup {Null}]
  BY DEF TypeOK, Counted
<1>2. Closed({}, Null, below, Null)
  BY DEF Closed
<1>3. Stacked = Reached(Null, below, Null)
  BY DEF Stacked
<1> HIDE DEF below
<1> QED
  BY <1>1, <1>2, <1>3, ReachedLeast

\* Every node that was pushed is deleted, by one thread: the last that holds it
\* finds it so, or the destructor does.
THEOREM DeletedExactlyOnce == Spec /\ [][NoNodeWraps]_vars => []DeletedOnce
<1>1. ASSUME IInv, NEW n \in live \ (Fresh \cup Stacked)
      PROVE  Cardinality(Deleters(n)) = IF Holders(n) = {} THEN 1 ELSE 0
  <2>1. /\ n \in Address /\ NodeState(n) /\ Deleters(n) = DeletedBy[n]
        /\ Holders(n) = HeldBy[n]
    BY <1>1 DEF IInv, TypeOK, NodeStates, DeletedBy, HeldBy
  <2>2. CASE TakenBy[n] = {}
    <3>1. IF HeldBy[n] = {} THEN \E d \in Threads : DeletedBy[n] = {d}
                            ELSE DeletedBy[n] = {}
      BY <1>1, <2>1, <2>2, RefsAreNat DEF NodeState, SettledNode
    <3> QED
      BY <2>1, <3>1, FS_EmptySet, FS_Singleton
  <2>3. CASE TakenBy[n] # {}
    <3>1. DeletedBy[n] = {} /\ HeldBy[n] # {}
      BY <1>1, <2>1, <2>3, GroupMember DEF NodeState, TakenNode
    <3> QED
      BY <2>1, <3>1, FS_EmptySet
  <2> QED
    BY <2>2, <2>3
<1>2. ASSUME IInv, pc[Owner] = "done" PROVE live = {}
  <2>1. /\ \A t \in Threads : pc[t] \in {"idle", "done"}
        /\ Stacked = {}
    BY <1>2, EmptyStack DEF IInv, OwnerLast
  <2>2. SUFFICES ASSUME NEW n \in live PROVE FALSE
    OBVIOUS
  <2>3. n \in Address /\ NodeState(n)
    BY <1>2 DEF IInv, TypeOK, NodeStates
  <2>4. n \notin Fresh
    BY <1>2, <2>1, <2>3, StackAssumption DEF IInv, Local, Fresh
  <2>5. HeldBy[n] = {} /\ TakenBy[n] = {} /\ DeletedBy[n] = {}
    BY <2>1, <2>3, GroupMember DEF Holding
  <2> QED
    BY <2>1, <2>3, <2>4, <2>5, RefsAreNat DEF NodeState, SettledNode
<1>3. IInv => DeletedOnce
  BY <1>1, <1>2 DEF DeletedOnce
<1> QED
  BY <1>3, Invariant, PTL
------------------------------------------------------------------------------
(* The refinement: the sequence of the nodes on the stack.                  *)

\* The nodes from the top, each there once and with its data.
IsChain(s) ==
    /\ Descends(s)
    /\ \A i, j \in 1 .. Len(s) : s[i] = s[j] => i = j
    /\ \A i \in 1 .. Len(s) : data[s[i]] \in Value

\* The data goes with the node from its push to the pop that takes it.
DataKept ==
    \A t \in Threads :
        /\ pc[t] = "link" => data[node[t]] \in Value
        /\ pc[t] = "swap" => data[ptr[t]] \in Value
        /\ got[t] = None <=> pc[t] \notin {"settle", "deleteTaken", "return"}

StackIsChain == \E s \in Seq(Address) : IsChain(s)

LEMMA LeastNat ==
    ASSUME NEW T \in SUBSET Nat, T # {}
    PROVE  \E x \in T : \A y \in T : x <= y
<1>1. IsWellFoundedOn({p \in Nat \X Nat : p[1] < p[2]}, Nat)
  BY NatLessThanWellFounded, Zenon DEF OpToRel
<1>2. PICK x \in T : \A y \in T : ~(<<y, x>> \in {p \in Nat \X Nat : p[1] < p[2]})
  BY <1>1, WFMin
<1>3. \A y \in T : ~(y < x)
  BY <1>2
<1> QED
  BY <1>3

\* Two walks down the same pointers meet the same nodes.
LEMMA DescendsTogether ==
    ASSUME NEW s \in Seq(Address), NEW u \in Seq(Address), Descends(s), Descends(u)
    PROVE  \A i \in 1 .. Len(s) : i <= Len(u) /\ s[i] = u[i]
<1> DEFINE D == {i \in 1 .. Len(s) : ~(i <= Len(u) /\ s[i] = u[i])}
<1> SUFFICES ASSUME D # {} PROVE FALSE
  OBVIOUS
<1>1. /\ Len(s) \in Nat /\ Len(u) \in Nat /\ DOMAIN s = 1 .. Len(s)
      /\ DOMAIN u = 1 .. Len(u) /\ \A i \in 1 .. Len(s) : s[i] \in Address
      /\ s # << >> => Len(s) # 0
      /\ u = << >> => Len(u) = 0
  OBVIOUS
<1>2. PICK m \in D : \A i \in D : m <= i
  <2>1. D \in SUBSET Nat
    BY <1>1
  <2> HIDE DEF D
  <2> QED
    BY <2>1, LeastNat
<1>3. m \in 1 .. Len(s) /\ ~(m <= Len(u) /\ s[m] = u[m]) /\ s[m] # Null /\ s # << >>
  BY <1>1, StackAssumption
<1>4. CASE m = 1
  <2>1. head.ptr = s[1]
    BY <1>3 DEF Descends
  <2>2. u # << >> /\ u[1] = s[1]
    BY <1>3, <1>4, <2>1 DEF Descends
  <2>3. 1 <= Len(u)
    BY <1>1, <2>2
  <2> QED
    BY <1>3, <1>4, <2>2, <2>3
<1>5. CASE m # 1
  <2>1. m - 1 \in 1 .. Len(s) /\ m - 1 # Len(s) /\ m - 1 + 1 = m
    BY <1>1, <1>3, <1>5
  <2>2. m - 1 \notin D
    BY <1>1, <1>2, <1>3, <1>5
  <2>3. m - 1 \in 1 .. Len(u) /\ s[m - 1] = u[m - 1]
    BY <1>1, <2>1, <2>2
  <2>4. next[s[m - 1]].ptr = s[m]
    BY <1>1, <2>1 DEF Descends
  <2>5. next[u[m - 1]].ptr = IF m - 1 = Len(u) THEN Null ELSE u[m]
    BY <1>1, <2>1, <2>3 DEF Descends
  <2>6. m - 1 # Len(u) /\ u[m] = s[m]
    BY <1>3, <2>3, <2>4, <2>5
  <2>7. m <= Len(u)
    BY <1>1, <1>3, <2>3, <2>6
  <2> QED
    BY <1>3, <2>6, <2>7
<1> QED
  BY <1>4, <1>5

\* There is one such sequence, and no more nodes than addresses.
ChainIsOnStack == \A s \in Seq(Address) : IsChain(s) => OnStack = s

LEMMA ChainsAreOnStack == ChainIsOnStack
<1> SUFFICES ASSUME NEW s \in Seq(Address), IsChain(s) PROVE OnStack = s
  BY DEF ChainIsOnStack
<1>1. Len(s) \in Nat /\ s \in [1 .. Len(s) -> Address]
  OBVIOUS
<1>2. Cardinality(Address) \in Nat /\ Len(s) <= Cardinality(Address)
  <2>1. Cardinality(Address) \in Nat
    BY StackAssumption, FS_CardinalityType
  <2>2. IsFiniteSet(1 .. Len(s)) /\ Cardinality(1 .. Len(s)) = Len(s)
    BY <1>1, FS_Interval
  <2>3. ~(Cardinality(Address) < Cardinality(1 .. Len(s)))
    BY <1>1, <2>2, StackAssumption, FS_PigeonHole DEF IsChain
  <2> QED
    BY <1>1, <2>1, <2>2, <2>3
<1> DEFINE Chains == UNION {[1 .. k -> Address] : k \in 0 .. Cardinality(Address)}
<1>3. s \in Chains /\ Descends(s)
  BY <1>1, <1>2 DEF IsChain
<1>4. OnStack \in Chains /\ Descends(OnStack)
  BY <1>3, Zenon DEF OnStack
<1>5. OnStack \in Seq(Address)
  <2>1. PICK k \in 0 .. Cardinality(Address) : OnStack \in [1 .. k -> Address]
    BY <1>4
  <2> QED
    BY <1>2, <2>1
<1> HIDE DEF Chains
<1>6. /\ \A i \in 1 .. Len(s) : i <= Len(OnStack) /\ s[i] = OnStack[i]
      /\ \A i \in 1 .. Len(OnStack) : i <= Len(s)
  BY <1>3, <1>4, <1>5, DescendsTogether
<1>7. Len(OnStack) \in Nat /\ Len(OnStack) = Len(s)
  BY <1>1, <1>5, <1>6
<1> QED
  BY <1>5, <1>6, <1>7, SeqEqual

LEMMA ChainShape ==
    ASSUME NEW s \in Seq(Address)
    PROVE  /\ Len(s) \in Nat /\ DOMAIN s = 1 .. Len(s)
           /\ \A i \in 1 .. Len(s) : s[i] \in Address
           /\ s = << >> <=> Len(s) = 0
OBVIOUS

\* It is made of the nodes on the stack.
LEMMA ChainStacked ==
    ASSUME TypeOK, NEW s \in Seq(Address), IsChain(s)
    PROVE  \A i \in 1 .. Len(s) : s[i] \in Stacked
<1> DEFINE D == {i \in 1 .. Len(s) : s[i] \notin Stacked}
<1> SUFFICES ASSUME D # {} PROVE FALSE
  OBVIOUS
<1>1. /\ Len(s) \in Nat /\ DOMAIN s = 1 .. Len(s)
      /\ \A i \in 1 .. Len(s) : s[i] \in Address
      /\ s = << >> <=> Len(s) = 0
  BY ChainShape
<1>2. PICK m \in D : \A i \in D : m <= i
  <2>1. D \in SUBSET Nat
    BY <1>1
  <2> HIDE DEF D
  <2> QED
    BY <2>1, LeastNat
<1>3. m \in 1 .. Len(s) /\ s[m] \notin Stacked /\ s[m] # Null /\ s # << >>
  BY <1>1, StackAssumption
<1>4. CASE m = 1
  <2>1. head.ptr = s[1]
    BY <1>3 DEF IsChain, Descends
  <2> QED
    BY <1>3, <1>4, <2>1, StackShape
<1>5. CASE m # 1
  <2>1. m - 1 \in 1 .. Len(s) /\ m - 1 # Len(s) /\ m - 1 + 1 = m
    BY <1>1, <1>3, <1>5
  <2>2. s[m - 1] \in Stacked
    BY <1>1, <1>2, <1>3, <1>5
  <2>3. next[s[m - 1]].ptr = s[m]
    BY <1>1, <2>1 DEF IsChain, Descends
  <2> QED
    BY <1>3, <2>2, <2>3, StackShape
<1> QED
  BY <1>4, <1>5

\* Steps that leave the pointers and the data of the stacked nodes alone.
LEMMA ChainKept ==
    ASSUME TypeOK, NEW s \in Seq(Address), IsChain(s), head'.ptr = head.ptr,
           \A m \in Stacked : next'[m].ptr = next[m].ptr /\ data'[m] = data[m]
    PROVE  IsChain(s)'
<1>1. DOMAIN s = 1 .. Len(s) /\ \A i \in 1 .. Len(s) : s[i] \in Stacked
  BY ChainShape, ChainStacked
<1>2. Descends(s)'
  BY <1>1 DEF IsChain, Descends
<1> QED
  BY <1>1, <1>2 DEF IsChain

LEMMA ChainPush ==
    ASSUME IInv, NEW s \in Seq(Address), IsChain(s), NEW a \in Address,
           head'.ptr = a, next'[a].ptr = head.ptr, data'[a] \in Value, a \notin Stacked,
           \A m \in Stacked : next'[m].ptr = next[m].ptr /\ data'[m] = data[m]
    PROVE  IsChain(<<a>> \o s)'
<1> DEFINE u == <<a>> \o s
<1>1. /\ Len(s) \in Nat /\ DOMAIN s = 1 .. Len(s) /\ s = << >> <=> Len(s) = 0
      /\ \A i \in 1 .. Len(s) : s[i] \in Stacked
      /\ \A i, j \in 1 .. Len(s) : s[i] = s[j] => i = j
  BY ChainShape, ChainStacked DEF IInv, IsChain
<1>2. /\ u \in Seq(Address) /\ Len(u) = Len(s) + 1 /\ u[1] = a
      /\ \A i \in 1 .. Len(s) : u[i + 1] = s[i]
  OBVIOUS
<1>3. DOMAIN u = 1 .. Len(s) + 1 /\ u # << >>
  BY <1>1, <1>2, ChainShape
<1> HIDE DEF u
<1>4. ASSUME NEW i \in 1 .. Len(s) + 1, i # 1
      PROVE  i - 1 \in 1 .. Len(s) /\ u[i] = s[i - 1]
  <2>1. i - 1 \in 1 .. Len(s) /\ (i - 1) + 1 = i
    BY <1>1, <1>4
  <2> QED
    BY <1>2, <2>1
<1>5. Descends(u)'
  <2>1. ASSUME NEW i \in 1 .. Len(s) + 1
        PROVE  next'[u[i]].ptr = IF i = Len(s) + 1 THEN Null ELSE u[i + 1]
    <3>1. CASE i = 1
      <4>1. next'[u[i]].ptr = IF s = << >> THEN Null ELSE s[1]
        BY <1>2, <3>1 DEF IsChain, Descends
      <4>2. CASE Len(s) = 0
        BY <1>1, <3>1, <4>1, <4>2
      <4>3. CASE Len(s) # 0
        <5>1. 1 \in 1 .. Len(s) /\ u[1 + 1] = s[1] /\ i # Len(s) + 1
          BY <1>1, <1>2, <3>1, <4>3
        <5> QED
          BY <1>1, <3>1, <4>1, <4>3, <5>1
      <4> QED
        BY <4>2, <4>3
    <3>2. CASE i # 1
      <4>1. i - 1 \in 1 .. Len(s) /\ u[i] = s[i - 1]
        BY <1>4, <3>2
      <4>2. next'[u[i]].ptr = IF i - 1 = Len(s) THEN Null ELSE s[i - 1 + 1]
        <5>1. next[s[i - 1]].ptr = IF i - 1 = Len(s) THEN Null ELSE s[i - 1 + 1]
          BY <1>1, <4>1 DEF IsChain, Descends
        <5>2. next'[u[i]].ptr = next[s[i - 1]].ptr
          BY <1>1, <4>1
        <5> QED
          BY <5>1, <5>2
      <4>3. CASE i - 1 = Len(s)
        BY <1>1, <4>2, <4>3
      <4>4. CASE i - 1 # Len(s)
        <5>1. i \in 1 .. Len(s) /\ i - 1 + 1 = i /\ i # Len(s) + 1
          BY <1>1, <4>1, <4>4
        <5> QED
          BY <1>2, <4>2, <4>4, <5>1
      <4> QED
        BY <4>3, <4>4
    <3> QED
      BY <3>1, <3>2
  <2> QED
    BY <1>2, <1>3, <2>1 DEF Descends
<1>6. ASSUME NEW i \in 1 .. Len(s) + 1, NEW j \in 1 .. Len(s) + 1, u[i] = u[j]
      PROVE  i = j
  <2>1. CASE i = 1
    BY <1>1, <1>2, <1>4, <1>6, <2>1
  <2>2. CASE j = 1
    BY <1>1, <1>2, <1>4, <1>6, <2>2
  <2>3. CASE i # 1 /\ j # 1
    <3>1. i - 1 = j - 1
      BY <1>1, <1>4, <1>6, <2>3
    <3> QED
      BY <3>1
  <2> QED
    BY <2>1, <2>2, <2>3
<1>7. \A i \in 1 .. Len(s) + 1 : data'[u[i]] \in Value
  <2> SUFFICES ASSUME NEW i \in 1 .. Len(s) + 1 PROVE data'[u[i]] \in Value
    OBVIOUS
  <2>1. CASE i = 1
    BY <1>2, <2>1
  <2>2. CASE i # 1
    BY <1>1, <1>4, <2>2 DEF IsChain
  <2> QED
    BY <2>1, <2>2
<1>8. IsChain(u)'
  BY <1>2, <1>5, <1>6, <1>7 DEF IsChain
<1> QED
  BY <1>8 DEF u

LEMMA ChainPop ==
    ASSUME IInv, NEW s \in Seq(Address), IsChain(s), s # << >>,
           head'.ptr = next[s[1]].ptr, next' = next, data' = data
    PROVE  IsChain(Tail(s))' /\ Tail(s) \in Seq(Address) /\ Len(s) - 1 \in Nat
           /\ Len(Tail(s)) = Len(s) - 1
           /\ \A i \in 1 .. Len(s) - 1 : Tail(s)[i] = s[i + 1]
<1> DEFINE u == Tail(s)
<1>1. /\ Len(s) \in Nat /\ Len(s) # 0 /\ DOMAIN s = 1 .. Len(s)
      /\ \A i, j \in 1 .. Len(s) : s[i] = s[j] => i = j
  BY ChainShape DEF IsChain
<1>2. /\ u \in Seq(Address) /\ Len(u) = Len(s) - 1
      /\ \A i \in 1 .. Len(u) : u[i] = s[i + 1]
  BY HeadTailProperties
<1>3. Len(s) - 1 \in Nat /\ DOMAIN u = 1 .. Len(s) - 1 /\ (u = << >> <=> Len(s) - 1 = 0)
  BY <1>1, <1>2, ChainShape
<1> HIDE DEF u
<1>4. \A i \in 1 .. Len(s) - 1 : i + 1 \in 1 .. Len(s) /\ u[i] = s[i + 1]
  BY <1>1, <1>2
<1>5. \A i \in 1 .. Len(s) : next[s[i]].ptr = IF i = Len(s) THEN Null ELSE s[i + 1]
  BY <1>1 DEF IsChain, Descends
<1>6. head'.ptr = IF u = << >> THEN Null ELSE u[1]
  <2>1. head'.ptr = IF 1 = Len(s) THEN Null ELSE s[1 + 1]
    <3>1. 1 \in 1 .. Len(s)
      BY <1>1
    <3> QED
      BY <1>5, <3>1
  <2>2. CASE Len(s) = 1
    BY <1>3, <2>1, <2>2
  <2>3. CASE Len(s) # 1
    <3>1. 1 \in 1 .. Len(s) - 1 /\ Len(s) - 1 # 0
      BY <1>1, <2>3
    <3> QED
      BY <1>3, <1>4, <2>1, <2>3, <3>1
  <2> QED
    BY <2>2, <2>3
<1>7. ASSUME NEW i \in 1 .. Len(s) - 1
      PROVE  next[u[i]].ptr = IF i = Len(s) - 1 THEN Null ELSE u[i + 1]
  <2>1. next[u[i]].ptr = IF i + 1 = Len(s) THEN Null ELSE s[i + 1 + 1]
    BY <1>4, <1>5
  <2>2. CASE i = Len(s) - 1
    BY <1>1, <2>1, <2>2
  <2>3. CASE i # Len(s) - 1
    <3>1. i + 1 \in 1 .. Len(s) - 1 /\ i + 1 # Len(s)
      <4>1. Len(s) \in Nat /\ i \in Nat /\ 1 <= i /\ i < Len(s) - 1
        BY <1>3, <2>3
      <4> QED
        BY <4>1
    <3> QED
      BY <1>4, <2>1, <2>3, <3>1
  <2> QED
    BY <2>2, <2>3
<1>8. Descends(u)'
  BY <1>2, <1>3, <1>6, <1>7 DEF Descends
<1>9. ASSUME NEW i \in 1 .. Len(s) - 1, NEW j \in 1 .. Len(s) - 1, u[i] = u[j]
      PROVE  i = j
  <2>1. i + 1 = j + 1
    BY <1>1, <1>4, <1>9
  <2> QED
    BY <2>1
<1>10. \A i \in 1 .. Len(s) - 1 : data[u[i]] \in Value
  BY <1>4 DEF IsChain
<1>11. IsChain(u)'
  BY <1>2, <1>8, <1>9, <1>10 DEF IsChain
<1> QED
  BY <1>2, <1>3, <1>11 DEF u

\* What LifoStack sees.
Contents == [i \in DOMAIN OnStack |-> data[OnStack[i]]]
Results == [t \in Threads |-> IF pc[t] = "swap" THEN data[ptr[t]] ELSE got[t]]

LEMMA ContentsIsSeq ==
    ASSUME NEW s \in Seq(Address), IsChain(s)
    PROVE  /\ Contents \in Seq(Value) /\ Len(Contents) = Len(s)
           /\ \A i \in 1 .. Len(s) : Contents[i] = data[s[i]]
<1>1. OnStack = s /\ DOMAIN s = 1 .. Len(s) /\ Len(s) \in Nat
  BY ChainsAreOnStack, ChainShape DEF ChainIsOnStack
<1>2. Contents = [i \in 1 .. Len(s) |-> data[s[i]]]
  BY <1>1 DEF Contents
<1>3. Contents \in [1 .. Len(s) -> Value]
  BY <1>2 DEF IsChain
<1> QED
  BY <1>1, <1>2, <1>3

\* The same of the next state.
ChainsListed ==
    \A s \in Seq(Address) : IsChain(s) =>
        /\ Contents \in Seq(Value) /\ Len(Contents) = Len(s)
        /\ \A i \in 1 .. Len(s) : Contents[i] = data[s[i]]

LEMMA ContentsStaySeq == ChainsListed'
<1>1. ChainsListed
  BY ContentsIsSeq DEF ChainsListed
<1> QED
  BY <1>1, PTL

LEMMA SameContents ==
    ASSUME TypeOK, NEW s \in Seq(Address), IsChain(s), head'.ptr = head.ptr,
           \A m \in Stacked : next'[m].ptr = next[m].ptr /\ data'[m] = data[m]
    PROVE  StackIsChain' /\ Contents' = Contents
<1>1. IsChain(s)'
  BY ChainKept
<1>2. /\ Contents \in Seq(Value) /\ Len(Contents) = Len(s)
      /\ \A i \in 1 .. Len(s) : Contents[i] = data[s[i]]
  BY ContentsIsSeq
<1>3. /\ Contents' \in Seq(Value) /\ Len(Contents') = Len(s)
      /\ \A i \in 1 .. Len(s) : Contents'[i] = data'[s[i]]
  BY <1>1, ContentsStaySeq DEF ChainsListed
<1>4. \A i \in 1 .. Len(s) : data'[s[i]] = data[s[i]]
  BY ChainStacked
<1>5. Contents' = Contents
  BY <1>2, <1>3, <1>4, SeqEqual
<1> QED
  BY <1>1, <1>5 DEF StackIsChain

LEMMA DataStep ==
    ASSUME DataKept, NEW t \in Threads,
           \A u \in Threads : u # t =>
               /\ pc'[u] = pc[u] /\ node'[u] = node[u] /\ ptr'[u] = ptr[u]
               /\ got'[u] = got[u]
               /\ pc[u] = "link" => data'[node[u]] = data[node[u]]
               /\ pc[u] = "swap" => data'[ptr[u]] = data[ptr[u]],
           pc'[t] = "link" => data'[node'[t]] \in Value,
           pc'[t] = "swap" => data'[ptr'[t]] \in Value,
           got'[t] = None <=> pc'[t] \notin {"settle", "deleteTaken", "return"}
    PROVE  DataKept' /\ \A u \in Threads : u # t => Results'[u] = Results[u]
<1>1. DataKept'
  BY DEF DataKept
<1>2. ASSUME NEW u \in Threads, u # t PROVE Results'[u] = Results[u]
  BY <1>2 DEF Results
<1> QED
  BY <1>1, <1>2

LEMMA SameResults ==
    ASSUME NEW t \in Threads, Results'[t] = Results[t],
           \A u \in Threads : u # t => Results'[u] = Results[u]
    PROVE  Results' = Results
<1>1. \A u \in Threads : Results'[u] = Results[u]
  OBVIOUS
<1>2. /\ Results = [u \in Threads |-> Results[u]]
      /\ Results' = [u \in Threads |-> Results'[u]]
  BY DEF Results
<1> QED
  BY <1>1, <1>2, Zenon

LifoStep ==
    StackIsChain' /\ DataKept' /\ [Lifo!Next]_<<Contents, Results>>

\* Steps that the abstract stack does not see.
LEMMA HiddenStep ==
    ASSUME IInv, DataKept, NEW s \in Seq(Address), IsChain(s), NEW t \in Threads,
           \/ Relink(t) \/ LoadHead(t) \/ IncreaseAgain(t) \/ ReadNext(t) \/ LoseNode(t)
           \/ Settle(t) \/ GiveBack(t) \/ DeleteNode(t)
    PROVE  LifoStep
<1>1. /\ UNCHANGED <<head, data, got, node, ptr>>
      /\ \A u \in Threads : u # t => pc'[u] = pc[u]
      /\ pc[t] # "swap" /\ pc'[t] # "swap"
      /\ pc'[t] = "link" => pc[t] = "link"
      /\ pc[t] \in {"settle", "deleteTaken", "return"}
            <=> pc'[t] \in {"settle", "deleteTaken", "return"}
  BY DEF IInv, TypeOK, Relink, LoadHead, IncreaseAgain, ReadNext, LoseNode, Settle,
         GiveBack, DeleteNode, Goto
<1>2. \A m \in Stacked : next'[m] = next[m]
  <2>1. CASE Relink(t)
    <3>1. node[t] \in Address /\ node[t] \in Fresh
      BY <2>1, StackAssumption DEF IInv, TypeOK, Local, Relink, Fresh
    <3>2. node[t] \notin Stacked /\ Stacked \subseteq Address
      BY <3>1, StackShape DEF IInv, NodeStates, NodeState, FreshNode
    <3> QED
      BY <2>1, <3>1, <3>2 DEF IInv, TypeOK, Relink
  <2>2. CASE ~Relink(t)
    BY <2>2 DEF LoadHead, IncreaseAgain, ReadNext, LoseNode, Settle, GiveBack, DeleteNode
  <2> QED
    BY <2>1, <2>2
<1>3. StackIsChain' /\ Contents' = Contents
  BY <1>1, <1>2, SameContents DEF IInv
<1>4. DataKept' /\ \A u \in Threads : u # t => Results'[u] = Results[u]
  BY <1>1, DataStep DEF DataKept
<1>5. Results'[t] = Results[t]
  BY <1>1 DEF Results
<1>6. Results' = Results
  BY <1>4, <1>5, SameResults
<1> QED
  BY <1>3, <1>4, <1>6 DEF LifoStep

LEMMA IncreaseLifo ==
    ASSUME IInv, DataKept, NEW s \in Seq(Address), IsChain(s), NEW t \in Threads,
           IncreaseHeadCount(t)
    PROVE  LifoStep
<1>1. /\ UNCHANGED <<data, node, next>>
      /\ \A u \in Threads : u # t => /\ pc'[u] = pc[u] /\ ptr'[u] = ptr[u]
                                   /\ got'[u] = got[u]
      /\ pc[t] = "increase" /\ pc'[t] = IF head.ptr = Null THEN "return" ELSE "peek"
      /\ got'[t] = IF head.ptr = Null THEN Empty ELSE got[t]
      /\ head' = Ptr(head.ptr, head.count + 1)
  BY DEF IInv, TypeOK, IncreaseHeadCount, Goto
<1>2. head'.ptr = head.ptr
  BY <1>1, CountUp DEF IInv, TypeOK, Counted
<1>3. StackIsChain' /\ Contents' = Contents
  BY <1>1, <1>2, SameContents DEF IInv
<1>4. got[t] = None
  BY <1>1 DEF DataKept
<1>5. DataKept' /\ \A u \in Threads : u # t => Results'[u] = Results[u]
  BY <1>1, <1>4, DataStep, StackAssumption
<1>6. Results[t] = None /\ Results'[t] = IF head.ptr = Null THEN Empty ELSE None
  BY <1>1, <1>4 DEF Results
<1>7. CASE head.ptr = Null
  <2>1. s = << >>
    <3>1. s # << >> => s[1] \in Address
      OBVIOUS
    <3> QED
      BY <1>7, <3>1, StackAssumption DEF IsChain, Descends
  <2>2. Contents = << >>
    <3>1. Contents \in Seq(Value) /\ Len(Contents) = 0
      BY <2>1, ContentsIsSeq, ChainShape
    <3> QED
      BY <3>1, EmptySeq
  <2>3. Results' = [Results EXCEPT ![t] = Empty]
    BY <1>5, <1>6, <1>7 DEF Results
  <2>4. Lifo!Pop(t)
    BY <1>3, <1>6, <2>2, <2>3 DEF Lifo!Pop, Contents, Results
  <2>5. Lifo!Next
    BY <2>4 DEF Lifo!Next
  <2> QED
    BY <1>3, <1>5, <2>5 DEF LifoStep
<1>8. CASE head.ptr # Null
  <2>1. Results' = Results
    BY <1>5, <1>6, <1>8, SameResults
  <2> QED
    BY <1>3, <1>5, <2>1 DEF LifoStep
<1> QED
  BY <1>7, <1>8

LEMMA TakeLifo ==
    ASSUME IInv, DataKept, NEW s \in Seq(Address), IsChain(s), NEW t \in Threads,
           TakeNode(t)
    PROVE  LifoStep
<1>0. PICK a \in Address : a = ptr[t]
  BY DEF IInv, TypeOK, Local, TakeNode, Goto, Holding
<1>1. /\ UNCHANGED <<data, node, next, ptr, got>>
      /\ \A u \in Threads : u # t => pc'[u] = pc[u]
      /\ pc[t] = "exchange" /\ pc'[t] = "swap" /\ head.ptr = a /\ a # Null
      /\ head'.ptr = next[a].ptr
  BY <1>0, StackAssumption DEF IInv, TypeOK, Local, TakeNode, Goto
<1>2. s # << >> /\ s[1] = a
  BY <1>1 DEF IsChain, Descends
<1>3. /\ Len(s) \in Nat /\ Len(s) # 0 /\ 1 \in 1 .. Len(s)
      /\ \A i \in 1 .. Len(s) : data[s[i]] \in Value
  BY <1>2, ChainShape DEF IsChain
<1>4. /\ IsChain(Tail(s))' /\ Tail(s) \in Seq(Address) /\ Len(s) - 1 \in Nat
      /\ Len(Tail(s)) = Len(s) - 1
      /\ \A i \in 1 .. Len(s) - 1 : Tail(s)[i] = s[i + 1]
  BY <1>1, <1>2, ChainPop
<1>5. /\ Contents \in Seq(Value) /\ Len(Contents) = Len(s)
      /\ \A i \in 1 .. Len(s) : Contents[i] = data[s[i]]
  BY ContentsIsSeq
<1>6. /\ Contents' \in Seq(Value) /\ Len(Contents') = Len(s) - 1
      /\ \A i \in 1 .. Len(s) - 1 : Contents'[i] = data[s[i + 1]]
  <2>1. /\ Contents' \in Seq(Value) /\ Len(Contents') = Len(Tail(s))
        /\ \A i \in 1 .. Len(Tail(s)) : Contents'[i] = data'[Tail(s)[i]]
    BY <1>4, ContentsStaySeq DEF ChainsListed
  <2> QED
    BY <1>1, <1>4, <2>1
<1>7. Contents # << >> /\ Head(Contents) = data[a] /\ Contents' = Tail(Contents)
  <2>1. Contents # << >> /\ Contents[1] = data[a]
    BY <1>2, <1>3, <1>5
  <2>2. /\ Head(Contents) = Contents[1] /\ Tail(Contents) \in Seq(Value)
        /\ Len(Tail(Contents)) = Len(s) - 1
        /\ \A i \in 1 .. Len(s) - 1 : Tail(Contents)[i] = Contents[i + 1]
    BY <1>5, <2>1, HeadTailProperties
  <2>3. \A i \in 1 .. Len(s) - 1 : Contents[i + 1] = data[s[i + 1]]
    BY <1>3, <1>5
  <2>4. \A i \in 1 .. Len(s) - 1 : Contents'[i] = Tail(Contents)[i]
    BY <1>6, <2>2, <2>3
  <2>5. Contents' = Tail(Contents)
    BY <1>6, <2>2, <2>4, SeqEqual
  <2> QED
    BY <2>1, <2>2, <2>5
<1>8. got[t] = None /\ data[a] \in Value
  BY <1>1, <1>2, <1>3 DEF DataKept
<1>9. DataKept' /\ \A u \in Threads : u # t => Results'[u] = Results[u]
  BY <1>0, <1>1, <1>8, DataStep
<1>10. Results[t] = None /\ Results' = [Results EXCEPT ![t] = data[a]]
  <2>1. Results[t] = None /\ Results'[t] = data[a]
    BY <1>0, <1>1, <1>8 DEF Results
  <2> QED
    BY <1>9, <2>1 DEF Results
<1>11. Lifo!Pop(t)
  BY <1>7, <1>10 DEF Lifo!Pop, Contents, Results
<1>12. StackIsChain'
  BY <1>4 DEF StackIsChain
<1>13. Lifo!Next
  BY <1>11 DEF Lifo!Next
<1> QED
  BY <1>9, <1>12, <1>13 DEF LifoStep

LEMMA SwapLifo ==
    ASSUME IInv, DataKept, NEW s \in Seq(Address), IsChain(s), NEW t \in Threads,
           SwapData(t)
    PROVE  LifoStep
<1>0. PICK a \in Address : a = ptr[t]
  BY DEF IInv, TypeOK, Local, SwapData, Goto, Holding
<1>1. /\ UNCHANGED <<head, node, next, ptr>>
      /\ \A u \in Threads : u # t => pc'[u] = pc[u] /\ got'[u] = got[u]
      /\ pc[t] = "swap" /\ pc'[t] = "settle" /\ got'[t] = data[a]
      /\ \A n \in Address : n # a => data'[n] = data[n]
  BY <1>0 DEF IInv, TypeOK, SwapData, Goto
<1>2. t \in TakenBy[a] /\ t \in HeldBy[a] /\ NodeState(a) /\ a \in live
  <2>1. a \in live
    BY <1>0, <1>1 DEF IInv, Local, Holding
  <2> QED
    BY <1>0, <1>1, <2>1, GroupMember DEF IInv, NodeStates, Holding
<1>3. a \notin Stacked /\ a \notin Fresh
  BY <1>2 DEF NodeState, FreshNode, StackedNode
<1>4. TakenBy[a] = {t}
  BY <1>2, <1>3 DEF NodeState, TakenNode
<1>5. StackIsChain' /\ Contents' = Contents
  <2>1. \A m \in Stacked : m \in Address /\ m # a
    BY <1>3, StackShape DEF IInv
  <2>2. \A m \in Stacked : next'[m].ptr = next[m].ptr /\ data'[m] = data[m]
    BY <1>1, <2>1
  <2> QED
    BY <1>1, <2>2, SameContents DEF IInv
<1>6. ASSUME NEW u \in Threads, u # t
      PROVE  /\ pc[u] = "link" => data'[node[u]] = data[node[u]]
             /\ pc[u] = "swap" => data'[ptr[u]] = data[ptr[u]]
  <2>1. pc[u] = "link" => node[u] \in Address /\ node[u] # a
    BY <1>3 DEF IInv, TypeOK, Local, Fresh
  <2>2. pc[u] = "swap" => ptr[u] \in Address /\ ptr[u] # a
    <3>1. pc[u] = "swap" => ptr[u] \in Address
      BY DEF IInv, TypeOK, Local, Holding
    <3>2. u \notin TakenBy[a]
      BY <1>4, <1>6
    <3> QED
      BY <3>1, <3>2, GroupMember
  <2> QED
    BY <1>1, <2>1, <2>2
<1>7. data[a] \in Value /\ data[a] # None
  BY <1>0, <1>1, StackAssumption DEF DataKept
<1>8. DataKept' /\ \A u \in Threads : u # t => Results'[u] = Results[u]
  BY <1>1, <1>6, <1>7, DataStep
<1>9. Results[t] = data[a] /\ Results'[t] = data[a]
  BY <1>0, <1>1 DEF Results
<1>10. Results' = Results
  BY <1>8, <1>9, SameResults
<1> QED
  BY <1>5, <1>8, <1>10 DEF LifoStep

LEMMA ReturnLifo ==
    ASSUME IInv, DataKept, NEW s \in Seq(Address), IsChain(s), NEW t \in Threads,
           Return(t)
    PROVE  LifoStep
<1>1. /\ UNCHANGED <<head, data, node, next>>
      /\ \A u \in Threads : u # t => /\ pc'[u] = pc[u] /\ ptr'[u] = ptr[u]
                                   /\ got'[u] = got[u]
      /\ pc[t] = "return" /\ pc'[t] \in {"done", "idle"} /\ got'[t] = None
  BY DEF IInv, TypeOK, Return, Goto
<1>2. StackIsChain' /\ Contents' = Contents
  BY <1>1, SameContents DEF IInv
<1>3. DataKept' /\ \A u \in Threads : u # t => Results'[u] = Results[u]
  BY <1>1, DataStep
<1>4. Results[t] # None /\ Results'[t] = None
  BY <1>1 DEF Results, DataKept
<1>5. Results' = [Results EXCEPT ![t] = None]
  BY <1>3, <1>4 DEF Results
<1>6. Lifo!Return(t)
  BY <1>2, <1>4, <1>5 DEF Lifo!Return, Contents, Results
<1>7. Lifo!Next
  BY <1>6 DEF Lifo!Next
<1> QED
  BY <1>2, <1>3, <1>7 DEF LifoStep

LEMMA MakeLifo ==
    ASSUME IInv, DataKept, NEW s \in Seq(Address), IsChain(s), NEW t \in Threads,
           MakeNode(t)
    PROVE  LifoStep
<1>1. PICK a \in Address :
         /\ a \notin live /\ node'[t] = a /\ data'[a] = <<t, left[t]>>
         /\ \A n \in Address : n # a => data'[n] = data[n] /\ next'[n] = next[n]
  BY DEF IInv, TypeOK, MakeNode
<1>2. /\ UNCHANGED <<head, ptr, got>> /\ pc[t] = "idle" /\ pc'[t] = "link"
      /\ \A u \in Threads : u # t => pc'[u] = pc[u] /\ node'[u] = node[u]
  BY DEF IInv, TypeOK, MakeNode, Goto
<1>3. data'[a] \in Value
  <2>1. left[t] > 0 /\ left[t] \in 0 .. Times /\ left[Owner] = 0 /\ Times \in Nat
    BY StackAssumption DEF IInv, TypeOK, OwnerLast, MakeNode
  <2>2. t \in Users /\ left[t] \in 1 .. Times
    BY <2>1
  <2> QED
    BY <1>1, <2>2 DEF Value
<1>4. StackIsChain' /\ Contents' = Contents
  <2>1. \A m \in Stacked : m \in Address /\ m \in live
    BY StackShape DEF IInv, NodeStates, NodeState, StackedNode
  <2>2. \A m \in Stacked : next'[m].ptr = next[m].ptr /\ data'[m] = data[m]
    BY <1>1, <2>1
  <2> QED
    BY <1>2, <2>2, SameContents DEF IInv
<1>5. ASSUME NEW u \in Threads, u # t
      PROVE  /\ pc[u] = "link" => data'[node[u]] = data[node[u]]
             /\ pc[u] = "swap" => data'[ptr[u]] = data[ptr[u]]
  <2>1. pc[u] = "link" => node[u] \in Address /\ node[u] \in live
    BY DEF IInv, TypeOK, Local, Fresh, NodeStates, NodeState, FreshNode
  <2>2. pc[u] = "swap" => ptr[u] \in Address /\ ptr[u] \in live
    BY DEF IInv, TypeOK, Local, Holding
  <2> QED
    BY <1>1, <2>1, <2>2
<1>6. got[t] = None
  BY <1>2 DEF DataKept
<1>7. DataKept' /\ \A u \in Threads : u # t => Results'[u] = Results[u]
  BY <1>1, <1>2, <1>3, <1>5, <1>6, DataStep
<1>8. Results[t] = None /\ Results'[t] = None
  BY <1>2, <1>6 DEF Results
<1>9. Results' = Results
  BY <1>7, <1>8, SameResults
<1> QED
  BY <1>4, <1>7, <1>9 DEF LifoStep

LEMMA LinkLifo ==
    ASSUME IInv, DataKept, NEW s \in Seq(Address), IsChain(s), NEW t \in Threads,
           LinkNode(t)
    PROVE  LifoStep
<1>0. PICK a \in Address : a = node[t]
  BY StackAssumption DEF IInv, TypeOK, Local, LinkNode, Goto
<1>1. /\ UNCHANGED <<data, next, ptr, got>> /\ pc[t] = "link" /\ pc'[t] = "idle"
      /\ \A u \in Threads : u # t => pc'[u] = pc[u] /\ node'[u] = node[u]
      /\ head'.ptr = a /\ next[a].ptr = head.ptr
  BY <1>0 DEF IInv, TypeOK, LinkNode, Goto, Ptr
<1>2. a \notin Stacked /\ data[a] \in Value
  BY <1>0, <1>1 DEF IInv, NodeStates, NodeState, FreshNode, Fresh, DataKept
<1>3. IsChain(<<a>> \o s)'
  BY <1>1, <1>2, ChainPush
<1>4. /\ Len(s) \in Nat /\ <<a>> \o s \in Seq(Address)
      /\ Len(<<a>> \o s) = Len(s) + 1 /\ (<<a>> \o s)[1] = a
      /\ \A i \in 1 .. Len(s) : (<<a>> \o s)[i + 1] = s[i]
  OBVIOUS
<1>5. /\ Contents \in Seq(Value) /\ Len(Contents) = Len(s)
      /\ \A i \in 1 .. Len(s) : Contents[i] = data[s[i]]
  BY ContentsIsSeq
<1>6. /\ Contents' \in Seq(Value) /\ Len(Contents') = Len(s) + 1
      /\ \A i \in 1 .. Len(s) + 1 : Contents'[i] = data[(<<a>> \o s)[i]]
  <2>1. /\ Contents' \in Seq(Value) /\ Len(Contents') = Len(<<a>> \o s)
        /\ \A i \in 1 .. Len(<<a>> \o s) : Contents'[i] = data'[(<<a>> \o s)[i]]
    BY <1>3, <1>4, ContentsStaySeq DEF ChainsListed
  <2> QED
    BY <1>1, <1>4, <2>1
<1>7. Contents' = <<data[a]>> \o Contents
  <2> DEFINE more == <<data[a]>> \o Contents
  <2>1. /\ more \in Seq(Value) /\ Len(more) = Len(s) + 1 /\ more[1] = data[a]
        /\ \A i \in 1 .. Len(s) : more[i + 1] = Contents[i]
    BY <1>2, <1>5
  <2> HIDE DEF more
  <2>2. ASSUME NEW i \in 1 .. Len(s) + 1 PROVE Contents'[i] = more[i]
    <3>1. CASE i = 1
      BY <1>4, <1>6, <2>1, <3>1
    <3>2. CASE i # 1
      <4>1. i - 1 \in 1 .. Len(s) /\ (i - 1) + 1 = i
        BY <1>4, <3>2
      <4>2. Contents'[i] = data[s[i - 1]] /\ more[i] = data[s[i - 1]]
        BY <1>4, <1>5, <1>6, <2>1, <4>1
      <4> QED
        BY <4>2
    <3> QED
      BY <3>1, <3>2
  <2>3. Contents' = more
    BY <1>6, <2>1, <2>2, SeqEqual
  <2> QED
    BY <2>3 DEF more
<1>8. got[t] = None
  BY <1>1 DEF DataKept
<1>9. DataKept' /\ \A u \in Threads : u # t => Results'[u] = Results[u]
  BY <1>1, <1>8, DataStep
<1>10. Results[t] = None /\ Results'[t] = None
  BY <1>1, <1>8 DEF Results
<1>11. Results' = Results
  BY <1>9, <1>10, SameResults
<1>12. PICK v \in Value : v = data[a]
  BY <1>2
<1>13. Lifo!Next
  <2>1. Lifo!Push(v)
    BY <1>7, <1>11, <1>12 DEF Lifo!Push, Contents, Results
  <2> QED
    BY <2>1 DEF Lifo!Next
<1>14. StackIsChain'
  BY <1>3, <1>4 DEF StackIsChain
<1> QED
  BY <1>9, <1>13, <1>14 DEF LifoStep

LEMMA LifoSteps == IInv /\ StackIsChain /\ DataKept /\ [Next]_vars => LifoStep
<1> SUFFICES ASSUME IInv, StackIsChain, DataKept, [Next]_vars PROVE LifoStep
  OBVIOUS
<1>1. PICK s \in Seq(Address) : IsChain(s)
  BY DEF StackIsChain
<1>2. ASSUME NEW t \in Threads, Push(t) \/ Pop(t) PROVE LifoStep
  BY <1>1, <1>2, HiddenStep, IncreaseLifo, TakeLifo, SwapLifo, ReturnLifo, MakeLifo,
     LinkLifo DEF Push, Pop
<1>3. CASE UNCHANGED vars
  <2>1. UNCHANGED <<head, data, next, node, ptr, pc, got>>
    BY <1>3 DEF vars
  <2>2. StackIsChain' /\ Contents' = Contents
    BY <1>1, <2>1, SameContents DEF IInv
  <2>3. DataKept' /\ Results' = Results
    BY <2>1 DEF DataKept, Results
  <2> QED
    BY <2>2, <2>3 DEF LifoStep
<1>4. CASE ~UNCHANGED vars
  BY <1>2, <1>4 DEF Next, Destroyed
<1> QED
  BY <1>3, <1>4

LEMMA LifoInit == Init => StackIsChain /\ DataKept /\ Lifo!Init
<1> SUFFICES ASSUME Init PROVE StackIsChain /\ DataKept /\ Lifo!Init
  OBVIOUS
<1>1. /\ head.ptr = Null
      /\ \A t \in Threads : pc[t] = "idle" /\ got[t] = None
  BY DEF Init, Ptr
<1>2. << >> \in Seq(Address) /\ IsChain(<< >>) /\ Len(<< >>) = 0
  BY <1>1 DEF IsChain, Descends
<1>3. Contents = << >>
  <2>1. Contents \in Seq(Value) /\ Len(Contents) = 0
    BY <1>2, ContentsIsSeq
  <2> QED
    BY <2>1, EmptySeq
<1>4. DataKept /\ Results = [t \in Threads |-> None]
  BY <1>1 DEF DataKept, Results
<1>5. Lifo!Init
  BY <1>3, <1>4 DEF Lifo!Init, Contents, Results
<1> QED
  BY <1>2, <1>4, <1>5 DEF StackIsChain

\* The pushes and the pops of any number of threads take effect one at a time,
\* last in first out: a push when its exchange succeeds, a pop when its
\* exchange does or when it finds no node to take a reference to.
THEOREM StackIsLifo == Spec /\ [][NoNodeWraps]_vars => IsLifo
<1>1. Spec /\ [][NoNodeWraps]_vars => [](StackIsChain /\ DataKept)
  <2>1. IInv /\ StackIsChain /\ DataKept /\ [Next]_vars => StackIsChain' /\ DataKept'
    BY LifoSteps DEF LifoStep
  <2> QED
    BY <2>1, Invariant, LifoInit, PTL DEF Spec
<1>2. IInv /\ StackIsChain /\ DataKept /\ [Next]_vars
         => [Lifo!Next]_<<Contents, Results>>
  BY LifoSteps DEF LifoStep
<1>3. Spec /\ [][NoNodeWraps]_vars => Lifo!Init /\ [][Lifo!Next]_<<Contents, Results>>
  BY <1>1, <1>2, Invariant, LifoInit, PTL DEF Spec
<1> QED
  BY <1>3, PTL DEF IsLifo, Lifo!Spec, Contents, Results
==============================================================================
