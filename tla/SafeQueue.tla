------------------------------ MODULE SafeQueue ------------------------------
(***************************************************************************)
(* common/safe_queue.h, a queue with a lock for its head and one for its   *)
(* tail, driven the way test_safe/main.cpp drives it: some threads push a  *)
(* number of values, the others wait_and_pop as many times.                *)
(*                                                                         *)
(* Nodes are numbered in the order they are linked; node 0 is the dummy    *)
(* the constructor makes.  Values are the pairs <<thread, how many of its  *)
(* pushes are left>>, so no two pushes push the same one.                  *)
(***************************************************************************)
EXTENDS Integers, Sequences

CONSTANTS
    Producers, Consumers,   \* the threads of test_safe/main.cpp:115-121
    Times,                  \* how often each of them pushes or pops
    MaxNode,                \* bound: how many nodes can be linked
    Null,                   \* a null pointer
    Free                    \* a mutex nobody holds

Threads == Producers \cup Consumers

ASSUME ThreadAssumption ==
    /\ Producers \cap Consumers = {}
    /\ Times \in Nat \ {0}
    /\ MaxNode \in Nat
    /\ Free \notin Threads
    /\ Null \notin Nat
    /\ Null \notin Producers \X (1 .. Times)

Value == Producers \X (1 .. Times)

\* The dummy and the nodes pushes link behind it.
Nodes == 0 .. MaxNode

VARIABLES
    head, tail,         \* head_ and tail_
    data, next,         \* the fields of the nodes
    headLock, tailLock, \* which thread holds head_mutex_, tail_mutex_
    pc,                 \* where each thread is
    left,               \* how many pushes or pops it still has to do
    taken               \* history: the values popped, in the order of the pops

vars == <<head, tail, data, next, headLock, tailLock, pc, left, taken>>

Init ==
    /\ head = 0
    /\ tail = 0
    /\ data = [n \in Nodes |-> Null]
    /\ next = [n \in Nodes |-> Null]
    /\ headLock = Free
    /\ tailLock = Free
    /\ pc = [t \in Threads |-> IF t \in Producers THEN "lockTail" ELSE "lockHead"]
    /\ left = [t \in Threads |-> Times]
    /\ taken = << >>

Goto(t, from, to) == pc[t] = from /\ pc' = [pc EXCEPT ![t] = to]

\* The thread has done one of its operations; it goes round its loop or ends.
Finish(t, from, again) ==
    /\ left' = [left EXCEPT ![t] = @ - 1]
    /\ Goto(t, from, IF left[t] = 1 THEN "done" ELSE again)
------------------------------------------------------------------------------
(* push: the three writes under tail_mutex_, then notify_one without it.    *)

LockTail(p) ==
    /\ Goto(p, "lockTail", "fill")
    /\ tailLock = Free
    /\ tail < MaxNode
    /\ tailLock' = p
    /\ UNCHANGED <<head, tail, data, next, headLock, left, taken>>

\* Mutant: the data is not stored.
FillNothing(p) ==
    /\ Goto(p, "fill", "link")
    /\ UNCHANGED <<head, tail, data, next, headLock, tailLock, left, taken>>

Fill(p) ==
    /\ Goto(p, "fill", "link")
    /\ data' = [data EXCEPT ![tail] = <<p, left[p]>>]
    /\ UNCHANGED <<head, tail, next, headLock, tailLock, left, taken>>

\* The new node is the next one to be numbered.
Link(p) ==
    /\ Goto(p, "link", "swing")
    /\ next' = [next EXCEPT ![tail] = tail + 1]
    /\ UNCHANGED <<head, tail, data, headLock, tailLock, left, taken>>

\* Mutant: tail_mutex_ is never released.
SwingLocked(p) ==
    /\ Goto(p, "swing", "notify")
    /\ tail' = next[tail]
    /\ UNCHANGED <<head, data, next, headLock, tailLock, left, taken>>

Swing(p) ==
    /\ Goto(p, "swing", "notify")
    /\ tail' = next[tail]
    /\ tailLock' = Free
    /\ UNCHANGED <<head, data, next, headLock, left, taken>>

\* Wake one thread that sleeps in wait, if any does.
Sleepers == {c \in Consumers : pc[c] = "asleep"}

NotifyOne(p) ==
    /\ pc[p] = "notify"
    /\ left' = [left EXCEPT ![p] = @ - 1]
    /\ LET self == IF left[p] = 1 THEN "done" ELSE "lockTail"
       IN  \/ Sleepers = {} /\ pc' = [pc EXCEPT ![p] = self]
           \/ \E c \in Sleepers :
                 pc' = [pc EXCEPT ![p] = self, ![c] = "lockHead"]
    /\ UNCHANGED <<head, tail, data, next, headLock, tailLock, taken>>
------------------------------------------------------------------------------
(* wait_and_pop: head_mutex_ is held from the test of the predicate to the  *)
(* pop, or to the moment the thread sleeps.                                 *)

LockHead(c) ==
    /\ Goto(c, "lockHead", "check")
    /\ headLock = Free
    /\ headLock' = c
    /\ UNCHANGED <<head, tail, data, next, tailLock, left, taken>>

\* Mutant: head_mutex_ is released between the test and the pop.
CheckUnlocks(c) ==
    /\ tailLock = Free
    /\ Goto(c, "check", IF head # tail THEN "pop" ELSE "doze")
    /\ headLock' = Free
    /\ UNCHANGED <<head, tail, data, next, tailLock, left, taken>>

\* The predicate of data_cond_.wait, which takes tail_mutex_ in get_tail.
Check(c) ==
    /\ tailLock = Free
    /\ Goto(c, "check", IF head # tail THEN "pop" ELSE "doze")
    /\ UNCHANGED <<head, tail, data, next, headLock, tailLock, left, taken>>

\* wait releases head_mutex_ and blocks.
Sleep(c) ==
    /\ Goto(c, "doze", "asleep")
    /\ headLock' = Free
    /\ UNCHANGED <<head, tail, data, next, tailLock, left, taken>>

SpuriousWakeup(c) ==
    /\ Goto(c, "asleep", "lockHead")
    /\ UNCHANGED <<head, tail, data, next, headLock, tailLock, left, taken>>

\* Mutant: the data that is returned is that of the new head.
PopNextData(c) ==
    /\ Finish(c, "pop", "lockHead")
    /\ taken' = Append(taken, data[next[head]])
    /\ head' = next[head]
    /\ headLock' = Free
    /\ UNCHANGED <<tail, data, next, tailLock>>

PopHead(c) ==
    /\ Finish(c, "pop", "lockHead")
    /\ taken' = Append(taken, data[head])
    /\ head' = next[head]
    /\ headLock' = Free
    /\ UNCHANGED <<tail, data, next, tailLock>>
------------------------------------------------------------------------------
Push(p) == LockTail(p) \/ Fill(p) \/ Link(p) \/ Swing(p) \/ NotifyOne(p)

WaitAndPop(c) == LockHead(c) \/ Check(c) \/ Sleep(c) \/ PopHead(c)

AllDone == \A t \in Threads : pc[t] = "done"

\* Every thread has been joined.
Joined == AllDone /\ UNCHANGED vars

Next ==
    \/ \E p \in Producers : Push(p)
    \/ \E c \in Consumers : WaitAndPop(c) \/ SpuriousWakeup(c)
    \/ Joined

Spec == Init /\ [][Next]_vars

\* Every thread that can run does; no one promises a spurious wakeup.
Fairness ==
    /\ \A p \in Producers : WF_vars(Push(p))
    /\ \A c \in Consumers : WF_vars(WaitAndPop(c))

FairSpec == Spec /\ Fairness
------------------------------------------------------------------------------
PushSteps == {"lockTail", "fill", "link", "swing", "notify", "done"}
PopSteps == {"lockHead", "check", "doze", "asleep", "pop", "done"}

\* Every variable has its type; in particular no null pointer is ever made the
\* head or the tail, and a thread ends exactly when it has nothing left to do.
TypeOK ==
    /\ head \in Nodes /\ tail \in Nodes
    /\ data \in [Nodes -> Value \cup {Null}]
    /\ next \in [Nodes -> Nodes \cup {Null}]
    /\ headLock \in Consumers \cup {Free}
    /\ tailLock \in Producers \cup {Free}
    /\ pc \in [Threads -> PushSteps \cup PopSteps]
    /\ \A p \in Producers : pc[p] \in PushSteps
    /\ \A c \in Consumers : pc[c] \in PopSteps
    /\ left \in [Threads -> 0 .. Times]
    /\ \A t \in Threads : pc[t] = "done" <=> left[t] = 0
    /\ taken \in Seq(Value)

\* The threads between a lock and its unlock are exactly the holder: at most
\* one writes behind the tail and at most one tests and moves the head.
LocksHeld ==
    /\ \A p \in Producers : pc[p] \in {"fill", "link", "swing"} <=> tailLock = p
    /\ \A c \in Consumers : pc[c] \in {"check", "doze", "pop"} <=> headLock = c

\* From the head to the tail every node has its value and its successor, and
\* the tail has neither unless a push is half way: with two locks a pop never
\* sees a node that a push has not finished, and no push writes a node that was
\* popped.
Linked ==
    /\ head <= tail
    /\ \A n \in Nodes : n < tail => data[n] \in Value /\ next[n] = n + 1
    /\ \A n \in Nodes : n > tail => data[n] = Null /\ next[n] = Null
    /\ \A p \in Producers :
          /\ pc[p] \in {"fill", "link", "swing"} => tail < MaxNode
          /\ pc[p] \in {"link", "swing"} => data[tail] = <<p, left[p]>>
          /\ pc[p] = "swing" => next[tail] = tail + 1
    /\ (\A p \in Producers : pc[p] \notin {"link", "swing"}) => data[tail] = Null
    /\ (\A p \in Producers : pc[p] # "swing") => next[tail] = Null

\* A thread that found the queue not empty still finds it so when it pops:
\* nobody took the node in between.
PopFindsNode == \A c \in Consumers : pc[c] = "pop" => head # tail

\* The queue is a FIFO queue: what lies between head and tail is its contents.
Fifo == INSTANCE FifoQueue
            WITH items <- [i \in 1 .. tail - head |-> data[head + i - 1]]

IsFifo == Fifo!Spec

\* Producers are never blocked for good, neither by each other nor by a
\* consumer that holds head_mutex_ and waits for tail_mutex_ in get_tail.
ProducersFinish == <>(\A p \in Producers : pc[p] = "done")

(***************************************************************************)
(* test_safe/main.cpp:123-125 joins every thread, and with as many pops as *)
(* pushes every thread should end.  push changes the queue and notifies    *)
(* under tail_mutex_ or no lock, while the waiter tests its predicate      *)
(* under head_mutex_: a notification between the test and the sleep wakes  *)
(* nobody.                                                                 *)
(***************************************************************************)
AllThreadsJoin == <>AllDone
==============================================================================
