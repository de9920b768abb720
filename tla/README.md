# Shack in TLA+

Shack is a collection of C++ programs and containers. This directory holds TLA+
models of the parts where threads, messages or many-case algorithms make the
code hard to test, TLC configurations that check them on small instances, and
proofs for every instance of some of what the runs check. Paths below are those
of the repository.

## The system

| Component | State | Operations | Talks to |
|---|---|---|---|
| `atm/` message layer (`queue.h`, `sender.h`, `receiver.h`, `dispatcher.h`, `template_dispatcher.h`) | one queue, mutex and condition variable per machine | `Push`, `WaitAndPop`, `Dispatch`, `CloseQueue` | used by the three machines and main |
| ATM (`atm/atm.h`) | `state_`, `pin_`, `withdrawal_amount_` | a state function per state, a handler per message | sends to bank and interface; receives keys and answers |
| Bank (`atm/bank_machine.h`) | `balance_` | verify a PIN, withdraw, tell the balance, note a withdrawal or a cancellation | answers the ATM |
| Interface hardware (`atm/interface_machine.h`) | none (prints) | issue money, display | receives from the ATM |
| ATM program (`atm/main.cpp`) | the loop over keys | press a key, quit, close the queues, join | starts the three machines |
| `SafeQueue` (`common/safe_queue.h`) | list with a dummy, a mutex for each end, a condition variable | `push`, `wait_and_pop` | threads of `test_safe/main.cpp` |
| `FineSafeSet` (`common/safe_set.cpp`) | sorted list, a mutex per node | `add`, `remove` | threads of `test_safe/main.cpp` |
| `UnblockingSafeSet` (`common/safe_set.cpp`, `atomic_markable_pointer.h`) | sorted list, mark and pointer in one word | `find`, `add`, `remove` | threads of `test_safe/main.cpp` |
| `LockFreeStack` (`common/safe_stack.h`) | list, external count in the pointer, internal count in the node | `push`, `pop`, destructor | `Sorter` |
| `Sorter` (`sort_algorithm/parallel_sort.h`) | a stack of chunks, promises, worker threads | `do_sort`, `sort_thread`, destructor | uses `LockFreeStack` |
| `RedBlackTree` (`common/red_black_tree.h`) | nodes, a header that points to root, least and greatest | `Insert`, `Delete`, `Get`, `Valid`, iterator | - |
| `CoarseSafeSet` (`common/safe_set.cpp`) | sorted list, one mutex | `add`, `remove` | nobody |
| `SafeLookupTable` (`common/safe_lookup_table.h`) | buckets, a shared mutex each | `value_for`, `add_or_update_mapping`, `remove_mapping`, `get_map` | constructed in `test_safe/main.cpp` |
| `CountDown` (`common/count_down.cpp`) | count, mutex, condition variable | `Wait`, `GoForIt` | `test_latchadd` of `multi_thread/multi_main.cpp` |
| `test_mem_order` (`multi_thread/mem_order_test.cpp`) | two atomics and three threads | release, acquire-release and acquire accesses | - |
| `LRUHashMap` (`common/lru_hash_map.h`) | hash map, order list, time stamps | `Set`, `Get`, `RetireByTime`, `RetireNum` | its test |
| `PLRU` (`common/PLRU.cpp`) | the bits of a tree | `update_plru` | its test |
| `socket_program/` client and server | UDP sockets | send each argument, read an answer; send back | each other |
| `sort_algorithm/` sequential sorts, `multi_thread/` `parallel_accumulate` | none | six sorts, `small_k`, heap, `binary_search` | their tests |
| `mess/problems.cpp`, `common/` `MinStack`, lists, trees | none, or one object | the exercises | `unit_test.cpp` |
| `daemon/`, opening sockets, timing, type traits | - | calls of the operating system in a row | not modelled |

What is hard: in `atm/`, answers that arrive in a session that did not ask for
them, messages dropped because the state has no handler, closing three queues
one after another; in the containers, every interleaving of threads between two
instructions, and memory that is deleted and used again; in the sort, threads
that wait for one another with calls buried on their stacks; in the tree,
pointers and colours over long sequences of operations; in the echo, a network
that loses, repeats and overtakes; in `test_mem_order`, assertions that rest on
a chain of memory orders; in the LRU map, a clock that can be set back; in the
algorithms, boundaries. `PROJECT.json` lists the hazards, each at its line, with
the properties that cover it.

What makes each component correct:

- message layer: a message is read once, in order, and nobody sleeps beside one;
- ATM and bank: money issued is money charged; a PIN is accepted when it was
  typed right; a session ends with the card; the program can always be quit;
- `SafeQueue`: a FIFO queue; threads with as many pushes as pops end;
- the sets: calls take effect at one moment; a deleted node is not touched;
- `LockFreeStack`: last in, first out; a node is deleted once, and by the last;
- the sort: sorted output, no thread left, no waiting in a circle;
- the tree: ordered, balanced, and the bag of what was inserted and not deleted;
- coarse set and lookup table: calls take effect at one moment, even one that
  reads every bucket;
- the latch: everyone passes, early or late;
- `test_mem_order`: its assertions hold in every execution C++ allows;
- LRU map: what is retired is older than what stays;
- PLRU: the next victim is never the way used last, and in the other half of the
  cache while there are fewer ways than bits;
- the echo: an answer is taken for the right message while nothing is
  duplicated, and the client ends while nothing is lost;
- sorts and exercises: what they return is what their names say.

## The modules

`Messaging` holds the queues; `AtmMachine`, `BankMachine` and `InterfaceMachine`
extend it with the handlers of each machine; `AtmSystem` composes them with
main. The other components stand alone. The abstract specifications are
`CashLedger` (money), `FifoQueue`, `SharedSet` (a set whose calls take effect
between call and return, shared by the three sets), `LifoStack`, `OrderedBag`
and `LookupMap`; each detailed module instantiates its own with a refinement
mapping. `Reachability` has the nodes that a walk along pointers meets, for the
lists of `FineSafeSet`, `UnblockingSafeSet`, `CoarseSafeSet` and
`LockFreeStack`: the least set with the first node and the successor of each of
its nodes. `OrderedBag` has the call in progress and its argument in its state,
so that the tree cannot answer one call with the effect of another.

**Messaging.** `queue[m]` is the `std::queue` of machine `m`, `asleep` the
machines inside `cond_var_.wait`, `running` those whose `Run` has not returned.
A handler runs in one step with the `WaitAndPop` that gave it its message and
with its sends: a machine's own fields are read by no other thread, each queue
is guarded by its mutex, and sends of one handler to different queues are seen
by different threads. So `WithdrawOK` and the subtraction that follows it in
`bank_machine.h:36-37` are one step. `Block` tests and sleeps in one step
because `wait` does both under the mutex `Push` notifies under. A message
without a handler is dropped (`Discard`), as `WaitAndDispatch` does. Data:
accounts and amounts have one value in `main.cpp`; digits are kept because the
PIN is compared.

**AtmMachine.** `state` is `state_`; `prompted` tells whether a state function
that starts with a send has done it. Each handler is an action. `goodPins` and
`authorised` are history. `ClearLastPressed` has a handler and no key that sends
it, so it has no action.

**BankMachine, InterfaceMachine.** `balance` is `balance_`; `issued` counts the
cash printed as issued.

**AtmSystem.** `mainPc` follows `main`: reading, the three `Done()` calls, the
joins. `lastKey` is history.

**SafeQueue.** A program counter per thread. A step is one access of shared
memory: taking a mutex, writing `data`, linking `next`, moving `tail_`,
notifying, the waiter's test (which takes and gives back the tail mutex in
`get_tail`: one load in one step, enabled when that mutex is free), the release
of the head mutex when it goes to sleep, the pop. Nodes are numbered as they are
linked.

**FineSafeSet.** A step per mutex operation, per write of a list pointer and per
delete. Nodes are addresses, and `new` may give one that was deleted. `seen` is
history for `SharedSet`: whether the key was in the set and whether it was
missing since the call.

**UnblockingSafeSet.** A step per load or exchange of a node's word.
`compareAndSet` loads, compares the mark and exchanges; it succeeds only if the
word is the expected one at the exchange, and may fail if it differs at either
moment. It never fails while the word stays as expected, and a word that differs
at the load with the right mark fails at the exchange unless it changes back;
the one step stands for the exchange, or for the load when the mark is wrong.
`find` is written as the code has it, with the inner loop that never goes back
to the head. Nodes are not deleted.

**LockFreeStack.** `head_` is a pointer with a count, exchanged whole. The steps
are the loads and exchanges of `push` and `pop`, the swap of the data, the two
counter updates and the deletes. Deleted addresses are used again. Memory is
sequentially consistent although the code asks for less. `EarlierPops` says how
many pops found the stack empty before the run begins: each of them has
increased the external count of the null pointer, which is never reset while
nothing is pushed.

**ParallelSort.** Each thread has a stack of `do_sort` frames. `Hire` reads
`threads_.size()` and `Spawn` adds a thread later, as the code does: the test is
made without the mutex, so several threads can pass it. `Given` holds the lists
and the answers of `hardware_concurrency()` a run starts from: 0, for unknown,
makes the unsigned maximum wrap to `UintSize - 1`; 1 makes it 0, so that nobody
helps. The read is also a data race with `push_back`: while another thread is
about to add one, `Hire` may go either way, whatever the number is. The stack of
chunks is a sequence, which is what `LockFreeStack` is shown to be.

**RedBlackTree.** Functions for the fields; left and right versions of a
function are one operator with a side. A call is taken apart into steps: a round
of a loop, or one of the functions that call each other to adjust the colours,
is an action, and `step` says which comes next. Nothing else runs meanwhile, but
the steps let the proof say what each function starts from. A node is named by
its item, so the `swap` of two items (`red_black_tree.h:145`) exchanges the
names of two nodes. The delete at the end resets the fields of the node, for the
item may be inserted again. `Get` is the search of `Delete` and changes nothing.
`search` has no `return` before its recursive calls: at the optimisation level
of `Makefile:2` the callee's result is still in the register the caller reads,
and the model takes that outcome. The iterator's unassigned `grand`
(`red_black_tree.h:75`) is the value `Garbage`.

**CoarseSafeSet.** `LockSet`, the steps of the walk, one step for what is done
at its end, `ReturnFromSet`. Nothing uses the class; the threads call it as they
like.

**SafeLookupTable.** Taking and giving back each bucket's mutex, shared or
exclusive, finding the entry and using it are steps; `get_map` takes every mutex
in order before it reads. Only the constructor compiles when it is instantiated
(`hasher` for `hasher_`, an iterator of a const list, members of a `unique_ptr`,
and members private to `BucketType`, both in `get_map`): the model is what the
methods say once these four are read as they are meant.

**CountDownLatch.** What a call does under `mu_` is a step, with falling asleep
one of its own, and spurious wake-ups. `normal_int` is loaded and stored apart.

**MemoryOrder.** Each location is its modification order; a thread's view says
how far down each it must read; a release store carries its writer's view, an
acquire load takes it over, a read-modify-write reads the last value and passes
on the view it read. The loads of `thread_3` are one step: each is relaxed and
of another cell, so none bounds what the next may read.

**LRUHashMap.** `order_` holds nodes, `records_` each key's node and second.
`Tick` moves the clock forward, or back. `lastSet` and `steady` are history.

**TreePLRU.** The loop of the constructor (`CountLevel`) and the loop of
`update_plru` (`Round`) go round by round, with the one round too many that a
cache of 2, 4, 8... ways gets; so a proof can follow the rounds without
recursion. A cache has any number of ways. A shift by the width of the word or
more is undefined; it is taken modulo the width, as on x86. The way to be
replaced is the one that all bits above it point away from (`Victims`): the
source leaves that to its caller.

**UdpEcho.** Messages are numbers. The network is external: it loses, duplicates
(`MaxDuplicates` times) and reorders. `write`, `read` and `sendto` may fail.

**SequentialSorts, Exercises.** One operator per function of the source, with
recursive operators where the source recurses or a loop breaks, and folds where
it loops to the end. What each is compared with follows at the end of the module
(`ArraysAgree`, `ListsAgree`, ...); which quotes `split` pairs is stated there
without its loop (`ArePairs`). Pointers into lists and trees are sequences and
functions.

**MCToolbox** puts these nine side by side. They share nothing: a behaviour
chooses one `part` and takes only its steps; for the algorithms the behaviour
chooses an `input` instead.

## The runs

| Run | Instance and bounds | Distinct states | Checks |
|---|---|---|---|
| `AtmSafety` | PIN of one digit out of two, amount 2, balance 3, 7 keys, 2 messages typed ahead | 2.3 million | `TypeOK`, `CashBacked`, `AuthBacked`, `AnswerOnItsWay`, `NoLostWakeup`, `LedgerKept` |
| `AtmLive` | PIN of two digits, 5 keys, 1 typed ahead, fair threads | 90 thousand | `ShutdownCompletes`, `AnswersArrive`, `LastCancelEjects` |
| `AtmCancel` | as `AtmSafety`, 4 keys | violated | `NoChargeForCancelled` |
| `SafeQueue` | 2 + 2 threads, 2 operations each | 10 thousand | `Linked`, `PopFindsNode`, `IsFifo`, `ProducersFinish` |
| `SafeQueueJoin` | 1 + 1 threads, 3 operations each | violated | `AllThreadsJoin` |
| `FineSet` | 2 + 2 threads, 1 call each, 2 keys, 2 addresses | 93 thousand | `HandOverHand`, `DeletedAlone`, `IsSet`, `AllThreadsJoin` |
| `UnblockingSet` | 2 + 2 threads, 1 call each, 2 keys, 2 nodes | 130 thousand | `SortedList`, `MarkedForGood`, `IsSet` |
| `UnblockingSetJoin` | the same, fair threads | violated | `AllThreadsJoin` |
| `Stack` | 3 users with 2 operations each and the owner, 2 addresses, at most 4 references, counts modulo 7 after 6 pops of the empty stack | 374 thousand up to symmetry | `NoUseAfterFree`, `CountsHolders`, `DeletedOnce`, `IsLifo` |
| `Tree` | 10 items, two with one key | 1.8 million | `IsRedBlackTree`, `IteratorVisitsAll`, `IsBag` |
| `Sort` | 5 elements, two equal, on 3 cores; 1, 2 and 4 elements on 0, 1 and 2; 4 workers | 287 thousand | `ChunkAlive`, `SortsInput`, `SortEnds` |
| `Toolbox` | nine parts side by side, their bounds below | 98 thousand | `SortsAgree`, `ExercisesAgree`, `AssertsHold`, `VictimIsOther`, `EchoAnswers`, `RetiresOldest`, `CoarseIsSet`, `TableIsMap`, `LatchAlwaysOpens`, `EchoAlwaysEnds` |

What the runs show beyond the names of the properties:

- `AtmSafety`: with 7 keys a session can be cancelled while its PIN or its
  withdrawal is verified and another be started that reads the stale answer; the
  answers are then off by one session and still nothing is issued or accepted
  that was not covered. The balance of 3 and the amount of 2 make the first
  withdrawal succeed and the second fail. A PIN of one digit leaves
  `AtmTakesDigit` to `AtmLive`, where it has two.
- `AtmCancel`: insert the card, type the PIN, withdraw, cancel: the account is
  charged, the customer is told the withdrawal was cancelled, no cash comes.
- `SafeQueueJoin`: the consumer tests the empty queue; the producer pushes and
  notifies before the consumer has gone to sleep; no later push wakes it.
- `UnblockingSetJoin`: a find holds a window whose `pre` is marked, or whose
  `pre` got a new successor, while `cur` is marked: the exchange fails, is tried
  again with the same arguments, and so on.
- `Stack`: two addresses for six possible pushes, so that a node is freed and
  its address used again while others still hold the old pointer.
- `Stack`: the external count of the empty stack wraps while a node is pushed on
  it; the count of the new node starts afresh, so that nothing is lost.
- `Sort`: four workers pass a maximum of two; equal elements show that the
  partition loses none; with no help at all (a maximum of 0) every chunk comes
  back to the thread that split it off.
- `Toolbox`: thread 3 of `test_mem_order` never reads what thread 1 released,
  and its assertions hold because the exchange of thread 2 passes it on. With
  two duplicates the client prints the answers of earlier messages, never of
  later ones; a lost datagram, from which nothing saves it, is left out of
  `EchoAlwaysEnds`. With as many ways as bits the round too many of
  `update_plru` clears an inner bit: after way 1 the root's, and the next victim
  is in the half just used. `get_map` sees the table as it was at one moment
  although it reads one bucket after another. Beyond the properties: the clock
  set back makes `RetireByTime` keep records older than its time, and one
  addition to `normal_int` can be lost; nothing in the code promises otherwise.

Why the bounds are enough. `MaxKeys` is the length of the shortest run in which
a stale answer of one session is read by another that has asked again, and
`MaxTypeAhead` lets keys overtake an answer. In the sets, two threads of a kind
meet at one node from both sides, and two keys put neighbours next to each
other. In the stack, two poppers and a pusher are what an exchange of a used
address takes. `MaxRefs` (stack) keeps the retries of `increase_head_count`
finite: it is above the number of threads, so every thread can hold a reference
at once. `CountLimit`, 2^16 in the code, is 7 in the run, more than the threads
that can hold a reference at once and little enough for the 6 `EarlierPops` to
make it wrap: a node's own count wraps only after 65536 increases in a row of
which no pop comes of it, which `MaxRefs` excludes. `MaxNode`, `Address` and
`Workers` are as many as the calls of the run can use, except `Address` of the
stack and the set, which is less so that addresses return. Ten items give trees
of five levels, in which every case of insertion and deletion occurs: the one
expression of the module that TLC's coverage report has as never evaluated is
the early return of a rotation without a child to raise.

The bounds of `Toolbox`. Arrays of up to 5 elements out of 4 values make every
heap, partition and merge with ties, and `MaxChunkSize` 2 makes
`parallel_accumulate` split; lists, trees and hands of cards are as long as the
cases of the function need (a tree of three levels, duplicates at both ends).
Strings have letters, spaces and both kinds of quote, up to 6 characters: the
shortest in which it shows that the closing quote of one kind forgets an open
one of the other is `'"'" "`, whose space is in the second pair. The two cases
of `unit_test.cpp:66-77` (commented out there) are inputs too, with the pieces
they expect; numbers go to four digits with a leading 1. Three adders let the
latch find one asleep, one late and one in between. `Cells` is the 3 of the
source. Three keys set four times between seconds 0 and 2 give a record behind a
younger one. Caches have 0 to 9 ways in a word of 8 bits: fewer ways than bits,
as many (as 32 in the source's 32 bits, where the round too many wraps), and
more; powers of two and others. Three arguments with the middle one too long
give an answer of one message that arrives in the place of another; two
duplicates shift them by more than one. Two threads with two calls each on two
keys (the set), and on three keys with two values in two buckets (the table),
make a change before and behind the reader.

Fairness. Each thread of the containers, the machines, the latch and the echo is
weakly fair: the scheduler runs what can run. Nobody is obliged to press a key,
to quit, to wake up spuriously, to lose a datagram or to let a call fail. In
`FineSafeSet` weak fairness of a thread's next step means that a mutex that is
free for good is taken; each thread makes finitely many calls, so contention
ends. The steps of `MainStep` before the closing are not fair.

Deadlock is checked in every run: each module has a step for the end of the
program (`Finished`, `Joined`, `Destroyed`, `AllJoined`, and the like in the
parts of `MCToolbox`), and any other state without a successor is an error.

## The proofs

The modules whose names end in `_proofs` hold theorems that TLAPS checks for
every value of the constants, from the assumptions in the modules that declare
them. Each invariant that is called inductive below was first checked by TLC on
the run of its component.

**ATM.** `TypeCorrect` is `[]TypeOK`, which is inductive as it stands: it says
of each queue which messages it may hold, so that a message is always one its
reader was meant to get. `CashIsBacked` is `[]CashBacked`: the sum of what was
issued, of the `IssueMoney` messages and of the `WithdrawOK` messages is moved,
never grown, by every step but the bank's grant, which takes the same amount
from the balance. `PinsBackAcceptance` is `[]AuthBacked`, the same argument for
correct PINs on their way to the bank, `PinVerified` on its way back, and
sessions let in. The lemmas it begins with say how `Count` changes under `Push`
and `Pop`. `AnswersUnderWay` is `[]AnswerOnItsWay`: while the ATM waits, the
request or an answer that its state handles is in a queue, and what the state
function throws away is neither. `LedgerImplemented` shows that every step is a
withdrawal or an issue of the `CashLedger`, or leaves it alone; it uses `TypeOK`
and `CashBacked`: an issue is covered because the `IssueMoney` it reads is
counted. `NoWakeupLost` shows that a machine falls asleep only beside an empty
queue and that each push wakes the owner.

**SafeQueue.** `LocksHeld`, `Linked` and `PopFindsNode` lean on each other and
are proved together as the inductive invariant `QueueInv`, their conjunction
with `TypeOK`: a push writes behind the tail because it holds the tail's mutex,
so nodes before the tail are complete; a pop keeps head before tail because
nobody else moves the head while it holds its mutex and the tail only grows.
Each invariant then follows as a theorem (`QueueTypeCorrect`, `LocksExclude`,
`NodesFinished`, `PopIsSafe`). `QueueIsFifo` is the refinement: the contents are
the data of the nodes from head to tail, a push appends when it moves the tail
(`SwingPuts`), a pop takes the first when it moves the head (`PopTakes`), and no
other step is seen (`RestHidden`).

**RedBlackTree.** `TreeIsRedBlack` (`IsRedBlackTree`), `TreeIteratorVisits`
(`IteratorVisitsAll`) and `TreeIsBag` (`IsBag`) hold of any items with integer
keys, equal ones too, and trees of any size. What verify_color computes, and
what a walk meets, would need induction over the tree at every step; the
invariant `TreeInv` avoids it with witnesses. There is, it says, a position for
each node, bounds for the positions below it, and a number for its height, such
that

- the pointers agree both ways and are filled wherever the bounds leave a node
  (`Wired`, `Ranged`, `Filled`), and the positions are in the order of the keys
  (`KeysGrow`);
- each height is that of both children plus one for a black node (`Even`), with
  one missing on the side of `at` while a deletion mends the colours, and a red
  node has a black parent, except `node` while an insertion does (`Reds`);
- the pointers a call works on are where its step needs them (`Placed`): a
  descent has the key between its bounds, the node found by min or max is next
  to the target, the sibling is black where delete_node_complex3 to 6 rely on
  it, and the iterator has given what lies before the place it has come to.

Each is a statement about a node and its children, so a rotation, a new node or
an unlinked one has to be looked at in a few places only; the lemmas
`TurnShape`, `TurnEven`, `TurnMendsEven`, `LinkShape`, `UnlinkShape`,
`UnlinkEven`, `RenameShape` and `FadeEven` do that for any pointers, and a lemma
`Inv...` for each action applies them. A rotation moves no position, which is
why it keeps the order; a new node doubles all positions to fit in. Between the
calls the witnesses give the property: `CountIsHeight` shows that `VerifyColor`
returns the height: of the nodes for which it did not, the one with the
narrowest bounds would have children for which it does. For `TreeIsBag`, Insert
takes effect when the node is linked, Delete when it is unlinked, and a search
that fails has been wherever its key can be.

The tree and the queue share the module `Containers_proofs` and nothing else.

**FineSafeSet.** The inductive invariant `IInv` says which mutexes each thread
holds at each step (`Mutexes`), that the window it holds is on the list and in
place (`Window`), that a node is taken out by one thread (`TakenOutOnce`), and
that the list is `Sorted`: from the head to the tail the keys grow and no key of
the list lies between two neighbours. The order of the keys is what makes a node
the successor of one node only, so that the mutex of that one protects the
pointer to it. `WalksOnLiveNodes` (`HandOverHand`) and `NobodyTouchesDeleted`
(`DeletedAlone`) follow from `IInv`. `SetImplemented` (`IsSet`) maps each step
to the call, the return, or the moment at which the call takes effect, of the
abstract `SharedSet`.

**UnblockingSafeSet.** No thread excludes another, so the invariant `IInv` says
what holds of the list whatever they do: every pointer of a linked node leads to
a linked node with a larger key (`Growing`), every unmarked node is on the list
and the list is in order (`Sorted`), the window of a thread lies where its key
belongs although it may be old (`Place`), and a walk that stands behind the
place of its key has seen the key missing at some moment since the call
(`Missed`). `StaysSorted` and `MarkedNodesStay` are the invariant `SortedList`
and the action property `MarkedForGood`. `SetImplemented` (`IsSet`) uses
`Missed` for the calls that change nothing: they take effect at an earlier
moment than the step that decides them.

**LockFreeStack.** `IInv` follows a node through its life: made by one push
(`FreshNode`), on the stack (`StackedNode`), taken by one pop (`TakenNode`),
held by the pops that lost it (`SettledNode`), deleted. In each state it says
what the two counts add up to: while a pointer that counts the node exists,
`internal` plus its count is the number of holders plus one; afterwards
`internal` is the number of holders, and there is one deleter if and only if it
is zero. `OneWay`, no two pointers on the stack lead to the same node, keeps the
stack a list when a node is linked or taken. `NothingUsedFreed`
(`NoUseAfterFree`), `CountsAreRight` (`CountsHolders`) and `DeletedExactlyOnce`
(`DeletedOnce`) follow. `StackIsLifo` (`IsLifo`) needs the nodes as a sequence:
there is one sequence that the pointers lead along (`DescendsTogether`), it has
no node twice, so it is no longer than there are addresses (`ChainsAreOnStack`),
and a push and a pop put a node before it and take its first (`ChainPush`,
`ChainPop`).

These theorems have the hypothesis `[][NoNodeWraps]_vars`: while a node is at
the top, its external count does not go from `CountLimit - 1` to 0. The code
makes the same assumption (`safe_stack.h:70` asks what to do when the count is
larger than 16 bits), and without it they are false: 2^16 threads, or as many
increases of which no pop comes, would give back more references than were
counted. TLC finds the hypothesis to hold of every step of the `Stack` run. The
count of the null pointer may wrap, in the theorems as in the run.

**Lists.** The lemmas of `Reachability` say what linking a node behind another
and taking one out do to the nodes that a walk meets, with and without sorted
keys. They avoid induction over the length of the walk: what is met is the least
closed set, so that showing another set closed is enough.

**Echo.** `AnswersInOrder` is `[]EchoAnswers` for any number of arguments, of
losses and of duplicates. The property speaks of what was printed; what will be
printed is under way. The inductive invariant `EchoInv` adds that only datagrams
of arguments already sent are under way, counting the server's buffer, and that
without duplicates there is one at most, for the argument whose answer the
client waits for. Every step but the client's own leaves no more copies of a
message than there were (`FewerCopies`), or duplicates one.

**Memory order.** `AssertionsHold` is `[]AssertsHold` for any number of cells.
The inductive invariant `OrderInv` adds that a cell is written once at most,
that every value of `sync` but the first carries a view that knows all the cells
(`HandedOn`: the release store of `thread_1`, and the exchange of `thread_2`,
which passes on what it read), and that `thread_3` knows them when it starts to
assert.

**LRU map.** `OldestRetired` is `RetiresOldest` for any number of keys, calls
and seconds. The inductive invariant `LruInv` says that the list is in the order
of the calls of `Set` (`InOrder`), that each key held has one node and its
record knows it (`OneNodeEach`), and that the stamps grow along the list while
the clock was never set back (`StampsGrow`). So what is retired, always a prefix
of the list, is older than the rest.

**CoarseSafeSet.** `CoarseSetImplemented` (`CoarseIsSet`) rests on `CoarseInv`:
the list is sorted (`ListSorted`), one thread is between lock and unlock
(`OneHolds`), and it walks from neighbour to neighbour before the place of its
key (`Walker`), so that when the walk ends the key is in the set exactly if the
walk stands at it (`KeyFound`). The lemmas of `Reachability` say the rest.

**SafeLookupTable.** `TableImplemented` (`TableIsMap`) rests on `TableInv`: a
key is once in the list of its own bucket and in no other (`KeysInPlace`), a
writer shares a bucket with nobody (`Exclusive`), what a call has found under
its mutex is still there when it uses it (`OnBucket`), and `get_map` has the
mutexes of the buckets it has come to, later of all, and has copied what those
before it hold (`OnAllBuckets`). It takes effect when it copies the last bucket.

**PLRU.** `RootAlwaysNamesHalf` is `[]RootNamesHalf`, the part of
`VictimIsOther` that holds whether or not the ways are a power of two: for every
number of ways below the width of the word, and every width that is a power of
two, only bits of inner nodes are set and the root's says in which half the way
used last is. After the first round pos must never be the root's again, not even
modulo the width. That rests on the number of rounds: `LevelsCounted` says that
`level_` is how often the number of ways can be halved, `AtNode` that the loop
halves in step with it, and that the row of the tree it is in (`InRow`) has no
more nodes than there are ways and divides the width of the word. The rest of
`VictimIsOther` is checked only.

The last six share the module `Toolbox_proofs` and nothing else.

**ParallelSort.** `ChunksAlive` (`ChunkAlive`) and `InputSorted` (`SortsInput`)
are both part of one inductive invariant, `IInv`. The elements a call has to
sort are its `Territory`; an element is `Pending` while a call has not taken it
apart yet, a chunk on the stack holds it, or a call needs it as its pivot. What
is not taken apart yet is in one place and has not been a pivot (`Apart`), so a
pivot names one chunk (`Names`). Each call has the territory it was made for
(`Territories`), its pivot lies between the parts (`Parted`), and what a call
has returned is sorted, with nothing of it pending (`Results`); the last is what
makes the end safe: when the first call returns, a chunk still on the stack, or
a worker in `do_sort`, would have been split off by a call whose pivot is
pending and in the list. The order need only be asymmetric and transitive, as an
`operator<` is, and elements may be equal. Frames are talked of by their place,
thread and height: the lemmas `Replaced`, `Pushed`, `Popped`, `Taken` and
`Returned` say once what each kind of step does to the places.

## Checked, not proved

Liveness and everything about `ENABLED` is out of the prover's reach:
`ShutdownCompletes`, `AnswersArrive`, `LastCancelEjects`, `ProducersFinish`,
`AllThreadsJoin`, `SortEnds`, `LatchAlwaysOpens`, `EchoAlwaysEnds`. `SortsAgree`
and `ExercisesAgree` compare the results of recursive definitions with reference
definitions for every input: that takes induction over the data, and `RECURSIVE`
operators, so they stay with TLC. Of `VictimIsOther` only `RootNamesHalf` is
proved: that the bits leave exactly one way would take induction over the levels
of the tree. Every other property that a passing run checks is a theorem.

## Not modelled

- `SafeStack`, `SafeQueue::try_pop` and `empty`: they do not compile when they
  are instantiated, and nothing uses them.
- `contains` of the sets: a stub that returns false.
- `ClearLastPressed`, `attemptMark`, `set` and the copies of
  `AtomicMarkablePointer`: nothing sends or calls them.
- Printing, destructors that run alone, reading keys, end of input.
- The memory order of `LockFreeStack` (`safe_stack.h:137` and its neighbours),
  and how `std::promise` synchronises its last reference.
- `socket_program/`: finding and opening the sockets; `server.cpp` as it stands
  does not compile (line 36 names `arv`), so the server is its loop as meant.
- The end of PLRU's own test, which throws: its loop passes a way too large.
- `daemon/`: calls of the operating system in a row. The type traits, timing in
  `multi_main.cpp`, and functions nothing runs.
- Null pointers and negative lengths given to the sorts: error codes.

## Plan

Done: the ATM, the queue, the sets, the stack, the sort, the tree, the lookup
table and the small parts as models; proofs of every safety property of the ATM,
`SafeQueue`, the red-black tree, the three sets, the stack, the sort, the echo,
the memory-order test, the LRU map and the lookup table, and of the root's bit
of the PLRU cache. Left: the victim of the PLRU cache for any number of levels,
and the memory of `MemoryOrder` under `LockFreeStack`, for the relaxed
`fetch_sub`.
