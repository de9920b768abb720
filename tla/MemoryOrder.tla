------------------------------ MODULE MemoryOrder ------------------------------
(***************************************************************************)
(* test_mem_order of multi_thread/mem_order_test.cpp: thread_1 writes data *)
(* with relaxed stores and hands it over to thread_2 by a release store to *)
(* sync, thread_2 to thread_3 by a compare-exchange, and thread_3 asserts  *)
(* that it sees what thread_1 wrote.                                       *)
(*                                                                         *)
(* Memory is that of C++: a location is the list of the values it was      *)
(* given, in modification order.  A thread's view says how far down each   *)
(* list it must read; it may read anything from there on.  What is written *)
(* with release carries the writer's view, and who reads it with acquire   *)
(* takes that view over.                                                   *)
(***************************************************************************)
EXTENDS Integers, Sequences

CONSTANT Cells          \* how many cells data has, 3 in the source

ASSUME CellsAssumption == Cells \in Nat \ {0}

sync == 0               \* the location; those of data are 1 .. Cells
Location == 0 .. Cells
OrderThread == 1 .. 3
Written == 1            \* the value a cell is given and asserted to have, not 0

VARIABLES
    memory,     \* of each location, the values written to it and their views
    view,       \* of each thread, how far each location is known to it
    orderPc,    \* where each thread is
    failed      \* whether an assertion failed

orderVars == <<memory, view, orderPc, failed>>

Unseen == [l \in Location |-> 1]

OrderInit ==
    /\ memory = [l \in Location |-> <<[value |-> 0, view |-> Unseen]>>]
    /\ view = [t \in OrderThread |-> Unseen]
    /\ orderPc = [t \in OrderThread |-> "run"]
    /\ failed = FALSE
------------------------------------------------------------------------------
(* What the orders mean.                                                   *)

Newer(v, w) == [l \in Location |-> IF v[l] < w[l] THEN w[l] ELSE v[l]]

\* t's view after it has gone on to the i-th value of l.
Known(t, l, i) == [view[t] EXCEPT ![l] = i]

\* t appends v to l; with release, what it knows goes along.
StoreRelaxed(t, l, v) ==
    LET i == Len(memory[l]) + 1
    IN  /\ memory' = [memory EXCEPT ![l] = Append(@, [value |-> v, view |-> [Unseen EXCEPT ![l] = i]])]
        /\ view' = [view EXCEPT ![t] = Known(t, l, i)]

StoreRelease(t, l, v) ==
    LET known == Known(t, l, Len(memory[l]) + 1)
    IN  /\ memory' = [memory EXCEPT ![l] = Append(@, [value |-> v, view |-> known])]
        /\ view' = [view EXCEPT ![t] = known]

\* What t can read of l.
Readable(t, l) == view[t][l] .. Len(memory[l])

LoadAcquire(t, l, i) ==
    view' = [view EXCEPT ![t] = Newer(Known(t, l, i), memory[l][i].view)]

\* Replace the last value of l: who reads the new one synchronises with the
\* writer of the old one too.
ExchangeAcqRel(t, l, v) ==
    LET last == Len(memory[l])
        known == Known(t, l, last + 1)
        joined == Newer(known, memory[l][last].view)
    IN  /\ memory' = [memory EXCEPT ![l] = Append(@, [value |-> v, view |-> joined])]
        /\ view' = [view EXCEPT ![t] = joined]
------------------------------------------------------------------------------
(* The threads.                                                            *)

OrderGoto(t, from, to) == orderPc[t] = from /\ orderPc' = [orderPc EXCEPT ![t] = to]

\* thread_1: the stores to data one after another, the i-th when i - 1 are done.
StoreCell(i) ==
    /\ view[1][i] = 1 /\ \A j \in 1 .. i - 1 : view[1][j] > 1
    /\ orderPc[1] = "run"
    /\ StoreRelaxed(1, i, Written)
    /\ UNCHANGED <<orderPc, failed>>

\* Mutant: sync is stored with memory_order_relaxed.
StoreSyncRelaxed ==
    /\ \A i \in 1 .. Cells : view[1][i] > 1
    /\ OrderGoto(1, "run", "done")
    /\ StoreRelaxed(1, sync, 1)
    /\ UNCHANGED failed

StoreSync ==
    /\ \A i \in 1 .. Cells : view[1][i] > 1
    /\ OrderGoto(1, "run", "done")
    /\ StoreRelease(1, sync, 1)
    /\ UNCHANGED failed

\* thread_2 goes on when it has exchanged 1 for 2; until then it reads other
\* values, with acquire, and tries again.
ExchangeSync ==
    /\ OrderGoto(2, "run", "done")
    /\ memory[sync][Len(memory[sync])].value = 1
    /\ ExchangeAcqRel(2, sync, 2)
    /\ UNCHANGED failed

ExchangeFails ==
    /\ orderPc[2] = "run"
    /\ \E i \in Readable(2, sync) :
          memory[sync][i].value # 1 /\ LoadAcquire(2, sync, i)
    /\ UNCHANGED <<memory, orderPc, failed>>

\* thread_3 waits until it reads 2, and then loads each cell, relaxed.
AwaitSync ==
    /\ orderPc[3] = "run"
    /\ \E i \in Readable(3, sync) :
          /\ LoadAcquire(3, sync, i)
          /\ orderPc' = IF memory[sync][i].value < 2 THEN orderPc
                        ELSE [orderPc EXCEPT ![3] = "assert"]
    /\ UNCHANGED <<memory, failed>>

AssertCells ==
    /\ OrderGoto(3, "assert", "done")
    /\ \E read \in [1 .. Cells -> 1 .. 2] :
          /\ \A c \in 1 .. Cells : read[c] \in Readable(3, c)
          /\ view' = [view EXCEPT ![3] = [l \in Location |-> IF l = sync THEN @[l] ELSE read[l]]]
          /\ failed' = (\E c \in 1 .. Cells : memory[c][read[c]].value # Written)
    /\ UNCHANGED memory

OrderDone == (\A t \in OrderThread : orderPc[t] = "done") /\ UNCHANGED orderVars

OrderNext ==
    \/ \E i \in 1 .. Cells : StoreCell(i)
    \/ StoreSync \/ ExchangeSync \/ ExchangeFails \/ AwaitSync \/ AssertCells
    \/ OrderDone

OrderSpec == OrderInit /\ [][OrderNext]_orderVars
------------------------------------------------------------------------------
\* The assertions of thread_3 hold: the exchange of thread_2 hands on what
\* thread_1 released, though thread_3 never reads what thread_1 stored to sync.
AssertsHold == ~failed
==============================================================================
