---------------------------- MODULE CountDownLatch ----------------------------
(***************************************************************************)
(* CountDown of common/count_down.cpp, and test_latchadd of multi_thread/  *)
(* multi_main.cpp, which uses it: main starts a thread and counts down,    *)
(* once for each thread; the threads wait for the latch, add to a variable *)
(* without a lock, and are joined before the latch is destroyed.           *)
(*                                                                         *)
(* What a call does while it holds mu_ is one step, except that a wait     *)
(* gives the mutex back when it falls asleep.                              *)
(***************************************************************************)
EXTENDS Integers, FiniteSets

CONSTANT Adders         \* the number of threads main starts, 2 in the source

ASSUME AddersAssumption == Adders \in Nat \ {0}

Adder == 1 .. Adders    \* in the order they are started

VARIABLES
    count_,         \* of the latch
    asleep,         \* the threads in con_.wait
    latchPc,        \* where each adder is
    mainPc, turn,   \* where main is, and the adder it is at
    normal_int,
    loaded          \* what an adder has read of normal_int

latchVars == <<count_, asleep, latchPc, mainPc, turn, normal_int, loaded>>

LatchInit ==
    /\ count_ = Adders
    /\ asleep = {}
    /\ latchPc = [t \in Adder |-> "created"]
    /\ mainPc = "start" /\ turn = 1
    /\ normal_int = 0
    /\ loaded = [t \in Adder |-> 0]

LatchGoto(t, from, to) == latchPc[t] = from /\ latchPc' = [latchPc EXCEPT ![t] = to]
------------------------------------------------------------------------------
(* main                                                                    *)

StartAdder ==
    /\ mainPc = "start" /\ mainPc' = "goForIt"
    /\ LatchGoto(turn, "created", "wait")
    /\ UNCHANGED <<count_, asleep, turn, normal_int, loaded>>

\* Mutant: notify_one.
WakeOne == \E t \in asleep : asleep' = asleep \ {t}

\* con_.notify_all
WakeAll == asleep' = {}

GoForIt ==
    /\ mainPc = "goForIt"
    /\ count_' = count_ - 1
    /\ IF count_' = 0 /\ asleep # {} THEN WakeAll ELSE UNCHANGED asleep
    /\ IF turn < Adders THEN mainPc' = "start" /\ turn' = turn + 1
                        ELSE mainPc' = "join" /\ turn' = 1
    /\ UNCHANGED <<latchPc, normal_int, loaded>>

JoinAdder ==
    /\ mainPc = "join"
    /\ latchPc[turn] = "done"
    /\ IF turn < Adders THEN turn' = turn + 1 /\ UNCHANGED mainPc
                        ELSE mainPc' = "destroyed" /\ UNCHANGED turn
    /\ UNCHANGED <<count_, asleep, latchPc, normal_int, loaded>>
------------------------------------------------------------------------------
(* The adders                                                              *)

\* Wait: go on if the count is 0, else sleep.
PassLatch(t) ==
    /\ t \notin asleep
    /\ count_ = 0
    /\ LatchGoto(t, "wait", "load")
    /\ UNCHANGED <<count_, asleep, mainPc, turn, normal_int, loaded>>

FallAsleep(t) ==
    /\ latchPc[t] = "wait" /\ t \notin asleep
    /\ count_ # 0
    /\ asleep' = asleep \cup {t}
    /\ UNCHANGED <<count_, latchPc, mainPc, turn, normal_int, loaded>>

\* A condition variable may wake a thread for no reason.
WakeForNothing(t) ==
    /\ t \in asleep
    /\ asleep' = asleep \ {t}
    /\ UNCHANGED <<count_, latchPc, mainPc, turn, normal_int, loaded>>

\* ++normal_int is not atomic.
LoadInt(t) ==
    /\ LatchGoto(t, "load", "store")
    /\ loaded' = [loaded EXCEPT ![t] = normal_int]
    /\ UNCHANGED <<count_, asleep, mainPc, turn, normal_int>>

StoreInt(t) ==
    /\ LatchGoto(t, "store", "done")
    /\ normal_int' = loaded[t] + 1
    /\ UNCHANGED <<count_, asleep, mainPc, turn, loaded>>
------------------------------------------------------------------------------
MainThread == StartAdder \/ GoForIt \/ JoinAdder

AdderThread(t) == PassLatch(t) \/ FallAsleep(t) \/ LoadInt(t) \/ StoreInt(t)

LatchDestroyed == mainPc = "destroyed" /\ UNCHANGED latchVars

LatchNext ==
    \/ MainThread
    \/ \E t \in Adder : AdderThread(t) \/ WakeForNothing(t)
    \/ LatchDestroyed

LatchSpec == LatchInit /\ [][LatchNext]_latchVars
------------------------------------------------------------------------------
\* Every adder is released, whether it fell asleep before main counted down to
\* 0 or comes later, and main joins them all and destroys the latch.  Nothing is
\* said of normal_int: two adders may read the same value, and one addition is
\* lost.
LatchOpens == <>(mainPc = "destroyed" /\ asleep = {} /\ \A t \in Adder : latchPc[t] = "done")
==============================================================================
