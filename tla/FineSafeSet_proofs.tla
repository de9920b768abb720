-------------------------- MODULE FineSafeSet_proofs --------------------------
(***************************************************************************)
(* The hand-over-hand list is a linearizable set, and nobody touches a     *)
(* node that was deleted, for any number of threads, calls, keys and       *)
(* addresses.  The mutexes a thread holds keep its window of the list in   *)
(* place; the order of the keys makes every node but the head the          *)
(* successor of one node only.                                             *)
(***************************************************************************)
EXTENDS FineSafeSet, TLAPS

Steps == {"call", "lockHead", "lockCur", "advance", "act", "unlockCur",
          "delete", "unlockPre", "return", "done"}

TypeOK ==
    /\ key \in [Nodes -> Int]
    /\ next \in [Nodes -> Nodes \cup {None}]
    /\ mu \in [Nodes -> Threads \cup {Free}]
    /\ live \in SUBSET Nodes
    /\ pc \in [Threads -> Steps]
    /\ pre \in [Threads -> Nodes]
    /\ cur \in [Threads -> Nodes]
    /\ arg \in [Threads -> Keys \cup {None}]
    /\ answer \in [Threads -> BOOLEAN \cup {None}]
    /\ left \in [Threads -> Int]

\* From the head to the tail the keys grow, and no key lies between two
\* neighbours.
Sorted ==
    /\ OnList \subseteq live /\ Head \in OnList
    /\ key[Head] = MinKey /\ key[Tail] = MaxKey /\ next[Tail] = None
    /\ \A n \in OnList \ {Head, Tail} : key[n] \in Keys
    /\ Ascending(OnList, next, key, Tail)

\* The call of t has been decided, and it took cur out of the list.
Removed(t) ==
    t \in Removers /\ answer[t] = TRUE /\ pc[t] \in {"unlockCur", "delete"}

\* add found the key, so that pre is unlocked first.
Refused(t) == t \in Adders /\ answer[t] = FALSE

HoldsPre(t) ==
    \/ pc[t] \in {"lockCur", "advance", "act", "delete", "unlockPre"}
    \/ pc[t] = "unlockCur" /\ ~Refused(t)

HoldsCur(t) ==
    \/ pc[t] \in {"advance", "act", "unlockCur"}
    \/ pc[t] = "unlockPre" /\ Refused(t)

\* Which mutexes each thread holds.
Mutexes ==
    \A t \in Threads, n \in Nodes :
        mu[n] = t <=> \/ HoldsPre(t) /\ n = pre[t]
                      \/ HoldsCur(t) /\ n = cur[t]

\* The window of the list that thread t stands at.
Window(t) ==
    /\ HoldsPre(t) => pre[t] \in OnList
    /\ HoldsPre(t) /\ HoldsCur(t) => pre[t] # cur[t]
    /\ pc[t] \in {"lockCur", "advance", "act"} =>
           next[pre[t]] = cur[t] /\ key[pre[t]] < arg[t]
    /\ pc[t] = "advance" => key[cur[t]] < arg[t]
    /\ pc[t] = "act" => arg[t] <= key[cur[t]]
    /\ HoldsCur(t) /\ ~Removed(t) => cur[t] \in OnList
    /\ Removed(t) => cur[t] \in live \ OnList

\* A node is taken out by one thread.
TakenOutOnce ==
    \A t, u \in Threads : Removed(t) /\ Removed(u) /\ cur[t] = cur[u] => t = u

\* A thread has an argument while it is in a call, and an answer from the moment
\* it has decided it.
Calls ==
    \A t \in Threads :
        /\ pc[t] \notin {"call", "done"} => arg[t] \in Keys
        /\ pc[t] \in {"call", "lockHead", "lockCur", "advance", "act", "done"} =>
               answer[t] = None
        /\ pc[t] \in {"unlockCur", "delete", "unlockPre", "return"} =>
               answer[t] \in BOOLEAN
        /\ pc[t] = "delete" => t \in Removers /\ answer[t] = TRUE

\* What the history knows of the present.
SeenNow ==
    /\ seen \in [Threads -> SUBSET BOOLEAN]
    /\ \A t \in Threads :
           IF pc[t] \in {"call", "done"} THEN seen[t] = {}
                                         ELSE (arg[t] \in Members) \in seen[t]

Main ==
    /\ TypeOK /\ Sorted /\ Mutexes /\ (\A t \in Threads : Window(t))
    /\ TakenOutOnce /\ Calls

IInv == Main /\ SeenNow
------------------------------------------------------------------------------
USE DEF Threads, Nodes

\* The keys lie between those of the sentinels.
LEMMA KeyRange ==
    /\ MinKey \in Int /\ MaxKey \in Int
    /\ \A k \in Keys : k \in Int /\ MinKey < k /\ k < MaxKey
<1>1. MinKey \in Int /\ MaxKey \in Int /\ Keys \subseteq MinKey + 1 .. MaxKey - 1
  BY ThreadAssumption
<1> QED
  BY <1>1

LEMMA InvInit == Init => IInv
<1> SUFFICES ASSUME Init PROVE IInv
  OBVIOUS
<1> USE ThreadAssumption
<1>1. TypeOK
  BY DEF Init, TypeOK, Steps
<1>2. OnList = {Head, Tail}
  <2>1. next \in [Nodes -> Nodes \cup {None}] /\ next[Head] = Tail /\ next[Tail] = None
    BY <1>1 DEF Init, TypeOK
  <2>2. Head \in OnList /\ Tail \in OnList
    BY <2>1, ReachedClosed DEF OnList, Closed
  <2>3. OnList \subseteq {Head, Tail}
    <3>1. Closed({Head, Tail}, Head, next, None)
      BY <2>1 DEF Closed
    <3>2. {Head, Tail} \in SUBSET Nodes
      OBVIOUS
    <3> QED
      BY <2>1, <3>1, <3>2, ReachedLeast DEF OnList
  <2> QED
    BY <2>2, <2>3
<1>3. Sorted
  BY <1>2 DEF Init, Sorted, Ascending
<1>4. /\ Mutexes /\ (\A t \in Threads : Window(t))
      /\ TakenOutOnce /\ Calls
  BY DEF Init, Mutexes, Window, TakenOutOnce, Calls, HoldsPre, HoldsCur, Removed
<1>5. SeenNow
  BY DEF Init, SeenNow
<1> QED
  BY <1>1, <1>3, <1>4, <1>5 DEF IInv, Main

\* The list is made of nodes, and leads from one to the next.
LEMMA ListNodes ==
    ASSUME TypeOK
    PROVE  OnList \subseteq Nodes /\ Closed(OnList, Head, next, None)
BY ReachedClosed DEF TypeOK, OnList

LEMMA KeyBounds ==
    ASSUME Main
    PROVE  /\ key[Tail] = MaxKey
           /\ \A n \in OnList : key[n] \in Int /\ MinKey <= key[n] /\ key[n] <= MaxKey
<1>1. key[Head] = MinKey /\ key[Tail] = MaxKey
  BY DEF Main, Sorted, Ascending
<1>2. \A n \in OnList \ {Head, Tail} : key[n] \in Keys
  BY DEF Main, Sorted, Ascending
<1>3. MinKey \in Int /\ MaxKey \in Int /\ MinKey < MaxKey
  BY ThreadAssumption
<1> QED
  BY <1>1, <1>2, <1>3, KeyRange

\* A node before the place of a key is not the last one.
LEMMA NotTail ==
    ASSUME Main, NEW n, NEW k \in Keys, key[n] < k
    PROVE  n # Tail
<1>1. key[Tail] = MaxKey
  BY DEF Main, Sorted, Ascending
<1>2. k \in Int /\ k < MaxKey /\ MaxKey \in Int
  BY KeyRange
<1> QED
  BY <1>1, <1>2

\* The step is t's own.
Others(t) ==
    \A u \in Threads \ {t} :
        /\ pc'[u] = pc[u] /\ pre'[u] = pre[u] /\ cur'[u] = cur[u]
        /\ arg'[u] = arg[u] /\ answer'[u] = answer[u]

\* A step of t that leaves the list alone does not disturb other threads.
LEMMA Undisturbed ==
    ASSUME Main, NEW t \in Threads, UNCHANGED <<key, next>>, Others(t),
           live' = live \/ (pc[t] = "delete" /\ live' = live \ {cur[t]})
    PROVE  /\ OnList' = OnList /\ Sorted'
           /\ \A u \in Threads \ {t} :
                 /\ Window(u)'
                 /\ HoldsPre(u)' = HoldsPre(u) /\ HoldsCur(u)' = HoldsCur(u)
                 /\ Removed(u)' = Removed(u)
<1>1. OnList' = OnList
  BY DEF OnList
<1>2. pc[t] = "delete" => Removed(t) /\ cur[t] \in live \ OnList
  BY DEF Main, Window, Calls, Removed
<1>3. Sorted'
  BY <1>1, <1>2 DEF Main, Sorted, Ascending
<1>4. ASSUME NEW u \in Threads \ {t}
      PROVE  /\ HoldsPre(u)' = HoldsPre(u) /\ HoldsCur(u)' = HoldsCur(u)
             /\ Removed(u)' = Removed(u)
  BY <1>4 DEF Others, HoldsPre, HoldsCur, Removed, Refused
<1>5. ASSUME NEW u \in Threads \ {t}
      PROVE  Window(u)'
  <2>1. Removed(u) => cur[u] \in live'
    BY <1>2 DEF Main, TakenOutOnce, Window
  <2>2. Window(u)
    BY DEF Main
  <2> QED
    BY <1>1, <1>4, <2>1, <2>2 DEF Others, Window
<1> QED
  BY <1>1, <1>3, <1>4, <1>5

LEMMA InvCall == ASSUME Main, NEW t \in Threads, Call(t) PROVE Main'
<1> USE ThreadAssumption
<1>1. TypeOK'
  BY DEF Main, TypeOK, Call, Goto, Steps
<1>2. Others(t) /\ UNCHANGED <<key, next>>
  BY DEF Main, TypeOK, Others, Call, Goto
<1>3. /\ OnList' = OnList /\ Sorted'
      /\ \A u \in Threads \ {t} :
            /\ Window(u)'
            /\ HoldsPre(u)' = HoldsPre(u) /\ HoldsCur(u)' = HoldsCur(u)
            /\ Removed(u)' = Removed(u)
  BY <1>2, Undisturbed DEF Call, Goto
<1>4. Window(t)'
  BY DEF Main, TypeOK, Window, Call, Goto, HoldsPre, HoldsCur, Removed, Refused
<1>5. Mutexes'
  BY <1>2, <1>3 DEF Main, TypeOK, Mutexes, Others, Call, Goto, HoldsPre, HoldsCur, Refused
<1>6. TakenOutOnce'
  BY <1>2, <1>3 DEF Main, TypeOK, TakenOutOnce, Others, Call, Goto, Removed, Calls
<1>7. Calls'
  BY <1>2 DEF Main, TypeOK, Calls, Others, Call, Goto, Decide
<1> QED
  BY <1>1, <1>3, <1>4, <1>5, <1>6, <1>7 DEF Main

LEMMA InvLockHead == ASSUME Main, NEW t \in Threads, LockHead(t) PROVE Main'
<1> USE ThreadAssumption
<1>1. TypeOK'
  BY DEF Main, TypeOK, Sorted, Ascending, LockHead, Goto, Steps
<1>2. Others(t) /\ UNCHANGED <<key, next>>
  BY DEF Main, TypeOK, Others, LockHead, Goto
<1>3. /\ OnList' = OnList /\ Sorted'
      /\ \A u \in Threads \ {t} :
            /\ Window(u)'
            /\ HoldsPre(u)' = HoldsPre(u) /\ HoldsCur(u)' = HoldsCur(u)
            /\ Removed(u)' = Removed(u)
  BY <1>2, Undisturbed DEF LockHead, Goto
<1>4. Window(t)'
  <2>1. /\ pc'[t] = "lockCur" /\ pre'[t] = Head /\ cur'[t] = next[Head]
        /\ arg'[t] = arg[t] /\ arg[t] \in Keys
    BY DEF Main, TypeOK, Calls, LockHead, Goto
  <2>2. Head \in OnList' /\ key'[Head] < arg'[t] /\ next'[Head] = cur'[t]
    BY <1>2, <1>3, <2>1, KeyRange DEF Main, Sorted, Ascending
  <2> QED
    BY <2>1, <2>2 DEF Window, HoldsPre, HoldsCur, Removed
<1>5. Mutexes'
  BY <1>2, <1>3 DEF Main, TypeOK, Mutexes, Others, LockHead, Goto, HoldsPre, HoldsCur, Refused
<1>6. TakenOutOnce'
  BY <1>2, <1>3 DEF Main, TypeOK, TakenOutOnce, Others, LockHead, Goto, Removed, Calls
<1>7. Calls'
  BY <1>2 DEF Main, TypeOK, Calls, Others, LockHead, Goto, Decide
<1> QED
  BY <1>1, <1>3, <1>4, <1>5, <1>6, <1>7 DEF Main

LEMMA InvLockCur == ASSUME Main, NEW t \in Threads, LockCur(t) PROVE Main'
<1> USE ThreadAssumption
<1>1. TypeOK'
  BY DEF Main, TypeOK, LockCur, Goto, Steps
<1>2. Others(t) /\ UNCHANGED <<key, next>>
  BY DEF Main, TypeOK, Others, LockCur, Goto
<1>3. /\ OnList' = OnList /\ Sorted'
      /\ \A u \in Threads \ {t} :
            /\ Window(u)'
            /\ HoldsPre(u)' = HoldsPre(u) /\ HoldsCur(u)' = HoldsCur(u)
            /\ Removed(u)' = Removed(u)
  BY <1>2, Undisturbed DEF LockCur, Goto
<1>4. Window(t)'
  <2>1. /\ pc[t] = "lockCur" /\ pc'[t] = IF key[cur[t]] < arg[t] THEN "advance" ELSE "act"
        /\ pre'[t] = pre[t] /\ cur'[t] = cur[t] /\ arg'[t] = arg[t]
        /\ arg[t] \in Int /\ key[cur[t]] \in Int
    BY KeyRange DEF Main, TypeOK, Calls, LockCur, Goto
  <2>2. /\ pre[t] \in OnList /\ next[pre[t]] = cur[t] /\ key[pre[t]] < arg[t]
    BY <2>1 DEF Main, Window, HoldsPre
  <2>3. pre[t] # Tail
    <3>1. arg[t] \in Keys
      BY <2>1 DEF Main, Calls
    <3> QED
      BY <2>2, <3>1, NotTail
  <2>4. cur[t] \in OnList /\ key[pre[t]] < key[cur[t]]
    BY <2>2, <2>3 DEF Main, Sorted, Ascending
  <2>5. pre[t] # cur[t]
    BY <2>4 DEF Main, TypeOK
  <2> QED
    BY <1>2, <1>3, <2>1, <2>2, <2>4, <2>5 DEF Window, HoldsPre, HoldsCur, Removed
<1>5. Mutexes'
  BY <1>2, <1>3 DEF Main, TypeOK, Mutexes, Others, LockCur, Goto, HoldsPre, HoldsCur, Refused
<1>6. TakenOutOnce'
  BY <1>2, <1>3 DEF Main, TypeOK, TakenOutOnce, Others, LockCur, Goto, Removed, Calls
<1>7. Calls'
  BY <1>2 DEF Main, TypeOK, Calls, Others, LockCur, Goto, Decide
<1> QED
  BY <1>1, <1>3, <1>4, <1>5, <1>6, <1>7 DEF Main

LEMMA InvAdvance == ASSUME Main, NEW t \in Threads, Advance(t) PROVE Main'
<1> USE ThreadAssumption
<1>0. /\ pc[t] = "advance" /\ pc'[t] = "lockCur"
      /\ pre'[t] = cur[t] /\ cur'[t] = next[cur[t]] /\ arg'[t] = arg[t]
      /\ cur[t] \in OnList /\ next[cur[t]] \in OnList /\ key[cur[t]] < arg[t]
      /\ pre[t] # cur[t]
  <2>1. /\ pc[t] = "advance" /\ pc'[t] = "lockCur"
        /\ pre'[t] = cur[t] /\ cur'[t] = next[cur[t]] /\ arg'[t] = arg[t]
        /\ arg[t] \in Keys
    BY DEF Main, TypeOK, Calls, Advance, Goto
  <2>2. cur[t] \in OnList /\ key[cur[t]] < arg[t] /\ pre[t] # cur[t]
    BY <2>1 DEF Main, Window, HoldsPre, HoldsCur, Removed
  <2>3. cur[t] # Tail
    BY <2>1, <2>2, NotTail
  <2> QED
    BY <2>1, <2>2, <2>3 DEF Main, Sorted, Ascending
<1>1. TypeOK'
  <2>1. next[cur[t]] \in Nodes
    BY <1>0, ListNodes DEF Main
  <2> QED
    BY <2>1 DEF Main, TypeOK, Advance, Goto, Steps
<1>2. Others(t) /\ UNCHANGED <<key, next>>
  BY DEF Main, TypeOK, Others, Advance, Goto
<1>3. /\ OnList' = OnList /\ Sorted'
      /\ \A u \in Threads \ {t} :
            /\ Window(u)'
            /\ HoldsPre(u)' = HoldsPre(u) /\ HoldsCur(u)' = HoldsCur(u)
            /\ Removed(u)' = Removed(u)
  BY <1>2, Undisturbed DEF Advance, Goto
<1>4. Window(t)'
  BY <1>0, <1>2, <1>3 DEF Window, HoldsPre, HoldsCur, Removed
<1>5. Mutexes'
  BY <1>0, <1>2, <1>3 DEF Main, TypeOK, Mutexes, Others, Advance, HoldsPre, HoldsCur, Refused
<1>6. TakenOutOnce'
  BY <1>2, <1>3 DEF Main, TypeOK, TakenOutOnce, Others, Advance, Goto, Removed, Calls
<1>7. Calls'
  BY <1>2 DEF Main, TypeOK, Calls, Others, Advance, Goto, Decide
<1> QED
  BY <1>1, <1>3, <1>4, <1>5, <1>6, <1>7 DEF Main

LEMMA InvRefuseAdd == ASSUME Main, NEW t \in Threads, RefuseAdd(t) PROVE Main'
<1> USE ThreadAssumption
<1>0. /\ pc[t] = "act" /\ pc'[t] = "unlockPre" /\ t \in Adders /\ t \notin Removers
      /\ pre'[t] = pre[t] /\ cur'[t] = cur[t] /\ arg'[t] = arg[t]
      /\ answer'[t] = FALSE /\ UNCHANGED mu
  BY DEF Main, TypeOK, RefuseAdd, Goto, Decide
<1>1. TypeOK'
  BY DEF Main, TypeOK, RefuseAdd, Goto, Decide, Steps
<1>2. Others(t) /\ UNCHANGED <<key, next>>
  BY DEF Main, TypeOK, Others, RefuseAdd, Goto, Decide
<1>3. /\ OnList' = OnList /\ Sorted'
      /\ \A u \in Threads \ {t} :
            /\ Window(u)'
            /\ HoldsPre(u)' = HoldsPre(u) /\ HoldsCur(u)' = HoldsCur(u)
            /\ Removed(u)' = Removed(u)
  BY <1>2, Undisturbed DEF RefuseAdd, Goto
<1>4. Window(t)'
  BY <1>0, <1>2, <1>3 DEF Main, Window, HoldsPre, HoldsCur, Removed
<1>5. Mutexes'
  BY <1>0, <1>2, <1>3 DEF Main, Mutexes, Others, HoldsPre, HoldsCur, Refused
<1>6. TakenOutOnce'
  BY <1>0, <1>2, <1>3 DEF Main, TakenOutOnce, Others, Removed
<1>7. Calls'
  BY <1>0, <1>2 DEF Main, Calls, Others
<1> QED
  BY <1>1, <1>3, <1>4, <1>5, <1>6, <1>7 DEF Main

LEMMA InvRefuseRemove == ASSUME Main, NEW t \in Threads, RefuseRemove(t) PROVE Main'
<1> USE ThreadAssumption
<1>0. /\ pc[t] = "act" /\ pc'[t] = "unlockCur" /\ t \notin Adders
      /\ pre'[t] = pre[t] /\ cur'[t] = cur[t] /\ arg'[t] = arg[t]
      /\ answer'[t] = FALSE /\ UNCHANGED mu
  BY DEF Main, TypeOK, RefuseRemove, Goto, Decide
<1>1. TypeOK'
  BY DEF Main, TypeOK, RefuseRemove, Goto, Decide, Steps
<1>2. Others(t) /\ UNCHANGED <<key, next>>
  BY DEF Main, TypeOK, Others, RefuseRemove, Goto, Decide
<1>3. /\ OnList' = OnList /\ Sorted'
      /\ \A u \in Threads \ {t} :
            /\ Window(u)'
            /\ HoldsPre(u)' = HoldsPre(u) /\ HoldsCur(u)' = HoldsCur(u)
            /\ Removed(u)' = Removed(u)
  BY <1>2, Undisturbed DEF RefuseRemove, Goto
<1>4. Window(t)'
  BY <1>0, <1>2, <1>3 DEF Main, Window, HoldsPre, HoldsCur, Removed
<1>5. Mutexes'
  BY <1>0, <1>2, <1>3 DEF Main, Mutexes, Others, HoldsPre, HoldsCur, Refused
<1>6. TakenOutOnce'
  BY <1>0, <1>2, <1>3 DEF Main, TakenOutOnce, Others, Removed
<1>7. Calls'
  BY <1>0, <1>2 DEF Main, Calls, Others
<1> QED
  BY <1>1, <1>3, <1>4, <1>5, <1>6, <1>7 DEF Main

LEMMA InvUnlockCur == ASSUME Main, NEW t \in Threads, UnlockCur(t) PROVE Main'
<1> USE ThreadAssumption
<1>0. /\ pc[t] = "unlockCur" /\ answer[t] \in BOOLEAN
      /\ pc'[t] = IF Refused(t) THEN "return"
                  ELSE IF t \in Removers /\ answer[t] THEN "delete" ELSE "unlockPre"
      /\ pre'[t] = pre[t] /\ cur'[t] = cur[t] /\ arg'[t] = arg[t]
      /\ answer'[t] = answer[t] /\ mu' = [mu EXCEPT ![cur[t]] = Free]
      /\ live' = live
  <2>1. pc[t] = "unlockCur" /\ answer[t] \in BOOLEAN
    BY DEF Main, Calls, UnlockCur, Goto
  <2>2. PreFirst(t) = Refused(t)
    BY <2>1 DEF PreFirst, Refused
  <2> QED
    BY <2>1, <2>2 DEF Main, TypeOK, UnlockCur, Goto
<1>1. TypeOK'
  BY DEF Main, TypeOK, UnlockCur, Goto, Steps
<1>2. Others(t) /\ UNCHANGED <<key, next>>
  BY DEF Main, TypeOK, Others, UnlockCur, Goto, Decide
<1>3. /\ OnList' = OnList /\ Sorted'
      /\ \A u \in Threads \ {t} :
            /\ Window(u)'
            /\ HoldsPre(u)' = HoldsPre(u) /\ HoldsCur(u)' = HoldsCur(u)
            /\ Removed(u)' = Removed(u)
  BY <1>2, Undisturbed DEF UnlockCur, Goto
<1>4. Window(t)'
  BY <1>0, <1>2, <1>3 DEF Main, Window, HoldsPre, HoldsCur, Removed, Refused
<1>5. Mutexes'
  BY <1>0, <1>2, <1>3 DEF Main, TypeOK, Mutexes, Window, Others, HoldsPre, HoldsCur, Refused
<1>6. TakenOutOnce'
  BY <1>0, <1>2, <1>3 DEF Main, TakenOutOnce, Others, Removed
<1>7. Calls'
  BY <1>0, <1>2 DEF Main, Calls, Others
<1> QED
  BY <1>1, <1>3, <1>4, <1>5, <1>6, <1>7 DEF Main

LEMMA InvDeleteCur == ASSUME Main, NEW t \in Threads, DeleteCur(t) PROVE Main'
<1> USE ThreadAssumption
<1>0. /\ pc[t] = "delete" /\ pc'[t] = "unlockPre" /\ answer[t] = TRUE
      /\ pre'[t] = pre[t] /\ cur'[t] = cur[t] /\ arg'[t] = arg[t]
      /\ answer'[t] = answer[t] /\ UNCHANGED mu
  BY DEF Main, TypeOK, Calls, DeleteCur, Goto
<1>1. TypeOK'
  BY DEF Main, TypeOK, DeleteCur, Goto, Steps
<1>2. Others(t) /\ UNCHANGED <<key, next>>
  BY DEF Main, TypeOK, Others, DeleteCur, Goto, Decide
<1>3. /\ OnList' = OnList /\ Sorted'
      /\ \A u \in Threads \ {t} :
            /\ Window(u)'
            /\ HoldsPre(u)' = HoldsPre(u) /\ HoldsCur(u)' = HoldsCur(u)
            /\ Removed(u)' = Removed(u)
  BY <1>2, Undisturbed DEF DeleteCur, Goto
<1>4. Window(t)'
  BY <1>0, <1>2, <1>3 DEF Main, Window, HoldsPre, HoldsCur, Removed, Refused
<1>5. Mutexes'
  BY <1>0, <1>2, <1>3 DEF Main, Mutexes, Others, HoldsPre, HoldsCur, Refused
<1>6. TakenOutOnce'
  BY <1>0, <1>2, <1>3 DEF Main, TakenOutOnce, Others, Removed
<1>7. Calls'
  BY <1>0, <1>2 DEF Main, Calls, Others
<1> QED
  BY <1>1, <1>3, <1>4, <1>5, <1>6, <1>7 DEF Main

LEMMA InvUnlockPre == ASSUME Main, NEW t \in Threads, UnlockPre(t) PROVE Main'
<1> USE ThreadAssumption
<1>0. /\ pc[t] = "unlockPre" /\ answer[t] \in BOOLEAN
      /\ pc'[t] = IF Refused(t) THEN "unlockCur" ELSE "return"
      /\ pre'[t] = pre[t] /\ cur'[t] = cur[t] /\ arg'[t] = arg[t]
      /\ answer'[t] = answer[t] /\ mu' = [mu EXCEPT ![pre[t]] = Free]
  <2>1. pc[t] = "unlockPre" /\ answer[t] \in BOOLEAN
    BY DEF Main, Calls, UnlockPre, Goto
  <2>2. PreFirst(t) = Refused(t)
    BY <2>1 DEF PreFirst, Refused
  <2> QED
    BY <2>1, <2>2 DEF Main, TypeOK, UnlockPre, Goto
<1>1. TypeOK'
  BY DEF Main, TypeOK, UnlockPre, Goto, Steps
<1>2. Others(t) /\ UNCHANGED <<key, next>>
  BY DEF Main, TypeOK, Others, UnlockPre, Goto, Decide
<1>3. /\ OnList' = OnList /\ Sorted'
      /\ \A u \in Threads \ {t} :
            /\ Window(u)'
            /\ HoldsPre(u)' = HoldsPre(u) /\ HoldsCur(u)' = HoldsCur(u)
            /\ Removed(u)' = Removed(u)
  BY <1>2, Undisturbed DEF UnlockPre, Goto
<1>4. Window(t)'
  BY <1>0, <1>2, <1>3 DEF Main, Window, HoldsPre, HoldsCur, Removed, Refused
<1>5. Mutexes'
  BY <1>0, <1>2, <1>3 DEF Main, TypeOK, Mutexes, Window, Others, HoldsPre, HoldsCur, Refused
<1>6. TakenOutOnce'
  BY <1>0, <1>2, <1>3 DEF Main, TakenOutOnce, Others, Removed, Refused
<1>7. Calls'
  BY <1>0, <1>2 DEF Main, Calls, Others
<1> QED
  BY <1>1, <1>3, <1>4, <1>5, <1>6, <1>7 DEF Main

LEMMA InvReturn == ASSUME Main, NEW t \in Threads, Return(t) PROVE Main'
<1> USE ThreadAssumption
<1>0. /\ pc[t] = "return" /\ pc'[t] \in {"call", "done"}
      /\ answer'[t] = None /\ UNCHANGED mu
  BY DEF Main, TypeOK, Return, Goto
<1>1. TypeOK'
  BY DEF Main, TypeOK, Return, Goto, Steps
<1>2. Others(t) /\ UNCHANGED <<key, next>>
  BY DEF Main, TypeOK, Others, Return, Goto, Decide
<1>3. /\ OnList' = OnList /\ Sorted'
      /\ \A u \in Threads \ {t} :
            /\ Window(u)'
            /\ HoldsPre(u)' = HoldsPre(u) /\ HoldsCur(u)' = HoldsCur(u)
            /\ Removed(u)' = Removed(u)
  BY <1>2, Undisturbed DEF Return, Goto
<1>4. Window(t)'
  BY <1>0, <1>2, <1>3 DEF Window, HoldsPre, HoldsCur, Removed
<1>5. Mutexes'
  BY <1>0, <1>2, <1>3 DEF Main, Mutexes, Others, HoldsPre, HoldsCur
<1>6. TakenOutOnce'
  BY <1>0, <1>2, <1>3 DEF Main, TakenOutOnce, Others, Removed
<1>7. Calls'
  BY <1>0, <1>2 DEF Main, Calls, Others
<1> QED
  BY <1>1, <1>3, <1>4, <1>5, <1>6, <1>7 DEF Main

\* add links a node between pre and cur.
LEMMA LinkKeepsList ==
    ASSUME Main, NEW p \in OnList, p # Tail, NEW n \in Nodes, NEW k \in Keys,
           n \notin live, key[p] < k, k < key[next[p]],
           next' \in [Nodes -> Nodes \cup {None}], next'[p] = n, next'[n] = next[p],
           \A m \in Nodes \ {p, n} : next'[m] = next[m],
           key'[n] = k, \A m \in Nodes \ {n} : key'[m] = key[m],
           live' = live \cup {n}
    PROVE  /\ OnList' = OnList \cup {n} /\ Sorted'
           /\ n # Head /\ n # Tail /\ k \notin Members
           /\ Members' = Members \cup {k}
<1>1. /\ OnList \subseteq live /\ n \notin OnList /\ n # Head /\ n # Tail
      /\ Head \in OnList /\ Tail \in OnList
      /\ next[p] \in OnList /\ next[p] # None /\ p \in Nodes /\ p # n
      /\ OnList \subseteq Nodes /\ next[Tail] = None
  BY ListNodes, ThreadAssumption DEF Main, Sorted, Ascending
<1>2. OnList' = OnList \cup {n}
  <2>1. /\ next \in [Nodes -> Nodes \cup {None}] /\ None \notin Nodes /\ Head \in Nodes
        /\ p \in Reached(Head, next, None) /\ next[p] # None
        /\ n \in Nodes /\ n \notin Reached(Head, next, None)
    BY <1>1, ThreadAssumption DEF Main, TypeOK, OnList
  <2> HIDE DEF Nodes
  <2>2. Reached(Head, next', None) = Reached(Head, next, None) \cup {n}
    BY <2>1, ReachedLink
  <2> QED
    BY <2>2 DEF OnList
<1>3. \A m \in OnList : key'[m] = key[m] /\ (m # p => next'[m] = next[m])
  BY <1>1
<1>4. Ascending(OnList', next', key', Tail) /\ \A m \in OnList : key[m] # k
  <2>1. Ascending(OnList, next, key, Tail) /\ k \in Int
    BY KeyRange DEF Main, Sorted
  <2> QED
    BY <1>1, <1>2, <1>3, <2>1, AscendingLink
<1>5. Sorted'
  <2>1. \A m \in OnList' \ {Head, Tail} : key'[m] \in Keys
    BY <1>2, <1>3 DEF Main, Sorted
  <2>2. /\ OnList' \subseteq live' /\ Head \in OnList'
        /\ key'[Head] = MinKey /\ key'[Tail] = MaxKey /\ next'[Tail] = None
    BY <1>1, <1>2, <1>3 DEF Main, Sorted
  <2> QED
    BY <1>4, <2>1, <2>2 DEF Sorted
<1>6. k \notin Members
  BY <1>4 DEF Members
<1>7. Members' = Members \cup {k}
  BY <1>1, <1>2, <1>3 DEF Members
<1> QED
  BY <1>1, <1>2, <1>5, <1>6, <1>7

\* remove takes cur out from behind pre.
LEMMA UnlinkKeepsList ==
    ASSUME Main, NEW p \in OnList, NEW c \in Nodes, p # Tail, c # Tail, next[p] = c,
           next' \in [Nodes -> Nodes \cup {None}], next'[p] = next[c],
           \A m \in Nodes \ {p} : next'[m] = next[m],
           key' = key, live' = live
    PROVE  /\ OnList' = OnList \ {c} /\ Sorted'
           /\ c \in OnList /\ c # Head /\ c # p
           /\ key[c] \in Members /\ Members' = Members \ {key[c]}
<1>1. OnList \subseteq Nodes /\ p \in Nodes /\ None \notin Nodes /\ next[Tail] = None
  BY ListNodes, ThreadAssumption DEF Main, Sorted
<1>2. /\ Ascending(OnList \ {c}, next', key, Tail)
      /\ c \in OnList /\ next[c] \in OnList /\ p # c /\ next[c] # c
  <2>1. Ascending(OnList, next, key, Tail) /\ \A m \in OnList \ {p} : next'[m] = next[m]
    BY <1>1 DEF Main, Sorted
  <2> QED
    BY <2>1, AscendingUnlink
<1>3. c # Head
  <2>1. key[Head] = MinKey /\ MinKey <= key[p] /\ MinKey \in Int
    BY KeyBounds, KeyRange DEF Main, Sorted
  <2>2. key[p] \in Int /\ key[p] < key[c] /\ key[c] \in Int
    BY <1>2 DEF Main, Sorted, Ascending
  <2> QED
    BY <2>1, <2>2
<1>4. OnList' = OnList \ {c}
  <2>1. ASSUME NEW m \in OnList, next[m] = c PROVE m = p
    BY <1>1, <2>1, OnePredecessor DEF Main, Sorted
  <2>2. /\ next \in [Nodes -> Nodes \cup {None}] /\ Head \in Nodes
        /\ p \in Reached(Head, next, None) /\ next[c] # None
        /\ \A m \in Reached(Head, next, None) : next[m] = c => m = p
    BY <1>1, <1>2, <2>1 DEF Main, TypeOK, OnList
  <2> HIDE DEF Nodes
  <2>3. Reached(Head, next', None) = Reached(Head, next, None) \ {c}
    BY <1>1, <1>2, <1>3, <2>2, ReachedUnlink
  <2> QED
    BY <2>3 DEF OnList
<1>5. Sorted'
  <2>1. /\ OnList' \subseteq live' /\ Head \in OnList' /\ next'[Tail] = None
        /\ key'[Head] = MinKey /\ key'[Tail] = MaxKey
        /\ \A m \in OnList' \ {Head, Tail} : key'[m] \in Keys
    BY <1>1, <1>3, <1>4 DEF Main, Sorted
  <2> QED
    BY <1>2, <1>4, <2>1 DEF Sorted
<1>6. key[c] \in Members /\ Members' = Members \ {key[c]}
  <2>1. \A a, b \in OnList : key[a] = key[b] => a = b
    BY DEF Main, Sorted, Ascending
  <2> QED
    BY <1>2, <1>3, <1>4, <2>1 DEF Members
<1> QED
  BY <1>2, <1>3, <1>4, <1>5, <1>6

LEMMA InvLinkNode ==
    ASSUME Main, NEW t \in Threads, LinkNode(t)
    PROVE  /\ Main'
           /\ arg[t] \notin Members /\ Members' = Members \cup {arg[t]}
<1> USE ThreadAssumption
<1>1. PICK n \in Address \ live :
         /\ live' = live \cup {n}
         /\ key' = [key EXCEPT ![n] = arg[t]]
         /\ next' = [next EXCEPT ![pre[t]] = n, ![n] = cur[t]]
         /\ mu' = [mu EXCEPT ![n] = Free]
  BY DEF LinkNode
<1>2. /\ pc[t] = "act" /\ pc' = [pc EXCEPT ![t] = "unlockCur"]
      /\ t \in Adders /\ t \notin Removers /\ key[cur[t]] # arg[t]
      /\ answer' = [answer EXCEPT ![t] = TRUE]
      /\ UNCHANGED <<pre, cur, arg, left>>
  BY DEF LinkNode, Goto, Decide
<1>3. /\ pre[t] \in OnList /\ cur[t] \in OnList /\ next[pre[t]] = cur[t]
      /\ pre[t] # cur[t] /\ key[pre[t]] < arg[t] /\ arg[t] <= key[cur[t]]
      /\ arg[t] \in Keys
  BY <1>2 DEF Main, Window, Calls, HoldsPre, HoldsCur, Removed
<1>4. /\ pre[t] # Tail /\ arg[t] < key[cur[t]]
  <2>1. pre[t] # Tail
    BY <1>3, NotTail
  <2>2. arg[t] \in Int /\ key[cur[t]] \in Int
    BY <1>3, KeyRange, KeyBounds
  <2> QED
    BY <1>2, <1>3, <2>1, <2>2
<1>5. /\ OnList \subseteq Nodes /\ OnList \subseteq live /\ n \in Nodes /\ n # pre[t]
  BY <1>3, ListNodes DEF Main, Sorted, Ascending
<1>6. /\ key'[n] = arg[t] /\ \A m \in Nodes \ {n} : key'[m] = key[m]
      /\ next' \in [Nodes -> Nodes \cup {None}]
      /\ next'[pre[t]] = n /\ next'[n] = next[pre[t]]
      /\ \A m \in Nodes \ {pre[t], n} : next'[m] = next[m]
  BY <1>1, <1>3, <1>5 DEF Main, TypeOK
<1>7. /\ OnList' = OnList \cup {n} /\ Sorted'
      /\ arg[t] \notin Members /\ Members' = Members \cup {arg[t]}
  <2>1. n \notin live /\ live' = live \cup {n} /\ arg[t] < key[next[pre[t]]]
    BY <1>1, <1>3, <1>4
  <2> QED
    BY <1>3, <1>4, <1>5, <1>6, <2>1, LinkKeepsList
<1>8. TypeOK'
  <2>1. /\ key' \in [Nodes -> Int] /\ mu' \in [Nodes -> Threads \cup {Free}]
        /\ live' \in SUBSET Nodes
    BY <1>1, <1>3, KeyRange DEF Main, TypeOK
  <2>2. pc' \in [Threads -> Steps] /\ answer' \in [Threads -> BOOLEAN \cup {None}]
    BY <1>2 DEF Main, TypeOK, Steps
  <2> QED
    BY <1>2, <1>6, <2>1, <2>2 DEF Main, TypeOK
<1>9. Others(t) /\ pc'[t] = "unlockCur" /\ answer'[t] = TRUE
  BY <1>2 DEF Main, TypeOK, Others
<1>10. \A u \in Threads \ {t} :
          /\ HoldsPre(u)' = HoldsPre(u) /\ HoldsCur(u)' = HoldsCur(u)
          /\ Removed(u)' = Removed(u)
  BY <1>9 DEF Others, HoldsPre, HoldsCur, Removed, Refused
<1>11. ASSUME NEW u \in Threads PROVE Window(u)'
  <2>1. CASE u = t
    BY <1>2, <1>3, <1>7, <1>9, <2>1 DEF Window, HoldsPre, HoldsCur, Removed, Refused
  <2>2. CASE u # t
    <3>1. /\ pc[u] \in {"lockCur", "advance", "act"} =>
                /\ next'[pre[u]] = next[pre[u]] /\ key'[pre[u]] = key[pre[u]]
                /\ cur[u] \in OnList
      <4>1. SUFFICES ASSUME pc[u] \in {"lockCur", "advance", "act"}
                     PROVE  /\ next'[pre[u]] = next[pre[u]] /\ key'[pre[u]] = key[pre[u]]
                            /\ cur[u] \in OnList
        OBVIOUS
      <4>2. /\ pre[u] \in OnList /\ pre[u] # n /\ mu[pre[u]] = u
            /\ next[pre[u]] = cur[u] /\ key[pre[u]] < arg[u] /\ arg[u] \in Keys
        BY <1>1, <1>5, <4>1 DEF Main, Window, HoldsPre, Mutexes, Calls
      <4>3. mu[pre[t]] = t
        BY <1>2, <1>3, <1>5 DEF Main, Mutexes, HoldsPre
      <4>4. pre[u] # Tail
        BY <4>2, NotTail
      <4> QED
        BY <1>5, <1>6, <2>2, <4>2, <4>3, <4>4 DEF Main, Sorted, Ascending
    <3>2. \A m \in OnList : key'[m] = key[m]
      BY <1>1, <1>5, <1>6
    <3>3. Removed(u) => cur[u] # n
      BY <1>1 DEF Main, Window
    <3>4. Window(u)
      BY DEF Main
    <3> QED
      BY <1>1, <1>7, <1>9, <1>10, <2>2, <3>1, <3>2, <3>3, <3>4 DEF Window, Others
  <2> QED
    BY <2>1, <2>2
<1>12. Mutexes'
  <2>1. \A u \in Threads : mu[n] # u
    BY <1>1, <1>5 DEF Main, Mutexes, Window, Sorted, Ascending
  <2>2. \A u \in Threads, m \in Nodes : mu'[m] = u <=> mu[m] = u
    BY <1>1, <1>5, <2>1 DEF Main, TypeOK
  <2>3. HoldsPre(t) /\ HoldsCur(t) /\ HoldsPre(t)' /\ HoldsCur(t)'
    BY <1>2, <1>9 DEF HoldsPre, HoldsCur, Refused
  <2> QED
    BY <1>2, <1>10, <2>2, <2>3 DEF Main, Mutexes
<1>13. TakenOutOnce'
  BY <1>2, <1>10 DEF Main, TakenOutOnce, Removed
<1>14. Calls'
  <2>1. /\ pc'[t] = "unlockCur" /\ answer'[t] = TRUE /\ arg'[t] \in Keys
    BY <1>2, <1>3, <1>9
  <2>2. ASSUME NEW u \in Threads \ {t}
        PROVE  pc'[u] = pc[u] /\ arg'[u] = arg[u] /\ answer'[u] = answer[u]
    BY <1>2, <1>3, <1>9 DEF Others
  <2> QED
    BY <2>1, <2>2 DEF Main, Calls
<1> QED
  BY <1>7, <1>8, <1>11, <1>12, <1>13, <1>14 DEF Main

LEMMA InvUnlinkNode ==
    ASSUME Main, NEW t \in Threads, UnlinkNode(t)
    PROVE  /\ Main'
           /\ arg[t] \in Members /\ Members' = Members \ {arg[t]}
<1> USE ThreadAssumption
<1>1. /\ pc[t] = "act" /\ pc' = [pc EXCEPT ![t] = "unlockCur"]
      /\ t \in Removers /\ t \notin Adders /\ key[cur[t]] = arg[t]
      /\ next' = [next EXCEPT ![pre[t]] = next[cur[t]]]
      /\ answer' = [answer EXCEPT ![t] = TRUE]
      /\ UNCHANGED <<key, mu, live, pre, cur, arg, left>>
  BY DEF UnlinkNode, Goto, Decide
<1>2. /\ pre[t] \in OnList /\ cur[t] \in OnList /\ next[pre[t]] = cur[t]
      /\ pre[t] # cur[t] /\ key[pre[t]] < arg[t] /\ arg[t] \in Keys
  BY <1>1 DEF Main, Window, Calls, HoldsPre, HoldsCur, Removed
<1>3. pre[t] # Tail /\ cur[t] # Tail
  <2>1. key[Tail] = MaxKey /\ arg[t] < MaxKey /\ arg[t] \in Int
    BY <1>2, KeyBounds, KeyRange
  <2> QED
    BY <1>1, <1>2, <2>1, NotTail
<1>4. /\ OnList \subseteq Nodes /\ OnList \subseteq live /\ next[cur[t]] \in OnList
  BY <1>2, <1>3, ListNodes DEF Main, Sorted, Ascending
<1>5. /\ next' \in [Nodes -> Nodes \cup {None}]
      /\ next'[pre[t]] = next[cur[t]]
      /\ \A m \in Nodes \ {pre[t]} : next'[m] = next[m]
  BY <1>1, <1>2, <1>4 DEF Main, TypeOK
<1>6. /\ OnList' = OnList \ {cur[t]} /\ Sorted'
      /\ arg[t] \in Members /\ Members' = Members \ {arg[t]}
  BY <1>1, <1>2, <1>3, <1>4, <1>5, UnlinkKeepsList
<1>7. TypeOK'
  <2>1. pc' \in [Threads -> Steps] /\ answer' \in [Threads -> BOOLEAN \cup {None}]
    BY <1>1 DEF Main, TypeOK, Steps
  <2> QED
    BY <1>1, <1>5, <2>1 DEF Main, TypeOK
<1>8. Others(t) /\ pc'[t] = "unlockCur" /\ answer'[t] = TRUE
  BY <1>1 DEF Main, TypeOK, Others
<1>9. \A u \in Threads \ {t} :
          /\ HoldsPre(u)' = HoldsPre(u) /\ HoldsCur(u)' = HoldsCur(u)
          /\ Removed(u)' = Removed(u)
  BY <1>8 DEF Others, HoldsPre, HoldsCur, Removed, Refused
<1>10. mu[pre[t]] = t /\ mu[cur[t]] = t
  BY <1>1, <1>2, <1>4 DEF Main, Mutexes, HoldsPre, HoldsCur
<1>11. ASSUME NEW u \in Threads PROVE Window(u)'
  <2>1. CASE u = t
    BY <1>1, <1>2, <1>4, <1>6, <1>8, <2>1 DEF Window, HoldsPre, HoldsCur, Removed, Refused
  <2>2. CASE u # t
    <3>1. HoldsPre(u) => pre[u] # pre[t] /\ pre[u] # cur[t]
      BY <1>2, <1>4, <1>10, <2>2 DEF Main, Mutexes
    <3>2. HoldsCur(u) => cur[u] # cur[t]
      BY <1>2, <1>4, <1>10, <2>2 DEF Main, Mutexes
    <3>3. Window(u)
      BY DEF Main
    <3>4. HoldsPre(u) => next'[pre[u]] = next[pre[u]]
      BY <1>4, <1>5, <3>1, <3>3 DEF Window
    <3>5. Removed(u) => cur[u] \notin OnList'
      BY <1>6, <3>3 DEF Window
    <3> QED
      BY <1>1, <1>6, <1>8, <1>9, <2>2, <3>1, <3>2, <3>3, <3>4, <3>5 DEF Window, Others, HoldsPre
  <2> QED
    BY <2>1, <2>2
<1>12. Mutexes'
  <2>1. HoldsPre(t) /\ HoldsCur(t) /\ HoldsPre(t)' /\ HoldsCur(t)'
    BY <1>1, <1>8 DEF HoldsPre, HoldsCur, Refused
  <2> QED
    BY <1>1, <1>9, <2>1 DEF Main, Mutexes
<1>13. TakenOutOnce'
  <2>1. \A u \in Threads \ {t} : Removed(u) => cur[u] # cur[t]
    BY <1>2 DEF Main, Window
  <2> QED
    BY <1>1, <1>9, <2>1 DEF Main, TakenOutOnce
<1>14. Calls'
  <2>1. /\ pc'[t] = "unlockCur" /\ answer'[t] = TRUE /\ arg'[t] \in Keys
    BY <1>1, <1>2, <1>8
  <2>2. ASSUME NEW u \in Threads \ {t}
        PROVE  pc'[u] = pc[u] /\ arg'[u] = arg[u] /\ answer'[u] = answer[u]
    BY <1>1, <1>2, <1>8 DEF Others
  <2> QED
    BY <2>1, <2>2 DEF Main, Calls
<1> QED
  BY <1>6, <1>7, <1>11, <1>12, <1>13, <1>14 DEF Main

\* What the history knows of the present, it knows again after each step.
LEMMA InvSeen == ASSUME IInv, TypeOK', Observe PROVE SeenNow'
<1>1. \A t \in Threads : seen'[t] =
          IF pc'[t] \in {"call", "done"} THEN {}
          ELSE {arg'[t] \in Members'} \cup (IF pc[t] = "call" THEN {} ELSE seen[t])
  BY DEF Observe
<1>2. DOMAIN seen' = Threads /\ seen' = [t \in DOMAIN seen' |-> seen'[t]]
  BY DEF Observe
<1>3. ASSUME NEW t \in Threads PROVE seen'[t] \in SUBSET BOOLEAN
  <2>1. seen[t] \in SUBSET BOOLEAN /\ (arg'[t] \in Members') \in BOOLEAN
    BY DEF IInv, SeenNow
  <2> QED
    BY <1>1, <2>1
<1> QED
  BY <1>1, <1>2, <1>3 DEF SeenNow

LEMMA InvStep == ASSUME Main, NEW t \in Threads, Step(t) PROVE Main'
BY InvCall, InvLockHead, InvLockCur, InvAdvance, InvRefuseAdd, InvLinkNode,
   InvUnlinkNode, InvRefuseRemove, InvUnlockCur, InvDeleteCur, InvUnlockPre,
   InvReturn DEF Step

LEMMA MainSame == ASSUME Main, UNCHANGED program PROVE Main'
<1>1. OnList' = OnList
  BY DEF OnList, program
<1>2. TypeOK' /\ Sorted' /\ Calls'
  BY <1>1 DEF Main, TypeOK, Sorted, Ascending, Calls, program
<1>3. \A t \in Threads : HoldsPre(t)' = HoldsPre(t) /\ HoldsCur(t)' = HoldsCur(t)
                          /\ Removed(t)' = Removed(t)
  BY DEF HoldsPre, HoldsCur, Removed, Refused, program
<1>4. Mutexes' /\ TakenOutOnce'
  BY <1>3 DEF Main, Mutexes, TakenOutOnce, program
<1>5. \A t \in Threads : Window(t)'
  BY <1>1, <1>3 DEF Main, Window, program
<1> QED
  BY <1>2, <1>4, <1>5 DEF Main

LEMMA InvNext == ASSUME IInv, [Next]_vars PROVE IInv'
<1>1. CASE UNCHANGED vars
  <2>1. Main'
    BY <1>1, MainSame DEF IInv, vars
  <2>2. SeenNow'
    BY <1>1 DEF IInv, SeenNow, Members, OnList, vars, program
  <2> QED
    BY <2>1, <2>2 DEF IInv
<1>2. CASE Next
  <2>1. Main'
    <3>1. CASE \E t \in Threads : Step(t)
      BY <3>1, InvStep DEF IInv
    <3>2. CASE Joined
      BY <3>2, MainSame DEF Joined, IInv
    <3> QED
      BY <1>2, <3>1, <3>2 DEF Next
  <2>2. SeenNow'
    BY <1>2, <2>1, InvSeen DEF Next, Main
  <2> QED
    BY <2>1, <2>2 DEF IInv
<1> QED
  BY <1>1, <1>2

THEOREM Invariant == Spec => []IInv
BY InvInit, InvNext, PTL DEF Spec

\* The pointers of every thread are nodes, and the list is made of nodes
\* (FineSafeSet::add and remove, common/safe_set.cpp:88-136).
THEOREM TypeCorrect == Spec => []TypeOK
BY Invariant, PTL DEF IInv, Main
------------------------------------------------------------------------------
(* Nobody touches a node that was deleted.                                  *)

LEMMA WindowsInPlace == IInv => HandOverHand
<1> SUFFICES ASSUME IInv PROVE HandOverHand
  OBVIOUS
<1>1. OnList \subseteq live /\ Tail \in OnList /\ OnList \subseteq Nodes
  BY ListNodes DEF IInv, Main, Sorted, Ascending
<1>2. \A n \in OnList \ {Tail} : next[n] \in OnList /\ key[n] < key[next[n]]
  BY DEF IInv, Main, Sorted, Ascending
<1>3. ASSUME NEW t \in Threads, pc[t] \in {"lockCur", "advance", "act", "delete"}
      PROVE  mu[pre[t]] = t /\ pre[t] \in OnList
  BY <1>1, <1>3 DEF IInv, Main, Window, Mutexes, HoldsPre
<1>4. ASSUME NEW t \in Threads, pc[t] \in {"lockCur", "advance", "act"}
      PROVE  next[pre[t]] = cur[t] /\ cur[t] \in live
  <2>1. pre[t] \in OnList /\ next[pre[t]] = cur[t] /\ key[pre[t]] < arg[t] /\ arg[t] \in Keys
    BY <1>3, <1>4 DEF IInv, Main, Window, Calls
  <2>2. pre[t] # Tail
    BY <2>1, NotTail DEF IInv
  <2> QED
    BY <1>1, <1>2, <2>1, <2>2
<1>5. ASSUME NEW t \in Threads, pc[t] \in {"advance", "act", "unlockCur"}
      PROVE  mu[cur[t]] = t /\ cur[t] \in live
  <2>1. HoldsCur(t) /\ cur[t] \in Nodes
    BY <1>5 DEF HoldsCur, IInv, Main, TypeOK
  <2>2. cur[t] \in live
    BY <1>1, <2>1 DEF IInv, Main, Window
  <2> QED
    BY <2>1, <2>2 DEF IInv, Main, Mutexes
<1> QED
  BY <1>1, <1>2, <1>3, <1>4, <1>5 DEF HandOverHand

LEMMA UsesHeld ==
    ASSUME IInv, NEW t \in Threads, NEW n \in Uses(t)
    PROVE  n \in OnList \/ (Removed(t) /\ n = cur[t] /\ n \in live)
<1>1. /\ pc[t] \in {"unlockCur", "unlockPre"} => PreFirst(t) = Refused(t)
      /\ pc[t] \in Steps
  BY DEF IInv, Main, TypeOK, Calls, PreFirst, Refused
<1>2. HoldsPre(t) => pre[t] \in OnList
  BY DEF IInv, Main, Window
<1>3. HoldsCur(t) => cur[t] \in OnList \/ (Removed(t) /\ cur[t] \in live)
  BY DEF IInv, Main, Window
<1>4. pc[t] = "delete" => Removed(t) /\ cur[t] \in live
  BY DEF IInv, Main, Window, Calls, Removed
<1>5. pc[t] = "lockCur" => cur[t] \in OnList
  <2>1. SUFFICES ASSUME pc[t] = "lockCur" PROVE cur[t] \in OnList
    OBVIOUS
  <2>2. pre[t] \in OnList /\ next[pre[t]] = cur[t] /\ key[pre[t]] < arg[t] /\ arg[t] \in Keys
    BY <2>1 DEF IInv, Main, Window, Calls, HoldsPre
  <2>3. pre[t] # Tail
    BY <2>2, NotTail DEF IInv
  <2> QED
    BY <2>2, <2>3 DEF IInv, Main, Sorted, Ascending
<1>6. \/ n = pre[t] /\ HoldsPre(t)
      \/ n = cur[t] /\ (HoldsCur(t) \/ pc[t] \in {"lockCur", "delete"})
  BY <1>1 DEF Uses, HoldsPre, HoldsCur, Steps
<1> QED
  BY <1>2, <1>3, <1>4, <1>5, <1>6

LEMMA DeletesAlone == IInv => DeletedAlone
<1> SUFFICES ASSUME IInv, NEW t \in Threads
             PROVE  /\ Uses(t) \subseteq live
                    /\ pc[t] = "delete" => \A u \in Threads \ {t} : cur[t] \notin Uses(u)
  BY DEF DeletedAlone
<1>1. Uses(t) \subseteq live
  BY UsesHeld DEF IInv, Main, Sorted, Ascending
<1>2. ASSUME pc[t] = "delete", NEW u \in Threads \ {t} PROVE cur[t] \notin Uses(u)
  <2>1. Removed(t) /\ cur[t] \notin OnList
    BY <1>2 DEF IInv, Main, Window, Calls, Removed
  <2>2. ~(Removed(u) /\ cur[u] = cur[t])
    BY <2>1 DEF IInv, Main, TakenOutOnce
  <2> QED
    BY <2>1, <2>2, UsesHeld
<1> QED
  BY <1>1, <1>2

\* Hand over hand, a walk stays on the list, and what it stands on is live and
\* locked (the walks of add and remove, common/safe_set.cpp:88-123).
THEOREM WalksOnLiveNodes == Spec => []HandOverHand
BY Invariant, WindowsInPlace, PTL

\* A node is deleted by the thread that took it out, when no other thread will
\* lock, read or unlock it (the delete of remove, common/safe_set.cpp:127).
THEOREM NobodyTouchesDeleted == Spec => []DeletedAlone
BY Invariant, DeletesAlone, PTL
------------------------------------------------------------------------------
(* The list is a set that the threads share.                                *)

call == [t \in Threads |->
            IF pc[t] \in {"call", "done"} THEN None
            ELSE [op |-> IF t \in Adders THEN "add" ELSE "remove",
                  key |-> arg[t]]]

LEMMA InCall ==
    ASSUME IInv, NEW t \in Threads
    PROVE  IF pc[t] \in {"call", "done"} THEN call[t] = None
           ELSE /\ call[t] # None /\ call[t].key = arg[t] /\ arg[t] \in Keys
                /\ call[t].op = IF t \in Adders THEN "add" ELSE "remove"
<1>1. CASE pc[t] \in {"call", "done"}
  BY <1>1 DEF call
<1>2. CASE pc[t] \notin {"call", "done"}
  <2>1. arg[t] \in Keys
    BY <1>2 DEF IInv, Main, Calls
  <2>2. call[t] = [op |-> IF t \in Adders THEN "add" ELSE "remove", key |-> arg[t]]
    BY <1>2 DEF call
  <2>3. call[t] \in [op : {"add", "remove"}, key : Keys]
    BY <2>1, <2>2
  <2> QED
    BY <1>2, <2>1, <2>2, <2>3, ThreadAssumption
<1> QED
  BY <1>1, <1>2

LEMMA SharedInit == Init => Shared!Init
<1> SUFFICES ASSUME Init PROVE Shared!Init
  OBVIOUS
<1>1. Members = {}
  <2>1. next \in [Nodes -> Nodes \cup {None}] /\ next[Head] = Tail /\ next[Tail] = None
    BY ThreadAssumption DEF Init
  <2>2. Closed({Head, Tail}, Head, next, None)
    BY <2>1 DEF Closed
  <2>3. {Head, Tail} \in SUBSET Nodes
    OBVIOUS
  <2>4. OnList \subseteq {Head, Tail}
    BY <2>1, <2>2, <2>3, ReachedLeast DEF OnList
  <2> QED
    BY <2>4 DEF Members
<1>2. call = [t \in Threads |-> None]
  BY DEF Init, call
<1> QED
  BY <1>1, <1>2 DEF Init, Shared!Init, call

\* Both histories are kept alike.
LEMMA SharedObserves == ASSUME IInv, IInv', Observe PROVE Shared!Observe
<1>1. \A t \in Threads : (call[t] = None) = (pc[t] \in {"call", "done"})
  BY InCall
<1>2. \A t \in Threads :
         IF pc'[t] \in {"call", "done"} THEN call'[t] = None
         ELSE call'[t] # None /\ call'[t].key = arg'[t]
  <2>1. ASSUME NEW t \in Threads, pc'[t] \in {"call", "done"} PROVE call'[t] = None
    BY <2>1 DEF call
  <2>2. ASSUME NEW t \in Threads, pc'[t] \notin {"call", "done"}
        PROVE  call'[t] # None /\ call'[t].key = arg'[t]
    <3>1. arg'[t] \in Keys
      BY <2>2 DEF IInv, Main, Calls
    <3>2. call'[t] = [op |-> IF t \in Adders THEN "add" ELSE "remove", key |-> arg'[t]]
      BY <2>2 DEF call
    <3>3. call'[t] \in [op : {"add", "remove"}, key : Keys]
      BY <3>1, <3>2
    <3> QED
      BY <3>2, <3>3, ThreadAssumption
  <2> QED
    BY <2>1, <2>2
<1>3. ASSUME NEW t \in Threads
      PROVE  seen'[t] = IF call'[t] = None THEN {}
                        ELSE LET there == call'[t].key \in Members'
                             IN  IF call[t] = None THEN {there} ELSE seen[t] \cup {there}
  <2>1. seen'[t] = IF pc'[t] \in {"call", "done"} THEN {}
                   ELSE {arg'[t] \in Members'} \cup (IF pc[t] = "call" THEN {} ELSE seen[t])
    BY DEF Observe
  <2>2. pc[t] \in {"call", "done"} => seen[t] = {}
    BY DEF IInv, SeenNow
  <2> QED
    BY <1>1, <1>2, <2>1, <2>2
<1>4. seen' = [t \in Threads |-> seen'[t]]
  BY DEF Observe
<1> HIDE DEF call
<1>5. seen' = [t \in Threads |->
                 IF call'[t] = None THEN {}
                 ELSE LET there == call'[t].key \in Members'
                      IN  IF call[t] = None THEN {there} ELSE seen[t] \cup {there}]
  BY <1>3, <1>4, Zenon
<1> QED
  BY <1>5 DEF Shared!Observe, call

\* A step inside a call changes nothing that is promised.
LEMMA Inside ==
    ASSUME IInv, IInv', Observe, NEW t \in Threads, UNCHANGED <<key, next, arg, answer>>,
           NEW to \in Steps \ {"call", "done"}, pc' = [pc EXCEPT ![t] = to],
           pc[t] \notin {"call", "done"}
    PROVE  UNCHANGED Shared!vars
<1>1. Members' = Members
  BY DEF Members, OnList
<1>2. \A u \in Threads : pc'[u] \in {"call", "done"} <=> pc[u] \in {"call", "done"}
  BY DEF IInv, Main, TypeOK
<1>3. call' = call
  BY <1>2 DEF call
<1>4. seen' = seen
  <2>1. ASSUME NEW u \in Threads PROVE seen'[u] = seen[u]
    <3>1. seen'[u] = IF pc'[u] \in {"call", "done"} THEN {}
                     ELSE {arg'[u] \in Members'} \cup (IF pc[u] = "call" THEN {} ELSE seen[u])
      BY DEF Observe
    <3>2. IF pc[u] \in {"call", "done"} THEN seen[u] = {}
                                       ELSE (arg[u] \in Members) \in seen[u]
      BY DEF IInv, SeenNow
    <3> QED
      BY <1>1, <1>2, <3>1, <3>2
  <2>2. seen \in [Threads -> SUBSET BOOLEAN] /\ seen' \in [Threads -> SUBSET BOOLEAN]
    BY DEF IInv, SeenNow
  <2> QED
    BY <2>1, <2>2
<1> QED
  BY <1>1, <1>3, <1>4 DEF Shared!vars, call

\* The answer FALSE is given while the set is what it says.
LEMMA FoundOrMissing ==
    ASSUME IInv, NEW t \in Threads, pc[t] = "act"
    PROVE  arg[t] \in Members <=> key[cur[t]] = arg[t]
<1>1. /\ pre[t] \in OnList /\ cur[t] \in OnList /\ next[pre[t]] = cur[t]
      /\ key[pre[t]] < arg[t] /\ arg[t] <= key[cur[t]] /\ arg[t] \in Keys
  BY DEF IInv, Main, Window, Calls, HoldsPre, HoldsCur, Removed
<1>2. arg[t] \in Int /\ MinKey < arg[t] /\ arg[t] < MaxKey /\ MinKey \in Int /\ MaxKey \in Int
  BY <1>1, KeyRange
<1>3. key[Head] = MinKey /\ key[Tail] = MaxKey /\ \A n \in OnList : key[n] \in Int
  BY ListNodes DEF IInv, Main, Sorted, Ascending, TypeOK
<1>4. key[cur[t]] = arg[t] => arg[t] \in Members
  BY <1>1, <1>2, <1>3 DEF Members
<1>5. ASSUME NEW n \in OnList, key[n] = arg[t] PROVE key[cur[t]] = arg[t]
  <2>1. key[next[pre[t]]] <= key[n]
    BY <1>1, <1>5 DEF IInv, Main, Sorted, Ascending
  <2> QED
    BY <1>1, <1>2, <1>3, <1>5, <2>1
<1> QED
  BY <1>4, <1>5 DEF Members

LEMMA CallImplements ==
    ASSUME IInv, IInv', NEW t \in Threads, Call(t), Observe
    PROVE  Shared!Next
<1>1. PICK k \in Keys : arg' = [arg EXCEPT ![t] = k]
  BY DEF Call
<1> DEFINE op == IF t \in Adders THEN "add" ELSE "remove"
<1>2. Members' = Members
  BY DEF Call, Members, OnList
<1>3. call[t] = None
  BY DEF Call, Goto, call
<1>4. call' = [call EXCEPT ![t] = [op |-> op, key |-> k]]
  <2>1. pc'[t] = "lockHead" /\ arg'[t] = k
    BY <1>1 DEF IInv, Main, TypeOK, Call, Goto
  <2>2. \A u \in Threads \ {t} : pc'[u] = pc[u] /\ arg'[u] = arg[u]
    BY <1>1 DEF IInv, Main, TypeOK, Call, Goto
  <2> QED
    BY <2>1, <2>2 DEF call
<1>5. answer' = answer
  BY DEF Call
<1>6. Shared!Call(t, op, k)
  BY <1>2, <1>3, <1>4, <1>5 DEF Shared!Call, call
<1> QED
  BY <1>6, SharedObserves DEF Shared!Next

LEMMA AnswerImplements ==
    ASSUME IInv, IInv', NEW t \in Threads, Observe,
           RefuseAdd(t) \/ LinkNode(t) \/ UnlinkNode(t) \/ RefuseRemove(t)
    PROVE  Shared!Next
<1> USE ThreadAssumption
<1>1. /\ pc[t] = "act" /\ arg[t] \in Keys /\ answer[t] = None
      /\ \E to \in {"unlockPre", "unlockCur"} : pc' = [pc EXCEPT ![t] = to]
      /\ arg' = arg
  BY DEF IInv, Main, Calls, RefuseAdd, LinkNode, UnlinkNode, RefuseRemove, Goto
<1>2. /\ call[t] # None /\ call[t].key = arg[t]
      /\ call[t].op = IF t \in Adders THEN "add" ELSE "remove"
  BY <1>1, InCall
<1>3. call' = call
  BY <1>1 DEF IInv, Main, TypeOK, call
<1>4. (arg[t] \in Members) \in seen[t]
  BY <1>1 DEF IInv, SeenNow
<1>5. Shared!Undecided(t)
  BY <1>1, <1>2 DEF Shared!Undecided, call
<1>6. CASE RefuseAdd(t) \/ RefuseRemove(t)
  <2>1. Members' = Members /\ answer' = [answer EXCEPT ![t] = FALSE]
    BY <1>6 DEF RefuseAdd, RefuseRemove, Decide, Members, OnList
  <2>2. (call[t].op = "add") \in seen[t]
    <3>1. CASE RefuseAdd(t)
      BY <1>1, <1>2, <1>4, <3>1, FoundOrMissing DEF RefuseAdd
    <3>2. CASE RefuseRemove(t)
      BY <1>1, <1>2, <1>4, <3>2, FoundOrMissing DEF RefuseRemove
    <3> QED
      BY <1>6, <3>1, <3>2
  <2>3. Shared!Fail(t)
    BY <1>3, <1>5, <2>1, <2>2 DEF Shared!Fail, call
  <2> QED
    BY <2>3, SharedObserves DEF Shared!Next
<1>7. CASE LinkNode(t) \/ UnlinkNode(t)
  <2>1. answer' = [answer EXCEPT ![t] = TRUE]
    BY <1>7 DEF LinkNode, UnlinkNode, Decide
  <2>2. \/ /\ call[t].op = "add" /\ call[t].key \notin Members
           /\ Members' = Members \cup {call[t].key}
        \/ /\ call[t].op = "remove" /\ call[t].key \in Members
           /\ Members' = Members \ {call[t].key}
    <3>1. CASE LinkNode(t)
      <4>1. t \in Adders
        BY <3>1 DEF LinkNode
      <4> QED
        BY <1>2, <3>1, <4>1, InvLinkNode DEF IInv
    <3>2. CASE UnlinkNode(t)
      <4>1. t \notin Adders
        BY <3>2 DEF UnlinkNode
      <4> QED
        BY <1>2, <3>2, <4>1, InvUnlinkNode DEF IInv
    <3> QED
      BY <1>7, <3>1, <3>2
  <2>3. Shared!Succeed(t)
    BY <1>3, <1>5, <2>1, <2>2 DEF Shared!Succeed, call
  <2> QED
    BY <2>3, SharedObserves DEF Shared!Next
<1> QED
  BY <1>6, <1>7

LEMMA ReturnImplements ==
    ASSUME IInv, IInv', NEW t \in Threads, Return(t), Observe
    PROVE  Shared!Next
<1>1. Members' = Members
  BY DEF Return, Members, OnList
<1>2. answer[t] # None
  BY ThreadAssumption DEF Return, Goto, IInv, Main, Calls
<1>3. call' = [call EXCEPT ![t] = None]
  <2>1. pc'[t] \in {"call", "done"}
    BY DEF IInv, Main, TypeOK, Return, Goto
  <2>2. \A u \in Threads \ {t} : pc'[u] = pc[u] /\ arg'[u] = arg[u]
    BY DEF IInv, Main, TypeOK, Return, Goto
  <2> QED
    BY <2>1, <2>2 DEF call
<1>4. answer' = [answer EXCEPT ![t] = None]
  BY DEF Return
<1>5. Shared!Return(t)
  BY <1>1, <1>2, <1>3, <1>4 DEF Shared!Return, call
<1> QED
  BY <1>5, SharedObserves DEF Shared!Next

LEMMA NextImplements ==
    ASSUME IInv, IInv', [Next]_vars
    PROVE  [Shared!Next]_Shared!vars
<1>1. CASE UNCHANGED vars
  BY <1>1 DEF vars, program, Shared!vars, Members, OnList
<1>2. CASE Observe /\ \E t \in Threads : Step(t)
  <2>1. PICK t \in Threads : Step(t)
    BY <1>2
  <2>2. CASE LockHead(t) \/ LockCur(t) \/ Advance(t) \/ UnlockCur(t) \/ DeleteCur(t)
             \/ UnlockPre(t)
    <3>1. /\ UNCHANGED <<key, next, arg, answer>> /\ pc[t] \notin {"call", "done"}
          /\ \E to \in Steps \ {"call", "done"} : pc' = [pc EXCEPT ![t] = to]
      BY <2>2 DEF LockHead, LockCur, Advance, UnlockCur, DeleteCur, UnlockPre, Goto, Steps
    <3> QED
      BY <1>2, <3>1, Inside
  <2>3. CASE Call(t)
    BY <1>2, <2>3, CallImplements
  <2>4. CASE RefuseAdd(t) \/ LinkNode(t) \/ UnlinkNode(t) \/ RefuseRemove(t)
    BY <1>2, <2>4, AnswerImplements
  <2>5. CASE Return(t)
    BY <1>2, <2>5, ReturnImplements
  <2> QED
    BY <2>1, <2>2, <2>3, <2>4, <2>5 DEF Step
<1>3. CASE Observe /\ Joined
  <2>1. UNCHANGED program /\ \A t \in Threads : pc[t] = "done"
    BY <1>3 DEF Joined, AllDone
  <2>2. seen' = seen
    <3>1. \A t \in Threads : seen'[t] = {} /\ seen[t] = {}
      BY <1>3, <2>1 DEF IInv, SeenNow, program
    <3>2. seen \in [Threads -> SUBSET BOOLEAN] /\ seen' \in [Threads -> SUBSET BOOLEAN]
      BY DEF IInv, SeenNow
    <3> QED
      BY <3>1, <3>2
  <2> QED
    BY <2>1, <2>2 DEF program, Shared!vars, Members, OnList
<1> QED
  BY <1>1, <1>2, <1>3 DEF Next

\* FineSafeSet keeps the promise of a set that threads share: every add and
\* remove takes effect at one moment between its call and its return (the tests
\* of test_safe/main.cpp:58-69 count on it).
THEOREM SetImplemented == Spec => IsSet
<1>1. Init => Shared!Init
  BY SharedInit
<1>2. IInv /\ IInv' /\ [Next]_vars => [Shared!Next]_Shared!vars
  BY NextImplements
<1> QED
  BY <1>1, <1>2, Invariant, PTL DEF Spec, IsSet, Shared!Spec
==============================================================================
