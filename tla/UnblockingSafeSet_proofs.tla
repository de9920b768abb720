----------------------- MODULE UnblockingSafeSet_proofs -----------------------
(***************************************************************************)
(* The list without locks is a linearizable set, and a marked node is out  *)
(* of it for good, for any number of threads, calls, keys and nodes.  What *)
(* holds it together is that a node is unlinked from an unmarked           *)
(* predecessor only, that a marked node's pointer never changes, and that  *)
(* the keys of linked nodes do not: so every unmarked node stays on the    *)
(* list, which stays in order, and whoever finds a larger key behind an    *)
(* unmarked node knows that its own key was missing then.                  *)
(***************************************************************************)
EXTENDS UnblockingSafeSet, TLAPS

Steps == {"call", "find", "walk", "snip", "change", "mark", "unlink", "return", "done"}

TypeOK ==
    /\ key \in [Nodes -> Int]
    /\ next \in [Nodes -> Nodes \cup {None}]
    /\ marked \in [Nodes -> BOOLEAN]
    /\ linked \in 0 .. MaxNode
    /\ pc \in [Threads -> Steps]
    /\ pre \in [Threads -> Used]
    /\ cur \in [Threads -> Used]
    /\ succ \in [Threads -> Used \cup {None}]
    /\ snip \in [Threads -> BOOLEAN]
    /\ arg \in [Threads -> Keys \cup {None}]
    /\ answer \in [Threads -> BOOLEAN \cup {None}]
    /\ left \in [Threads -> Int]

\* The pointers of linked nodes lead to linked nodes with larger keys.
Growing ==
    /\ key[Head] = MinKey /\ key[Tail] = MaxKey /\ next[Tail] = None
    /\ \A n \in Used \ {Head, Tail} : key[n] \in Keys
    /\ \A n \in Used \ {Tail} : next[n] \in Used /\ key[n] < key[next[n]]

\* Nodes that are not linked and the sentinels have no mark, and all that have
\* none are on the list, which is in order.
Sorted ==
    /\ \A n \in Nodes : marked[n] => n \in Used \ {Head, Tail}
    /\ OnList \subseteq Used
    /\ \A n \in Used : ~marked[n] => n \in OnList
    /\ Ascending(OnList, next, key, Tail)

\* Where the pointers of thread t are.
Place(t) ==
    /\ pc[t] \in {"walk", "snip", "change", "mark", "unlink"} =>
           key[pre[t]] < arg[t] /\ key[pre[t]] < key[cur[t]]
    /\ pc[t] \in {"snip", "unlink"} => marked[cur[t]] /\ succ[t] = next[cur[t]]
    /\ pc[t] \in {"change", "mark", "unlink"} =>
           IF t \in Adders THEN arg[t] < key[cur[t]] ELSE arg[t] = key[cur[t]]
    /\ pc[t] \in {"mark", "unlink"} => t \in Removers

\* A walk that stands behind the place of its key has seen the key missing.
Missed(t) ==
    pc[t] \in {"walk", "snip"} /\ arg[t] < key[cur[t]] => FALSE \in seen[t]

\* A thread has an argument while it is in a call, and an answer from the moment
\* it has decided it.
Calls ==
    \A t \in Threads :
        /\ pc[t] \notin {"call", "done"} => arg[t] \in Keys
        /\ pc[t] \in {"unlink", "return"} <=> answer[t] # None

\* What the history knows of the present.
SeenNow ==
    /\ seen \in [Threads -> SUBSET BOOLEAN]
    /\ \A t \in Threads :
           IF pc[t] \in {"call", "done"} THEN seen[t] = {}
                                         ELSE (arg[t] \in Members) \in seen[t]

Main ==
    TypeOK /\ Growing /\ Sorted /\ (\A t \in Threads : Place(t)) /\ Calls

IInv == Main /\ SeenNow /\ \A t \in Threads : Missed(t)
------------------------------------------------------------------------------
USE DEF Threads

\* The keys lie between those of the sentinels.
LEMMA KeyRange ==
    /\ MinKey \in Int /\ MaxKey \in Int /\ MinKey < MaxKey
    /\ \A k \in Keys : k \in Int /\ MinKey < k /\ k < MaxKey
<1>1. /\ MinKey \in Int /\ MaxKey \in Int /\ MinKey < MaxKey
      /\ Keys \subseteq MinKey + 1 .. MaxKey - 1
  BY ThreadAssumption
<1> QED
  BY <1>1

\* The nodes that are linked, and the next one.
LEMMA UsedNodes ==
    ASSUME linked \in 0 .. MaxNode
    PROVE  /\ Head \in Used /\ Tail \in Used /\ Head # Tail /\ Used \subseteq Nodes
           /\ None \notin Nodes
           /\ linked < MaxNode => linked + 2 \in Nodes \ Used
           /\ linked' = linked + 1 => Used' = Used \cup {linked + 2}
BY ThreadAssumption DEF Used, Nodes, Head, Tail

LEMMA NotTail ==
    ASSUME Main, NEW n, NEW k \in Keys, key[n] < k
    PROVE  n # Tail
<1>1. key[Tail] = MaxKey
  BY DEF Main, Growing
<1>2. k \in Int /\ k < MaxKey /\ MaxKey \in Int
  BY KeyRange
<1> QED
  BY <1>1, <1>2

LEMMA InvInit == Init => IInv
<1> SUFFICES ASSUME Init PROVE IInv
  OBVIOUS
<1>1. /\ linked = 0 /\ linked \in 0 .. MaxNode /\ Used = {Head, Tail}
      /\ Head # Tail /\ Head \in Nodes /\ Tail \in Nodes /\ None \notin Nodes
  BY ThreadAssumption DEF Init, Used, Nodes, Head, Tail
<1>2. TypeOK
  BY <1>1, ThreadAssumption DEF Init, TypeOK, Steps
<1>3. Growing
  BY <1>1, KeyRange DEF Init, Growing
<1>4. OnList = {Head, Tail}
  <2>1. next \in [Nodes -> Nodes \cup {None}] /\ next[Head] = Tail /\ next[Tail] = None
    BY <1>1 DEF Init
  <2>2. Head \in OnList /\ Tail \in OnList
    BY <1>1, <2>1, ReachedClosed DEF OnList, Closed
  <2>3. OnList \subseteq {Head, Tail}
    <3>1. Closed({Head, Tail}, Head, next, None)
      BY <2>1 DEF Closed
    <3>2. {Head, Tail} \in SUBSET Nodes
      BY <1>1
    <3> QED
      BY <2>1, <3>1, <3>2, ReachedLeast DEF OnList
  <2> QED
    BY <2>2, <2>3
<1>5. Sorted
  <2>1. Ascending(OnList, next, key, Tail)
    BY <1>1, <1>3, <1>4, KeyRange DEF Ascending, Growing
  <2> QED
    BY <1>1, <1>4, <2>1 DEF Init, Sorted
<1>6. /\ \A t \in Threads : Place(t) /\ Missed(t)
      /\ Calls /\ SeenNow
  BY DEF Init, Place, Missed, Calls, SeenNow
<1> QED
  BY <1>2, <1>3, <1>5, <1>6 DEF IInv, Main

\* The step is t's own.
Others(t) ==
    \A u \in Threads \ {t} :
        /\ pc'[u] = pc[u] /\ pre'[u] = pre[u] /\ cur'[u] = cur[u] /\ succ'[u] = succ[u]
        /\ arg'[u] = arg[u] /\ answer'[u] = answer[u]

\* Nobody writes the word of a marked node, or the key of a linked one.
MarkedStay == \A n \in Nodes : marked[n] => marked'[n] /\ next'[n] = next[n]

KeysStay == \A n \in Used : key'[n] = key[n]

LEMMA OthersKeepPlace ==
    ASSUME Main, NEW t \in Threads, Others(t), MarkedStay, KeysStay,
           NEW u \in Threads \ {t}
    PROVE  Place(u)'
<1>1. Place(u) /\ pre[u] \in Used /\ cur[u] \in Used /\ Used \subseteq Nodes
  BY UsedNodes DEF Main, TypeOK
<1>2. key'[pre[u]] = key[pre[u]] /\ key'[cur[u]] = key[cur[u]]
  BY <1>1 DEF KeysStay
<1>3. marked[cur[u]] => marked'[cur[u]] /\ next'[cur[u]] = next[cur[u]]
  BY <1>1 DEF MarkedStay
<1> QED
  BY <1>1, <1>2, <1>3 DEF Others, Place

\* A step of t that leaves the list alone.
LEMMA ListAlone ==
    ASSUME Main, NEW t \in Threads, Others(t), UNCHANGED <<key, next, marked, linked>>
    PROVE  /\ Used' = Used /\ OnList' = OnList /\ Members' = Members
           /\ Growing' /\ Sorted' /\ MarkedStay /\ KeysStay
           /\ \A u \in Threads \ {t} : Place(u)'
<1>1. Used' = Used /\ OnList' = OnList
  BY DEF Used, OnList
<1>2. Members' = Members
  BY <1>1 DEF Members
<1>3. Growing' /\ Sorted'
  BY <1>1 DEF Main, Growing, Sorted
<1>4. MarkedStay /\ KeysStay
  BY DEF MarkedStay, KeysStay
<1> QED
  BY <1>1, <1>2, <1>3, <1>4, OthersKeepPlace

LEMMA InvCall == ASSUME Main, NEW t \in Threads, Call(t) PROVE Main' /\ MarkedStay
<1>0. pc[t] = "call" /\ pc'[t] = "find" /\ arg'[t] \in Keys /\ answer'[t] = answer[t]
  BY DEF Main, TypeOK, Call, Goto
<1>1. Others(t) /\ UNCHANGED <<key, next, marked, linked>>
  BY DEF Main, TypeOK, Others, Call, Goto, Decide, locals
<1>2. /\ Used' = Used /\ Growing' /\ Sorted' /\ MarkedStay /\ KeysStay
      /\ \A u \in Threads \ {t} : Place(u)'
  BY <1>1, ListAlone
<1>3. TypeOK'
  BY <1>2 DEF Main, TypeOK, Call, Goto, Decide, locals, Steps
<1>4. Place(t)'
  BY <1>0 DEF Place
<1>5. Calls'
  BY <1>0, <1>1 DEF Main, Calls, Others
<1> QED
  BY <1>2, <1>3, <1>4, <1>5 DEF Main

LEMMA InvFind == ASSUME Main, NEW t \in Threads, Find(t) PROVE Main' /\ MarkedStay
<1>0. /\ pc[t] = "find" /\ pc'[t] = "walk" /\ pre'[t] = Head /\ cur'[t] = next[Head]
      /\ arg'[t] = arg[t] /\ answer'[t] = answer[t] /\ arg[t] \in Keys
      /\ next[Head] \in Used /\ key[Head] = MinKey /\ key[Head] < key[next[Head]]
      /\ Head \in Used
  <2>1. Head \in Used /\ Head # Tail
    BY UsedNodes DEF Main, TypeOK
  <2> QED
    BY <2>1 DEF Main, TypeOK, Growing, Calls, Find, Goto
<1>1. Others(t) /\ UNCHANGED <<key, next, marked, linked>>
  BY DEF Main, TypeOK, Others, Find, Goto, Decide, locals
<1>2. /\ Used' = Used /\ Growing' /\ Sorted' /\ MarkedStay /\ KeysStay
      /\ \A u \in Threads \ {t} : Place(u)'
  BY <1>1, ListAlone
<1>3. TypeOK'
  BY <1>0, <1>2 DEF Main, TypeOK, Find, Goto, Steps
<1>4. Place(t)'
  BY <1>0, <1>2, KeyRange DEF Place, KeysStay
<1>5. Calls'
  BY <1>0, <1>1 DEF Main, Calls, Others
<1> QED
  BY <1>2, <1>3, <1>4, <1>5 DEF Main

LEMMA InvMeetMarked == ASSUME Main, NEW t \in Threads, MeetMarked(t) PROVE Main' /\ MarkedStay
<1>0. /\ pc[t] = "walk" /\ pc'[t] = "snip" /\ pre'[t] = pre[t] /\ cur'[t] = cur[t]
      /\ arg'[t] = arg[t] /\ answer'[t] = answer[t] /\ succ'[t] = next[cur[t]]
      /\ marked[cur[t]] /\ next[cur[t]] \in Used
  <2>1. cur[t] \in Used \ {Tail}
    BY UsedNodes DEF Main, TypeOK, Sorted, MeetMarked
  <2> QED
    BY <2>1 DEF Main, TypeOK, Growing, MeetMarked, Goto
<1>1. Others(t) /\ UNCHANGED <<key, next, marked, linked>>
  BY DEF Main, TypeOK, Others, MeetMarked, Goto, Decide, locals
<1>2. /\ Used' = Used /\ Growing' /\ Sorted' /\ MarkedStay /\ KeysStay
      /\ \A u \in Threads \ {t} : Place(u)'
  BY <1>1, ListAlone
<1>3. TypeOK'
  BY <1>0, <1>2 DEF Main, TypeOK, MeetMarked, Goto, Steps
<1>4. Place(t)'
  BY <1>0, <1>1 DEF Main, Place
<1>5. Calls'
  BY <1>0, <1>1 DEF Main, Calls, Others
<1> QED
  BY <1>2, <1>3, <1>4, <1>5 DEF Main

LEMMA InvPass == ASSUME Main, NEW t \in Threads, Pass(t) PROVE Main' /\ MarkedStay
<1>0. /\ pc[t] = "walk" /\ pc'[t] = "walk" /\ arg'[t] = arg[t] /\ answer'[t] = answer[t]
      /\ arg[t] \in Keys /\ next[cur[t]] \in Used \cup {None}
      /\ \/ pre'[t] = pre[t] /\ cur'[t] = cur[t]
         \/ /\ pre'[t] = cur[t] /\ cur'[t] = next[cur[t]] /\ next[cur[t]] \in Used
            /\ key[cur[t]] < arg[t] /\ key[cur[t]] < key[next[cur[t]]]
  <2>1. cur[t] \in Used /\ arg[t] \in Keys /\ pc[t] = "walk"
    BY DEF Main, TypeOK, Calls, Pass
  <2>2. key[cur[t]] < arg[t] =>
           cur[t] # Tail /\ next[cur[t]] \in Used /\ key[cur[t]] < key[next[cur[t]]]
    BY <2>1, NotTail DEF Main, Growing
  <2>3. next[cur[t]] \in Used \cup {None}
    BY <2>1 DEF Main, Growing
  <2> QED
    BY <2>1, <2>2, <2>3 DEF Main, TypeOK, Pass
<1>1. Others(t) /\ UNCHANGED <<key, next, marked, linked>>
  BY DEF Main, TypeOK, Others, Pass, Goto, Decide, locals
<1>2. /\ Used' = Used /\ Growing' /\ Sorted' /\ MarkedStay /\ KeysStay
      /\ \A u \in Threads \ {t} : Place(u)'
  BY <1>1, ListAlone
<1>3. TypeOK'
  <2>1. cur[t] \in Used
    BY DEF Main, TypeOK
  <2> QED
    BY <1>0, <1>2, <2>1 DEF Main, TypeOK, Pass
<1>4. Place(t)'
  BY <1>0, <1>1 DEF Main, Place
<1>5. Calls'
  BY <1>0, <1>1 DEF Main, Calls, Others
<1> QED
  BY <1>2, <1>3, <1>4, <1>5 DEF Main

LEMMA InvWindow == ASSUME Main, NEW t \in Threads, Window(t) PROVE Main' /\ MarkedStay
<1>0. /\ pc[t] = "walk" /\ pre'[t] = pre[t] /\ cur'[t] = cur[t] /\ arg'[t] = arg[t]
      /\ \/ pc'[t] = "change" /\ answer'[t] = None
         \/ pc'[t] = "return" /\ answer'[t] = FALSE
      /\ arg[t] \in Keys /\ arg[t] <= key[cur[t]] /\ key[cur[t]] \in Int
      /\ pc'[t] = "change" => IF t \in Adders THEN key[cur[t]] # arg[t]
                                              ELSE key[cur[t]] = arg[t]
      /\ next[cur[t]] \in Used \cup {None} /\ cur[t] \in Used
  <2>1. cur[t] \in Used /\ arg[t] \in Keys /\ pc[t] = "walk" /\ Used \subseteq Nodes
    BY UsedNodes DEF Main, TypeOK, Calls, Window, Goto
  <2>2. next[cur[t]] \in Used \cup {None} /\ key[cur[t]] \in Int
    BY <2>1 DEF Main, TypeOK, Growing
  <2>3. /\ pc'[t] = "change" \/ pc'[t] = "return"
        /\ pc'[t] = "change" => /\ answer'[t] = None
                                /\ IF t \in Adders THEN key[cur[t]] # arg[t]
                                                   ELSE key[cur[t]] = arg[t]
        /\ pc'[t] = "return" => answer'[t] = FALSE
    BY <2>1 DEF Main, TypeOK, Window, Goto, Decide
  <2>4. pre'[t] = pre[t] /\ cur'[t] = cur[t] /\ arg'[t] = arg[t] /\ key[cur[t]] >= arg[t]
    BY DEF Window
  <2> QED
    BY <2>1, <2>2, <2>3, <2>4, KeyRange
<1>1. Others(t) /\ UNCHANGED <<key, next, marked, linked>>
  BY DEF Main, TypeOK, Others, Window, Goto, Decide, locals
<1>2. /\ Used' = Used /\ Growing' /\ Sorted' /\ MarkedStay /\ KeysStay
      /\ \A u \in Threads \ {t} : Place(u)'
  BY <1>1, ListAlone
<1>3. TypeOK'
  BY <1>0, <1>2 DEF Main, TypeOK, Window, Goto, Decide, Steps
<1>4. Place(t)'
  <2>1. arg[t] \in Int
    BY <1>0, KeyRange
  <2> QED
    BY <1>0, <1>1, <2>1 DEF Main, Place
<1>5. Calls'
  <2>1. FALSE # None
    BY ThreadAssumption
  <2>2. \A u \in Threads \ {t} : /\ pc'[u] = pc[u] /\ arg'[u] = arg[u]
                                 /\ answer'[u] = answer[u]
    BY <1>1 DEF Others
  <2>3. /\ pc'[t] \notin {"call", "done"} => arg'[t] \in Keys
        /\ pc'[t] \in {"unlink", "return"} <=> answer'[t] # None
    BY <1>0, <2>1
  <2> QED
    BY <2>2, <2>3 DEF Main, Calls
<1> QED
  BY <1>2, <1>3, <1>4, <1>5 DEF Main

LEMMA InvLinkFails == ASSUME Main, NEW t \in Threads, LinkFails(t) PROVE Main' /\ MarkedStay
<1>0. pc[t] = "change" /\ pc'[t] = "find" /\ arg'[t] = arg[t] /\ answer'[t] = answer[t]
  BY DEF Main, TypeOK, LinkFails, Goto
<1>1. Others(t) /\ UNCHANGED <<key, next, marked, linked>>
  BY DEF Main, TypeOK, Others, LinkFails, Goto, Decide, locals
<1>2. /\ Used' = Used /\ Growing' /\ Sorted' /\ MarkedStay /\ KeysStay
      /\ \A u \in Threads \ {t} : Place(u)'
  BY <1>1, ListAlone
<1>3. TypeOK'
  BY <1>2 DEF Main, TypeOK, LinkFails, Goto, Decide, locals, Steps
<1>4. Place(t)'
  BY <1>0 DEF Place
<1>5. Calls'
  BY <1>0, <1>1 DEF Main, Calls, Others
<1> QED
  BY <1>2, <1>3, <1>4, <1>5 DEF Main

LEMMA InvReadSucc == ASSUME Main, NEW t \in Threads, ReadSucc(t) PROVE Main' /\ MarkedStay
<1>0. /\ pc[t] = "change" /\ pc'[t] = "mark" /\ arg'[t] = arg[t] /\ answer'[t] = answer[t]
      /\ pre'[t] = pre[t] /\ cur'[t] = cur[t] /\ t \in Removers /\ cur[t] \in Used
      /\ next[cur[t]] \in Used \cup {None}
  <2>1. cur[t] \in Used
    BY DEF Main, TypeOK
  <2> QED
    BY <2>1 DEF Main, TypeOK, Growing, ReadSucc, Goto
<1>1. Others(t) /\ UNCHANGED <<key, next, marked, linked>>
  BY DEF Main, TypeOK, Others, ReadSucc, Goto, Decide, locals
<1>2. /\ Used' = Used /\ Growing' /\ Sorted' /\ MarkedStay /\ KeysStay
      /\ \A u \in Threads \ {t} : Place(u)'
  BY <1>1, ListAlone
<1>3. TypeOK'
  BY <1>0, <1>2 DEF Main, TypeOK, ReadSucc, Goto, Steps
<1>4. Place(t)'
  BY <1>0, <1>1 DEF Main, Place
<1>5. Calls'
  BY <1>0, <1>1 DEF Main, Calls, Others
<1> QED
  BY <1>2, <1>3, <1>4, <1>5 DEF Main

LEMMA InvMarkFails == ASSUME Main, NEW t \in Threads, MarkFails(t) PROVE Main' /\ MarkedStay
<1>0. pc[t] = "mark" /\ pc'[t] = "find" /\ arg'[t] = arg[t] /\ answer'[t] = answer[t]
  BY DEF Main, TypeOK, MarkFails, Goto
<1>1. Others(t) /\ UNCHANGED <<key, next, marked, linked>>
  BY DEF Main, TypeOK, Others, MarkFails, Goto, Decide, locals
<1>2. /\ Used' = Used /\ Growing' /\ Sorted' /\ MarkedStay /\ KeysStay
      /\ \A u \in Threads \ {t} : Place(u)'
  BY <1>1, ListAlone
<1>3. TypeOK'
  BY <1>2 DEF Main, TypeOK, MarkFails, Goto, Decide, locals, Steps
<1>4. Place(t)'
  BY <1>0 DEF Place
<1>5. Calls'
  BY <1>0, <1>1 DEF Main, Calls, Others
<1> QED
  BY <1>2, <1>3, <1>4, <1>5 DEF Main

LEMMA InvReturn == ASSUME Main, NEW t \in Threads, Return(t) PROVE Main' /\ MarkedStay
<1>0. /\ pc[t] = "return" /\ pc'[t] \in {"call", "done"} /\ answer'[t] = None
      /\ Head \in Used
  <2>1. Head \in Used
    BY UsedNodes DEF Main, TypeOK
  <2> QED
    BY <2>1 DEF Main, TypeOK, Return, Goto
<1>1. Others(t) /\ UNCHANGED <<key, next, marked, linked>>
  BY DEF Main, TypeOK, Others, Return, Goto, Decide, locals
<1>2. /\ Used' = Used /\ Growing' /\ Sorted' /\ MarkedStay /\ KeysStay
      /\ \A u \in Threads \ {t} : Place(u)'
  BY <1>1, ListAlone
<1>3. TypeOK'
  BY <1>0, <1>2 DEF Main, TypeOK, Return, Goto, Steps
<1>4. Place(t)'
  BY <1>0 DEF Place
<1>5. Calls'
  BY <1>0, <1>1 DEF Main, Calls, Others
<1> QED
  BY <1>2, <1>3, <1>4, <1>5 DEF Main

\* A marked node is unlinked from a predecessor that has no mark: the set stays
\* as it is.
LEMMA UnlinkKeeps ==
    ASSUME Main, NEW p \in Used, ~marked[p], NEW c \in Used, marked[c], next[p] = c,
           next' \in [Nodes -> Nodes \cup {None}], next'[p] = next[c],
           \A m \in Nodes \ {p} : next'[m] = next[m],
           UNCHANGED <<key, marked, linked>>
    PROVE  /\ Used' = Used /\ OnList' = OnList \ {c} /\ Members' = Members
           /\ Growing' /\ Sorted' /\ MarkedStay /\ KeysStay
<1>1. /\ Head \in Used /\ Tail \in Used /\ Used \subseteq Nodes /\ None \notin Nodes
      /\ c \notin {Head, Tail} /\ p # c /\ p # Tail
  BY UsedNodes DEF Main, TypeOK, Growing, Sorted
<1>2. /\ next[c] \in Used /\ key[p] < key[c] /\ key[c] < key[next[c]]
      /\ key[p] \in Int /\ key[c] \in Int /\ key[next[c]] \in Int
  BY <1>1 DEF Main, TypeOK, Growing
<1>3. /\ p \in OnList /\ OnList \subseteq Used /\ next[Tail] = None
      /\ Ascending(OnList, next, key, Tail)
  BY DEF Main, Growing, Sorted
<1>4. Used' = Used
  BY DEF Used
<1>5. /\ Ascending(OnList \ {c}, next', key, Tail)
      /\ c \in OnList /\ next[c] \in OnList /\ next[c] # c
  <2>1. \A m \in OnList \ {p} : next'[m] = next[m]
    BY <1>1, <1>3
  <2> QED
    BY <1>1, <1>3, <2>1, AscendingUnlink
<1>6. OnList' = OnList \ {c}
  <2>1. ASSUME NEW m \in OnList, next[m] = c PROVE m = p
    BY <1>1, <1>3, <2>1, OnePredecessor
  <2>2. /\ next \in [Nodes -> Nodes \cup {None}] /\ Head \in Nodes /\ p \in Nodes
        /\ c \in Nodes
        /\ p \in Reached(Head, next, None) /\ next[c] # None
        /\ \A m \in Reached(Head, next, None) : next[m] = c => m = p
    BY <1>1, <1>2, <1>3, <2>1 DEF Main, TypeOK, OnList
  <2>3. Reached(Head, next', None) = Reached(Head, next, None) \ {c}
    BY <1>1, <1>5, <2>2, ReachedUnlink
  <2> QED
    BY <2>3 DEF OnList
<1>7. Growing'
  <2>1. ASSUME NEW n \in Used \ {Tail} PROVE next'[n] \in Used /\ key[n] < key[next'[n]]
    <3>1. CASE n = p
      BY <1>2, <3>1
    <3>2. CASE n # p
      <4>1. next'[n] = next[n]
        BY <1>1, <3>2
      <4> QED
        BY <4>1 DEF Main, Growing
    <3> QED
      BY <3>1, <3>2
  <2>2. next'[Tail] = None
    BY <1>1, <1>3
  <2> QED
    BY <1>4, <2>1, <2>2 DEF Main, Growing
<1>8. Sorted'
  BY <1>3, <1>4, <1>5, <1>6 DEF Main, Sorted
<1>9. Members' = Members /\ KeysStay /\ MarkedStay
  BY <1>1, <1>4 DEF Members, KeysStay, MarkedStay
<1> QED
  BY <1>4, <1>6, <1>7, <1>8, <1>9

LEMMA InvSnip == ASSUME Main, NEW t \in Threads, Snip(t) PROVE Main' /\ MarkedStay
<1>1. /\ pc[t] = "snip" /\ pc' = [pc EXCEPT ![t] = "walk"] /\ pre' = pre
      /\ UNCHANGED <<key, marked, linked, arg, answer, left, succ>>
      /\ snip' = [snip EXCEPT ![t] = Points(pre[t], cur[t])]
      /\ cur' = IF Points(pre[t], cur[t]) THEN [cur EXCEPT ![t] = succ[t]] ELSE cur
      /\ next' = IF Points(pre[t], cur[t]) THEN [next EXCEPT ![pre[t]] = succ[t]] ELSE next
  BY DEF Snip, Goto
<1>2. /\ pre[t] \in Used /\ cur[t] \in Used /\ marked[cur[t]] /\ succ[t] = next[cur[t]]
      /\ key[pre[t]] < arg[t] /\ key[pre[t]] < key[cur[t]] /\ Used \subseteq Nodes
      /\ cur[t] # Tail
  BY <1>1, UsedNodes DEF Main, TypeOK, Place, Sorted
<1>3. next[cur[t]] \in Used /\ key[pre[t]] < key[next[cur[t]]]
  BY <1>2, UsedNodes DEF Main, TypeOK, Growing
<1>4. Used' = Used /\ Growing' /\ Sorted' /\ MarkedStay /\ KeysStay
      /\ next' \in [Nodes -> Nodes \cup {None}]
  <2>1. CASE Points(pre[t], cur[t])
    <3>1. ~marked[pre[t]] /\ next[pre[t]] = cur[t]
      BY <2>1 DEF Points
    <3>2. /\ next' \in [Nodes -> Nodes \cup {None}] /\ next'[pre[t]] = next[cur[t]]
          /\ \A m \in Nodes \ {pre[t]} : next'[m] = next[m]
      BY <1>1, <1>2, <1>3, <2>1 DEF Main, TypeOK
    <3> QED
      BY <1>1, <1>2, <3>1, <3>2, UnlinkKeeps
  <2>2. CASE ~Points(pre[t], cur[t])
    <3>1. UNCHANGED <<key, next, marked, linked>>
      BY <1>1, <2>2
    <3> QED
      BY <3>1 DEF Main, TypeOK, Growing, Sorted, MarkedStay, KeysStay, Used, OnList
  <2> QED
    BY <2>1, <2>2
<1>5. Others(t)
  BY <1>1 DEF Main, TypeOK, Others
<1>6. TypeOK'
  <2>1. cur' \in [Threads -> Used]
    BY <1>1, <1>2, <1>3 DEF Main, TypeOK
  <2>2. snip' \in [Threads -> BOOLEAN]
    BY <1>1, <1>2 DEF Main, TypeOK, Points
  <2>3. pc' \in [Threads -> Steps]
    BY <1>1 DEF Main, TypeOK, Steps
  <2> QED
    BY <1>1, <1>4, <2>1, <2>2, <2>3 DEF Main, TypeOK
<1>7. ASSUME NEW u \in Threads PROVE Place(u)'
  <2>1. CASE u = t
    <3>1. pc'[t] = "walk" /\ pre'[t] = pre[t] /\ arg'[t] = arg[t] /\ key' = key
          /\ cur'[t] \in {cur[t], next[cur[t]]}
      BY <1>1, <1>2 DEF Main, TypeOK
    <3> QED
      BY <1>2, <1>3, <2>1, <3>1 DEF Place
  <2>2. CASE u # t
    BY <1>4, <1>5, <2>2, OthersKeepPlace
  <2> QED
    BY <2>1, <2>2
<1>8. Calls'
  <2>1. pc'[t] = "walk" /\ UNCHANGED <<arg, answer>>
    BY <1>1 DEF Main, TypeOK
  <2> QED
    BY <1>1, <1>5, <2>1 DEF Main, Calls, Others
<1> QED
  BY <1>4, <1>6, <1>7, <1>8 DEF Main

LEMMA InvUnlink == ASSUME Main, NEW t \in Threads, Unlink(t) PROVE Main' /\ MarkedStay
<1>1. /\ pc[t] = "unlink" /\ pc' = [pc EXCEPT ![t] = "return"]
      /\ UNCHANGED <<key, marked, linked, pre, cur, succ, snip, arg, answer, left>>
      /\ next' = IF Points(pre[t], cur[t]) THEN [next EXCEPT ![pre[t]] = succ[t]] ELSE next
  BY DEF Unlink, Goto, locals
<1>2. /\ pre[t] \in Used /\ cur[t] \in Used /\ marked[cur[t]] /\ succ[t] = next[cur[t]]
      /\ cur[t] # Tail /\ Used \subseteq Nodes
  BY <1>1, UsedNodes DEF Main, TypeOK, Place, Sorted
<1>3. next[cur[t]] \in Used
  BY <1>2 DEF Main, Growing
<1>4. Used' = Used /\ Growing' /\ Sorted' /\ MarkedStay /\ KeysStay
      /\ next' \in [Nodes -> Nodes \cup {None}]
  <2>1. CASE Points(pre[t], cur[t])
    <3>1. ~marked[pre[t]] /\ next[pre[t]] = cur[t]
      BY <2>1 DEF Points
    <3>2. /\ next' \in [Nodes -> Nodes \cup {None}] /\ next'[pre[t]] = next[cur[t]]
          /\ \A m \in Nodes \ {pre[t]} : next'[m] = next[m]
      BY <1>1, <1>2, <1>3, <2>1 DEF Main, TypeOK
    <3> QED
      BY <1>1, <1>2, <3>1, <3>2, UnlinkKeeps
  <2>2. CASE ~Points(pre[t], cur[t])
    <3>1. UNCHANGED <<key, next, marked, linked>>
      BY <1>1, <2>2
    <3> QED
      BY <3>1 DEF Main, TypeOK, Growing, Sorted, MarkedStay, KeysStay, Used, OnList
  <2> QED
    BY <2>1, <2>2
<1>5. Others(t)
  BY <1>1 DEF Main, TypeOK, Others
<1>6. TypeOK'
  BY <1>1, <1>4 DEF Main, TypeOK, Steps
<1>7. ASSUME NEW u \in Threads PROVE Place(u)'
  <2>1. CASE u = t
    <3>1. pc'[t] = "return"
      BY <1>1 DEF Main, TypeOK
    <3> QED
      BY <2>1, <3>1 DEF Place
  <2>2. CASE u # t
    BY <1>4, <1>5, <2>2, OthersKeepPlace
  <2> QED
    BY <2>1, <2>2
<1>8. Calls'
  <2>1. pc'[t] = "return" /\ UNCHANGED <<arg, answer>>
    BY <1>1 DEF Main, TypeOK
  <2> QED
    BY <1>1, <1>5, <2>1 DEF Main, Calls, Others
<1> QED
  BY <1>4, <1>6, <1>7, <1>8 DEF Main

LEMMA InvMark ==
    ASSUME Main, NEW t \in Threads, Mark(t)
    PROVE  /\ Main' /\ MarkedStay
           /\ arg[t] \in Members /\ Members' = Members \ {arg[t]}
<1>1. /\ pc[t] = "mark" /\ pc' = [pc EXCEPT ![t] = "unlink"]
      /\ UNCHANGED <<key, next, linked, pre, cur, succ, snip, arg, left>>
      /\ marked' = [marked EXCEPT ![cur[t]] = TRUE]
      /\ answer' = [answer EXCEPT ![t] = TRUE]
      /\ next[cur[t]] = succ[t] /\ ~marked[cur[t]]
  BY DEF Mark, Goto, Decide, Points, locals
<1>2. /\ pre[t] \in Used /\ cur[t] \in Used /\ Used \subseteq Nodes /\ t \in Removers
      /\ t \notin Adders /\ arg[t] = key[cur[t]] /\ arg[t] \in Keys
      /\ key[pre[t]] < arg[t] /\ key[pre[t]] < key[cur[t]]
  BY <1>1, UsedNodes, ThreadAssumption DEF Main, TypeOK, Place, Calls
<1>3. cur[t] \notin {Head, Tail}
  BY <1>2, KeyRange DEF Main, Growing
<1>4. /\ marked' \in [Nodes -> BOOLEAN] /\ marked'[cur[t]]
      /\ \A n \in Nodes \ {cur[t]} : marked'[n] = marked[n]
  BY <1>1, <1>2 DEF Main, TypeOK
<1>5. Used' = Used /\ OnList' = OnList
  BY <1>1 DEF Used, OnList
<1>6. Growing' /\ Sorted' /\ MarkedStay /\ KeysStay
  BY <1>1, <1>2, <1>3, <1>4, <1>5 DEF Main, Growing, Sorted, MarkedStay, KeysStay
<1>7. arg[t] \in Members /\ Members' = Members \ {arg[t]}
  <2>1. \A n \in Used : ~marked[n] /\ key[n] = arg[t] => n = cur[t]
    BY <1>1, <1>2 DEF Main, Sorted, Ascending
  <2> QED
    BY <1>1, <1>2, <1>3, <1>4, <1>5, <2>1 DEF Members
<1>8. Others(t)
  BY <1>1 DEF Main, TypeOK, Others
<1>9. TypeOK'
  BY <1>1, <1>4, <1>5 DEF Main, TypeOK, Steps
<1>10. ASSUME NEW u \in Threads PROVE Place(u)'
  <2>1. CASE u = t
    <3>1. pc'[t] = "unlink"
      BY <1>1 DEF Main, TypeOK
    <3> QED
      BY <1>1, <1>2, <1>4, <2>1, <3>1 DEF Place
  <2>2. CASE u # t
    BY <1>6, <1>8, <2>2, OthersKeepPlace
  <2> QED
    BY <2>1, <2>2
<1>11. Calls'
  <2>1. pc'[t] = "unlink" /\ arg' = arg /\ answer'[t] = TRUE /\ None # TRUE
    BY <1>1, ThreadAssumption DEF Main, TypeOK
  <2> QED
    BY <1>2, <1>8, <2>1 DEF Main, Calls, Others
<1> QED
  BY <1>6, <1>7, <1>9, <1>10, <1>11 DEF Main

\* The walk meets a new node between p and its successor.
LEMMA LinkReaches ==
    ASSUME next \in [Nodes -> Nodes \cup {None}], None \notin Nodes, Head \in Nodes,
           NEW p \in OnList, next[p] \in Nodes, NEW n \in Nodes, n \notin OnList,
           next' \in [Nodes -> Nodes \cup {None}], next'[p] = n, next'[n] = next[p],
           \A m \in Nodes \ {p, n} : next'[m] = next[m]
    PROVE  OnList' = OnList \cup {n}
BY ReachedLink DEF OnList

LEMMA InvLinkNode ==
    ASSUME Main, NEW t \in Threads, LinkNode(t)
    PROVE  /\ Main' /\ MarkedStay
           /\ arg[t] \notin Members /\ Members' = Members \cup {arg[t]}
<1> DEFINE n == linked + 2
<1>1. /\ pc[t] = "change" /\ pc' = [pc EXCEPT ![t] = "return"] /\ t \in Adders
      /\ UNCHANGED <<marked, pre, cur, succ, snip, arg, left>>
      /\ linked < MaxNode /\ linked' = linked + 1
      /\ key' = [key EXCEPT ![n] = arg[t]]
      /\ next' = [next EXCEPT ![n] = cur[t], ![pre[t]] = n]
      /\ answer' = [answer EXCEPT ![t] = TRUE]
      /\ next[pre[t]] = cur[t] /\ ~marked[pre[t]]
  BY DEF LinkNode, Goto, Decide, Points, locals
<1>2. /\ pre[t] \in Used /\ cur[t] \in Used /\ arg[t] \in Keys /\ arg[t] \in Int
      /\ key[pre[t]] < arg[t] /\ arg[t] < key[cur[t]]
  BY <1>1, KeyRange DEF Main, TypeOK, Place, Calls
<1>3. /\ Head \in Used /\ Tail \in Used /\ Used \subseteq Nodes /\ None \notin Nodes
      /\ n \in Nodes /\ n \notin Used /\ Used' = Used \cup {n}
  BY <1>1, UsedNodes DEF Main, TypeOK
<1>4. pre[t] # Tail /\ next[Tail] = None /\ pre[t] # n
  BY <1>2, <1>3, NotTail DEF Main, Growing
<1>5. /\ next' \in [Nodes -> Nodes \cup {None}] /\ next'[pre[t]] = n
      /\ next'[n] = cur[t] /\ \A m \in Nodes \ {pre[t], n} : next'[m] = next[m]
  BY <1>1, <1>2, <1>3, <1>4 DEF Main, TypeOK
<1>6. key' \in [Nodes -> Int] /\ key'[n] = arg[t] /\ \A m \in Nodes \ {n} : key'[m] = key[m]
  BY <1>1, <1>2, <1>3 DEF Main, TypeOK
<1> HIDE DEF n
<1>7. /\ pre[t] \in OnList /\ OnList \subseteq Used /\ Ascending(OnList, next, key, Tail)
      /\ ~marked[n]
  BY <1>1, <1>2, <1>3 DEF Main, Sorted
<1>8. OnList' = OnList \cup {n}
  BY <1>1, <1>2, <1>3, <1>5, <1>7, LinkReaches DEF Main, TypeOK
<1>9. Ascending(OnList', next', key', Tail) /\ \A m \in OnList : key[m] # arg[t]
  <2>1. \A m \in OnList : key'[m] = key[m] /\ (m # pre[t] => next'[m] = next[m])
    BY <1>3, <1>5, <1>6, <1>7
  <2>2. /\ pre[t] \in OnList \ {Tail} /\ n \notin OnList
        /\ key'[n] \in Int /\ key[pre[t]] < key'[n] /\ key'[n] < key[next[pre[t]]]
        /\ next'[pre[t]] = n /\ next'[n] = next[pre[t]]
    BY <1>1, <1>2, <1>3, <1>4, <1>5, <1>6, <1>7
  <2>3. /\ Ascending(OnList \cup {n}, next', key', Tail)
        /\ \A m \in OnList : key[m] # key'[n]
    BY <1>7, <2>1, <2>2, AscendingLink
  <2> QED
    BY <1>6, <1>8, <2>3
<1>10. Growing'
  <2>1. ASSUME NEW m \in Used' \ {Tail} PROVE next'[m] \in Used' /\ key'[m] < key'[next'[m]]
    <3>1. CASE m = n
      BY <1>2, <1>3, <1>5, <1>6, <3>1
    <3>2. CASE m = pre[t]
      BY <1>2, <1>3, <1>4, <1>5, <1>6, <3>2
    <3>3. CASE m \in Used \ {pre[t], Tail}
      <4>1. next'[m] = next[m] /\ key'[m] = key[m] /\ next[m] \in Used /\ key[m] < key[next[m]]
        BY <1>3, <1>5, <1>6, <3>3 DEF Main, Growing
      <4>2. key'[next[m]] = key[next[m]]
        BY <1>3, <1>6, <4>1
      <4> QED
        BY <1>3, <4>1, <4>2
    <3> QED
      BY <1>3, <2>1, <3>1, <3>2, <3>3
  <2>2. next'[Tail] = None /\ key'[Head] = MinKey /\ key'[Tail] = MaxKey
    BY <1>3, <1>4, <1>5, <1>6 DEF Main, Growing
  <2>3. \A m \in Used' \ {Head, Tail} : key'[m] \in Keys
    BY <1>2, <1>3, <1>6 DEF Main, Growing
  <2> QED
    BY <2>1, <2>2, <2>3 DEF Growing
<1>11. Sorted'
  <2>1. marked' = marked
    BY <1>1
  <2> QED
    BY <1>3, <1>7, <1>8, <1>9, <2>1 DEF Main, Sorted
<1>12. MarkedStay /\ KeysStay
  <2>1. marked' = marked /\ ~marked[pre[t]]
    BY <1>1
  <2> QED
    BY <1>3, <1>5, <1>6, <1>7, <2>1 DEF MarkedStay, KeysStay
<1>13. arg[t] \notin Members /\ Members' = Members \cup {arg[t]}
  <2>1. \A m \in Used : ~marked[m] => key[m] # arg[t]
    BY <1>9 DEF Main, Sorted
  <2>2. marked' = marked /\ n # Head /\ n # Tail
    BY <1>1, <1>3
  <2>3. \A m \in Used : key'[m] = key[m]
    BY <1>3, <1>6
  <2> QED
    BY <1>3, <1>6, <1>7, <2>1, <2>2, <2>3 DEF Members
<1>14. Others(t) /\ pc'[t] = "return" /\ answer'[t] = TRUE
  BY <1>1 DEF Main, TypeOK, Others
<1>15. TypeOK'
  <2>1. linked' \in 0 .. MaxNode
    BY <1>1, ThreadAssumption DEF Main, TypeOK
  <2>2. pc' \in [Threads -> Steps] /\ answer' \in [Threads -> BOOLEAN \cup {None}]
    BY <1>1 DEF Main, TypeOK, Steps
  <2>3. /\ pre' \in [Threads -> Used'] /\ cur' \in [Threads -> Used']
        /\ succ' \in [Threads -> Used' \cup {None}]
    BY <1>1, <1>3 DEF Main, TypeOK
  <2>4. UNCHANGED <<marked, snip, arg, left>>
    BY <1>1
  <2> QED
    BY <1>5, <1>6, <2>1, <2>2, <2>3, <2>4 DEF Main, TypeOK
<1>16. ASSUME NEW u \in Threads PROVE Place(u)'
  <2>1. CASE u = t
    BY <1>14, <2>1 DEF Place
  <2>2. CASE u # t
    BY <1>12, <1>14, <2>2, OthersKeepPlace
  <2> QED
    BY <2>1, <2>2
<1>17. Calls'
  <2>1. arg' = arg /\ None # TRUE
    BY <1>1, ThreadAssumption
  <2> QED
    BY <1>2, <1>14, <2>1 DEF Main, Calls, Others
<1> QED
  BY <1>10, <1>11, <1>12, <1>13, <1>15, <1>16, <1>17 DEF Main

LEMMA InvStep == ASSUME Main, NEW t \in Threads, Step(t) PROVE Main' /\ MarkedStay
BY InvCall, InvFind, InvMeetMarked, InvSnip, InvPass, InvWindow, InvLinkNode,
   InvLinkFails, InvReadSucc, InvMark, InvMarkFails, InvUnlink, InvReturn DEF Step

LEMMA StepIsOwn == ASSUME Main, NEW t \in Threads, Step(t) PROVE Others(t)
<1>1. CASE Call(t)
  BY <1>1 DEF Main, TypeOK, Others, Goto, Decide, locals, Call
<1>2. CASE Find(t)
  BY <1>2 DEF Main, TypeOK, Others, Goto, Decide, locals, Find
<1>3. CASE MeetMarked(t)
  BY <1>3 DEF Main, TypeOK, Others, Goto, Decide, locals, MeetMarked
<1>4. CASE Snip(t)
  BY <1>4 DEF Main, TypeOK, Others, Goto, Decide, locals, Snip
<1>5. CASE Pass(t)
  BY <1>5 DEF Main, TypeOK, Others, Goto, Decide, locals, Pass
<1>6. CASE Window(t)
  BY <1>6 DEF Main, TypeOK, Others, Goto, Decide, locals, Window
<1>7. CASE LinkNode(t)
  BY <1>7 DEF Main, TypeOK, Others, Goto, Decide, locals, LinkNode
<1>8. CASE LinkFails(t)
  BY <1>8 DEF Main, TypeOK, Others, Goto, Decide, locals, LinkFails
<1>9. CASE ReadSucc(t)
  BY <1>9 DEF Main, TypeOK, Others, Goto, Decide, locals, ReadSucc
<1>10. CASE Mark(t)
  BY <1>10 DEF Main, TypeOK, Others, Goto, Decide, locals, Mark
<1>11. CASE MarkFails(t)
  BY <1>11 DEF Main, TypeOK, Others, Goto, Decide, locals, MarkFails
<1>12. CASE Unlink(t)
  BY <1>12 DEF Main, TypeOK, Others, Goto, Decide, locals, Unlink
<1>13. CASE Return(t)
  BY <1>13 DEF Main, TypeOK, Others, Goto, Decide, locals, Return
<1> QED
  BY <1>1, <1>2, <1>3, <1>4, <1>5, <1>6, <1>7, <1>8,
     <1>9, <1>10, <1>11, <1>12, <1>13 DEF Step

\* A larger key behind an unmarked node with a smaller one: the key is missing.
LEMMA Gap ==
    ASSUME Main', NEW p \in Used', ~marked'[p], NEW k \in Keys,
           key'[p] < k, k < key'[next'[p]]
    PROVE  k \notin Members'
<1>1. p # Tail
  <2>1. key'[Tail] = MaxKey
    BY DEF Main, Growing
  <2> QED
    BY <2>1, KeyRange
<1>2. /\ Ascending(OnList', next', key', Tail) /\ p \in OnList' \ {Tail}
      /\ \A m \in Used' : ~marked'[m] => m \in OnList'
  BY <1>1 DEF Main, Sorted
<1>3. \A m \in OnList' : key'[m] # k
  BY <1>2, KeyRange, NothingBetween
<1> QED
  BY <1>2, <1>3 DEF Members

\* While a call lasts its history grows, by what is true after each step.
LEMMA SeenGrows ==
    ASSUME IInv, Observe, NEW t \in Threads,
           pc[t] \notin {"call", "done"}, pc'[t] \notin {"call", "done"}
    PROVE  (arg'[t] \in Members') \in seen'[t] /\ seen[t] \subseteq seen'[t]
<1>1. seen'[t] = IF pc'[t] \in {"call", "done"} THEN {}
                 ELSE {arg'[t] \in Members'} \cup (IF pc[t] = "call" THEN {} ELSE seen[t])
  BY DEF Observe
<1> QED
  BY <1>1

\* A thread that stays where it was in its walk keeps what it has seen.
LEMMA MissedStays ==
    ASSUME IInv, Main', Observe, NEW t \in Threads, Step(t), NEW u \in Threads,
           pc'[u] \in {"walk", "snip"} => pc[u] \in {"walk", "snip"},
           arg'[u] = arg[u], cur'[u] = cur[u]
    PROVE  Missed(u)'
<1>1. cur[u] \in Used /\ Used \subseteq Nodes /\ linked + 2 \notin Used
  BY UsedNodes DEF IInv, Main, TypeOK, Used
<1>2. key'[cur[u]] = key[cur[u]]
  <2>1. CASE LinkNode(t)
    BY <1>1, <2>1 DEF IInv, Main, TypeOK, LinkNode
  <2>2. CASE ~LinkNode(t)
    <3>1. key' = key
      BY <2>2 DEF Step, Call, Find, MeetMarked, Snip, Pass, Window, LinkFails,
             ReadSucc, Mark, MarkFails, Unlink, Return
    <3> QED
      BY <3>1
  <2> QED
    BY <2>1, <2>2
<1>3. pc'[u] \in {"walk", "snip"} => seen[u] \subseteq seen'[u]
  BY SeenGrows
<1> QED
  BY <1>2, <1>3 DEF IInv, Missed

LEMMA InvMissed ==
    ASSUME IInv, Main', Observe, NEW t \in Threads, Step(t), NEW u \in Threads
    PROVE  Missed(u)'
<1>1. CASE Find(t) /\ u = t
  <2>1. /\ pc[t] = "find" /\ pc'[t] = "walk" /\ cur'[t] = next'[Head] /\ arg'[t] = arg[t]
        /\ Head \in Used /\ Used' = Used /\ marked' = marked /\ key' = key
    BY <1>1, UsedNodes DEF IInv, Main, TypeOK, Find, Goto, Used
  <2>2. ~marked'[Head] /\ key'[Head] < arg'[t] /\ arg'[t] \in Keys
    <3>1. ~marked[Head] /\ key[Head] = MinKey
      BY <2>1, UsedNodes DEF IInv, Main, TypeOK, Growing, Sorted
    <3>2. arg[t] \in Keys
      BY <2>1 DEF IInv, Main, Calls
    <3> QED
      BY <2>1, <3>1, <3>2, KeyRange
  <2>3. arg'[t] < key'[cur'[t]] => arg'[t] \notin Members'
    BY <2>1, <2>2, Gap
  <2>4. (arg'[t] \in Members') \in seen'[t]
    BY <2>1, SeenGrows
  <2>5. ASSUME arg'[t] < key'[cur'[t]] PROVE FALSE \in seen'[t]
    <3>1. (arg'[t] \in Members') = FALSE
      BY <2>3, <2>5
    <3> QED
      BY <2>4, <3>1
  <2> QED
    BY <1>1, <2>5 DEF Missed
<1>2. CASE Snip(t) /\ u = t /\ Points(pre[t], cur[t])
  <2>1. /\ pc[t] = "snip" /\ pc'[t] = "walk" /\ pre[t] \in Used /\ succ[t] \in Used
        /\ arg[t] \in Keys /\ key[pre[t]] < arg[t]
    <3>1. pc[t] = "snip" /\ pc'[t] = "walk"
      BY <1>2 DEF IInv, Main, TypeOK, Snip, Goto
    <3>2. succ[t] = next[cur[t]] /\ marked[cur[t]] /\ cur[t] \in Used /\ cur[t] # Tail
      BY <3>1, UsedNodes DEF IInv, Main, TypeOK, Place, Sorted
    <3> QED
      BY <3>1, <3>2 DEF IInv, Main, TypeOK, Growing, Place, Calls
  <2>2. /\ cur'[t] = succ[t] /\ next'[pre[t]] = succ[t] /\ arg'[t] = arg[t]
        /\ Used' = Used /\ key' = key /\ ~marked'[pre[t]]
    BY <1>2, <2>1, UsedNodes DEF IInv, Main, TypeOK, Snip, Points, Used
  <2>3. arg'[t] < key'[cur'[t]] => arg'[t] \notin Members'
    BY <2>1, <2>2, Gap
  <2>4. (arg'[t] \in Members') \in seen'[t]
    BY <2>1, SeenGrows
  <2>5. ASSUME arg'[t] < key'[cur'[t]] PROVE FALSE \in seen'[t]
    <3>1. (arg'[t] \in Members') = FALSE
      BY <2>3, <2>5
    <3> QED
      BY <2>4, <3>1
  <2> QED
    BY <1>2, <2>5 DEF Missed
<1>3. CASE Pass(t) /\ u = t /\ snip[t]
  <2>1. /\ pc[t] = "walk" /\ pc'[t] = "walk" /\ cur[t] \in Used /\ arg[t] \in Keys
        /\ key[cur[t]] < arg[t] /\ ~marked[cur[t]]
    BY <1>3 DEF IInv, Main, TypeOK, Calls, Pass
  <2>2. /\ cur'[t] = next'[cur[t]] /\ arg'[t] = arg[t] /\ Used' = Used /\ key' = key
        /\ ~marked'[cur[t]]
    BY <1>3, <2>1 DEF IInv, Main, TypeOK, Pass, Used
  <2>3. arg'[t] < key'[cur'[t]] => arg'[t] \notin Members'
    BY <2>1, <2>2, Gap
  <2>4. (arg'[t] \in Members') \in seen'[t]
    BY <2>1, SeenGrows
  <2>5. ASSUME arg'[t] < key'[cur'[t]] PROVE FALSE \in seen'[t]
    <3>1. (arg'[t] \in Members') = FALSE
      BY <2>3, <2>5
    <3> QED
      BY <2>4, <3>1
  <2> QED
    BY <1>3, <2>5 DEF Missed
<1>4. CASE u # t
  <2>1. pc'[u] = pc[u] /\ arg'[u] = arg[u] /\ cur'[u] = cur[u]
    BY <1>4, StepIsOwn DEF IInv, Others
  <2> QED
    BY <2>1, MissedStays
<1>5. CASE u = t /\ ~Find(t) /\ ~(Snip(t) /\ Points(pre[t], cur[t])) /\ ~(Pass(t) /\ snip[t])
  <2>1. CASE Snip(t)
    <3>1. pc[u] = "snip" /\ arg'[u] = arg[u] /\ cur'[u] = cur[u]
      BY <1>5, <2>1 DEF Snip, Goto
    <3> QED
      BY <3>1, MissedStays
  <2>2. CASE Pass(t)
    <3>1. pc[u] = "walk" /\ arg'[u] = arg[u] /\ cur'[u] = cur[u]
      BY <1>5, <2>2 DEF Pass
    <3> QED
      BY <3>1, MissedStays
  <2>3. CASE MeetMarked(t)
    <3>1. pc[u] = "walk" /\ arg'[u] = arg[u] /\ cur'[u] = cur[u]
      BY <1>5, <2>3 DEF MeetMarked, Goto
    <3> QED
      BY <3>1, MissedStays
  <2>4. CASE ~(Snip(t) \/ Pass(t) \/ MeetMarked(t))
    <3>1. pc'[t] \notin {"walk", "snip"}
      BY <1>5, <2>4 DEF IInv, Main, TypeOK, Step, Call, Window, LinkNode, LinkFails,
                        ReadSucc, Mark, MarkFails, Unlink, Return, Goto
    <3> QED
      BY <1>5, <3>1 DEF Missed
  <2> QED
    BY <2>1, <2>2, <2>3, <2>4
<1> QED
  BY <1>1, <1>2, <1>3, <1>4, <1>5

\* What the history knows of the present, it knows again after each step.
LEMMA InvSeen == ASSUME IInv, TypeOK', Observe PROVE SeenNow'
<1>1. \A t \in Threads : seen'[t] =
          IF pc'[t] \in {"call", "done"} THEN {}
          ELSE {arg'[t] \in Members'} \cup (IF pc[t] = "call" THEN {} ELSE seen[t])
  BY DEF Observe
<1>2. DOMAIN seen' = Threads /\ seen' = [t \in DOMAIN seen' |-> seen'[t]]
  BY DEF Observe
<1>3. ASSUME NEW t \in Threads PROVE seen'[t] \in SUBSET BOOLEAN
  <2>1. seen[t] \in SUBSET BOOLEAN /\ (arg'[t] \in Members') \in BOOLEAN
    BY DEF IInv, SeenNow
  <2> QED
    BY <1>1, <2>1
<1> QED
  BY <1>1, <1>2, <1>3 DEF SeenNow

LEMMA MainSame ==
    ASSUME IInv, UNCHANGED program
    PROVE  Main' /\ MarkedStay /\ Members' = Members
<1>1. Used' = Used /\ OnList' = OnList
  BY DEF Used, OnList, program
<1>2. TypeOK' /\ Growing' /\ Sorted' /\ Calls'
  BY <1>1 DEF IInv, Main, TypeOK, Growing, Sorted, Calls, program, locals
<1>3. \A t \in Threads : Place(t)'
  BY DEF IInv, Main, Place, program, locals
<1> QED
  BY <1>1, <1>2, <1>3 DEF Main, MarkedStay, Members, program

LEMMA InvNext == ASSUME IInv, [Next]_vars PROVE IInv' /\ MarkedStay
<1>1. CASE UNCHANGED vars
  <2>1. Main' /\ MarkedStay /\ Members' = Members
    BY <1>1, MainSame DEF vars
  <2>2. SeenNow' /\ \A t \in Threads : Missed(t)'
    BY <1>1, <2>1 DEF IInv, SeenNow, Missed, vars, program, locals
  <2> QED
    BY <2>1, <2>2 DEF IInv
<1>2. CASE Observe /\ \E t \in Threads : Step(t)
  <2>1. PICK t \in Threads : Step(t)
    BY <1>2
  <2>2. Main' /\ MarkedStay
    BY <2>1, InvStep DEF IInv
  <2>3. SeenNow'
    BY <1>2, <2>2, InvSeen DEF Main
  <2>4. \A u \in Threads : Missed(u)'
    BY <1>2, <2>1, <2>2, InvMissed
  <2> QED
    BY <2>2, <2>3, <2>4 DEF IInv
<1>3. CASE Observe /\ Joined
  <2>1. Main' /\ MarkedStay
    BY <1>3, MainSame DEF Joined
  <2>2. SeenNow'
    BY <1>3, <2>1, InvSeen DEF Main
  <2>3. \A u \in Threads : Missed(u)'
    BY <1>3 DEF Joined, AllDone, Missed, program
  <2> QED
    BY <2>1, <2>2, <2>3 DEF IInv
<1> QED
  BY <1>1, <1>2, <1>3 DEF Next

THEOREM Invariant == Spec => []IInv
<1>1. IInv /\ [Next]_vars => IInv'
  BY InvNext
<1> QED
  BY <1>1, InvInit, PTL DEF Spec

\* The pointers of every thread lead to linked nodes, whatever others unlink
\* meanwhile (UnblockingSafeSet::find, common/safe_set.cpp:177-201).
THEOREM TypeCorrect == Spec => []TypeOK
BY Invariant, PTL DEF IInv, Main

LEMMA ListSorted == IInv => SortedList
<1> SUFFICES ASSUME IInv PROVE SortedList
  OBVIOUS
<1>1. \A n \in Used \ {Tail} : next[n] \in Used /\ key[n] < key[next[n]]
  BY DEF IInv, Main, Growing
<1>2. {n \in Used : ~marked[n]} \subseteq OnList
  BY DEF IInv, Main, Sorted
<1>3. \A t \in Threads :
         pc[t] \in {"change", "mark", "unlink"} =>
             /\ key[pre[t]] < arg[t]
             /\ IF t \in Adders THEN arg[t] < key[cur[t]] ELSE arg[t] = key[cur[t]]
  BY DEF IInv, Main, Place
<1> QED
  BY <1>1, <1>2, <1>3 DEF SortedList

\* Keys grow along every pointer, unmarked nodes stay on the list, and a call
\* changes the list at the place of its key (add and remove,
\* common/safe_set.cpp:203-233).
THEOREM StaysSorted == Spec => []SortedList
BY Invariant, ListSorted, PTL

\* Nobody writes the word of a marked node again: every exchange of a pointer
\* asks for an unmarked one (AtomicMarkablePointer::compareAndSet).
THEOREM MarkedNodesStay == Spec => MarkedForGood
<1>1. IInv /\ [Next]_vars => [\A n \in Nodes : marked[n] => marked'[n] /\ next'[n] = next[n]]_vars
  BY InvNext DEF MarkedStay
<1> QED
  BY <1>1, Invariant, PTL DEF Spec, MarkedForGood
------------------------------------------------------------------------------
(* The list is a set that the threads share.                                *)

call == [t \in Threads |->
            IF pc[t] \in {"call", "done"} THEN None
            ELSE [op |-> IF t \in Adders THEN "add" ELSE "remove",
                  key |-> arg[t]]]

LEMMA InCall ==
    ASSUME IInv, NEW t \in Threads
    PROVE  IF pc[t] \in {"call", "done"} THEN call[t] = None
           ELSE /\ call[t] # None /\ call[t].key = arg[t] /\ arg[t] \in Keys
                /\ call[t].op = IF t \in Adders THEN "add" ELSE "remove"
<1>1. CASE pc[t] \in {"call", "done"}
  BY <1>1 DEF call
<1>2. CASE pc[t] \notin {"call", "done"}
  <2>1. arg[t] \in Keys
    BY <1>2 DEF IInv, Main, Calls
  <2>2. call[t] = [op |-> IF t \in Adders THEN "add" ELSE "remove", key |-> arg[t]]
    BY <1>2 DEF call
  <2>3. call[t] \in [op : {"add", "remove"}, key : Keys]
    BY <2>1, <2>2
  <2> QED
    BY <1>2, <2>1, <2>2, <2>3, ThreadAssumption
<1> QED
  BY <1>1, <1>2

LEMMA SharedInit == Init => Shared!Init
<1> SUFFICES ASSUME Init PROVE Shared!Init
  OBVIOUS
<1>1. Members = {}
  BY DEF Init, Members, Used, Head, Tail
<1>2. call = [t \in Threads |-> None]
  BY DEF Init, call
<1> QED
  BY <1>1, <1>2 DEF Init, Shared!Init, call

\* Both histories are kept alike.
LEMMA SharedObserves == ASSUME IInv, IInv', Observe PROVE Shared!Observe
<1>1. \A t \in Threads : (call[t] = None) = (pc[t] \in {"call", "done"})
  BY InCall
<1>2. \A t \in Threads :
         IF pc'[t] \in {"call", "done"} THEN call'[t] = None
         ELSE call'[t] # None /\ call'[t].key = arg'[t]
  <2>1. ASSUME NEW t \in Threads, pc'[t] \in {"call", "done"} PROVE call'[t] = None
    BY <2>1 DEF call
  <2>2. ASSUME NEW t \in Threads, pc'[t] \notin {"call", "done"}
        PROVE  call'[t] # None /\ call'[t].key = arg'[t]
    <3>1. arg'[t] \in Keys
      BY <2>2 DEF IInv, Main, Calls
    <3>2. call'[t] = [op |-> IF t \in Adders THEN "add" ELSE "remove", key |-> arg'[t]]
      BY <2>2 DEF call
    <3>3. call'[t] \in [op : {"add", "remove"}, key : Keys]
      BY <3>1, <3>2
    <3> QED
      BY <3>2, <3>3, ThreadAssumption
  <2> QED
    BY <2>1, <2>2
<1>3. ASSUME NEW t \in Threads
      PROVE  seen'[t] = IF call'[t] = None THEN {}
                        ELSE LET there == call'[t].key \in Members'
                             IN  IF call[t] = None THEN {there} ELSE seen[t] \cup {there}
  <2>1. seen'[t] = IF pc'[t] \in {"call", "done"} THEN {}
                   ELSE {arg'[t] \in Members'} \cup (IF pc[t] = "call" THEN {} ELSE seen[t])
    BY DEF Observe
  <2>2. pc[t] \in {"call", "done"} => seen[t] = {}
    BY DEF IInv, SeenNow
  <2> QED
    BY <1>1, <1>2, <2>1, <2>2
<1>4. seen' = [t \in Threads |-> seen'[t]]
  BY DEF Observe
<1> HIDE DEF call
<1>5. seen' = [t \in Threads |->
                 IF call'[t] = None THEN {}
                 ELSE LET there == call'[t].key \in Members'
                      IN  IF call[t] = None THEN {there} ELSE seen[t] \cup {there}]
  BY <1>3, <1>4, Zenon
<1> QED
  BY <1>5 DEF Shared!Observe, call

\* A step inside a call changes nothing that is promised.
LEMMA Inside ==
    ASSUME IInv, IInv', Observe, NEW t \in Threads,
           UNCHANGED <<key, marked, linked, arg, answer>>,
           NEW to \in Steps \ {"call", "done"}, pc' = [pc EXCEPT ![t] = to],
           pc[t] \notin {"call", "done"}
    PROVE  UNCHANGED Shared!vars
<1>1. Members' = Members
  BY DEF Members, Used
<1>2. \A u \in Threads : pc'[u] \in {"call", "done"} <=> pc[u] \in {"call", "done"}
  BY DEF IInv, Main, TypeOK
<1>3. call' = call
  BY <1>2 DEF call
<1>4. seen' = seen
  <2>1. ASSUME NEW u \in Threads PROVE seen'[u] = seen[u]
    <3>1. seen'[u] = IF pc'[u] \in {"call", "done"} THEN {}
                     ELSE {arg'[u] \in Members'} \cup (IF pc[u] = "call" THEN {} ELSE seen[u])
      BY DEF Observe
    <3>2. IF pc[u] \in {"call", "done"} THEN seen[u] = {}
                                       ELSE (arg[u] \in Members) \in seen[u]
      BY DEF IInv, SeenNow
    <3> QED
      BY <1>1, <1>2, <3>1, <3>2
  <2>2. seen \in [Threads -> SUBSET BOOLEAN] /\ seen' \in [Threads -> SUBSET BOOLEAN]
    BY DEF IInv, SeenNow
  <2> QED
    BY <2>1, <2>2
<1> QED
  BY <1>1, <1>3, <1>4 DEF Shared!vars, call

\* The answer FALSE is true of a moment since the call: an adder stands on its
\* key, and a remover has seen it missing.
LEMMA Refused ==
    ASSUME IInv, NEW t \in Threads, pc[t] = "walk", ~marked[cur[t]],
           key[cur[t]] >= arg[t],
           IF t \in Adders THEN key[cur[t]] = arg[t] ELSE key[cur[t]] # arg[t]
    PROVE  (t \in Adders) \in seen[t]
<1>1. cur[t] \in Used /\ arg[t] \in Keys /\ (arg[t] \in Members) \in seen[t]
  BY DEF IInv, Main, TypeOK, Calls, SeenNow
<1>2. CASE t \in Adders
  <2>1. cur[t] # Head /\ cur[t] # Tail
    <3>1. key[Head] = MinKey /\ key[Tail] = MaxKey
      BY DEF IInv, Main, Growing
    <3> QED
      BY <1>1, <1>2, <3>1, KeyRange
  <2>2. arg[t] \in Members
    BY <1>1, <1>2, <2>1 DEF Members
  <2>3. (arg[t] \in Members) = TRUE /\ (t \in Adders) = TRUE
    BY <1>2, <2>2
  <2> QED
    BY <1>1, <2>3
<1>3. CASE t \notin Adders
  <2>1. key[cur[t]] \in Int /\ arg[t] \in Int
    BY <1>1, KeyRange, UsedNodes DEF IInv, Main, TypeOK
  <2>2. arg[t] < key[cur[t]]
    BY <1>3, <2>1
  <2>3. FALSE \in seen[t]
    BY <2>2 DEF IInv, Missed
  <2>4. (t \in Adders) = FALSE
    BY <1>3
  <2> QED
    BY <2>3, <2>4
<1> QED
  BY <1>2, <1>3

LEMMA CallImplements ==
    ASSUME IInv, IInv', NEW t \in Threads, Call(t), Observe
    PROVE  Shared!Next
<1>1. PICK k \in Keys : arg' = [arg EXCEPT ![t] = k]
  BY DEF Call
<1> DEFINE op == IF t \in Adders THEN "add" ELSE "remove"
<1>2. Members' = Members
  BY DEF Call, Members, Used
<1>3. call[t] = None
  BY DEF Call, Goto, call
<1>4. call' = [call EXCEPT ![t] = [op |-> op, key |-> k]]
  <2>1. pc'[t] = "find" /\ arg'[t] = k
    BY <1>1 DEF IInv, Main, TypeOK, Call, Goto
  <2>2. \A u \in Threads \ {t} : pc'[u] = pc[u] /\ arg'[u] = arg[u]
    BY <1>1 DEF IInv, Main, TypeOK, Call, Goto
  <2> QED
    BY <2>1, <2>2 DEF call
<1>5. answer' = answer
  BY DEF Call
<1>6. Shared!Call(t, op, k)
  BY <1>2, <1>3, <1>4, <1>5 DEF Shared!Call, call
<1> QED
  BY <1>6, SharedObserves DEF Shared!Next

\* A call takes effect when it links its node or marks the one it takes out.
LEMMA SuccessImplements ==
    ASSUME IInv, IInv', NEW t \in Threads, Observe, LinkNode(t) \/ Mark(t)
    PROVE  Shared!Next
<1>1. /\ pc[t] \in {"change", "mark"} /\ arg[t] \in Keys /\ answer[t] = None
      /\ \E to \in {"return", "unlink"} : pc' = [pc EXCEPT ![t] = to]
      /\ arg' = arg /\ answer' = [answer EXCEPT ![t] = TRUE]
  BY DEF IInv, Main, Calls, LinkNode, Mark, Goto, Decide
<1>2. /\ call[t] # None /\ call[t].key = arg[t]
      /\ call[t].op = IF t \in Adders THEN "add" ELSE "remove"
  BY <1>1, InCall
<1>3. call' = call
  BY <1>1 DEF IInv, Main, TypeOK, call
<1>4. Shared!Undecided(t)
  BY <1>1, <1>2 DEF Shared!Undecided, call
<1>5. \/ /\ call[t].op = "add" /\ call[t].key \notin Members
         /\ Members' = Members \cup {call[t].key}
      \/ /\ call[t].op = "remove" /\ call[t].key \in Members
         /\ Members' = Members \ {call[t].key}
  <2>1. CASE LinkNode(t)
    <3>1. t \in Adders
      BY <2>1 DEF LinkNode
    <3> QED
      BY <1>2, <2>1, <3>1, InvLinkNode DEF IInv
  <2>2. CASE Mark(t)
    <3>1. pc[t] = "mark"
      BY <2>2 DEF Mark, Goto
    <3>2. t \notin Adders
      BY <3>1, ThreadAssumption DEF IInv, Main, Place
    <3> QED
      BY <1>2, <2>2, <3>2, InvMark DEF IInv
  <2> QED
    BY <2>1, <2>2
<1>6. Shared!Succeed(t)
  BY <1>1, <1>3, <1>4, <1>5 DEF Shared!Succeed, call
<1> QED
  BY <1>6, SharedObserves DEF Shared!Next

\* It is refused, or goes on, where find has ended.
LEMMA WindowImplements ==
    ASSUME IInv, IInv', NEW t \in Threads, Observe, Window(t)
    PROVE  Shared!Next \/ UNCHANGED Shared!vars
<1> DEFINE refused == IF t \in Adders THEN key[cur[t]] = arg[t]
                                      ELSE key[cur[t]] # arg[t]
<1>1. /\ pc[t] = "walk" /\ arg[t] \in Keys /\ answer[t] = None
      /\ UNCHANGED <<key, marked, linked, arg>>
      /\ ~marked[cur[t]] /\ key[cur[t]] >= arg[t]
      /\ pc' = [pc EXCEPT ![t] = IF refused THEN "return" ELSE "change"]
      /\ answer' = [answer EXCEPT ![t] = IF refused THEN FALSE ELSE None]
  <2>1. pc[t] = "walk"
    BY DEF Window, Goto
  <2>2. arg[t] \in Keys /\ answer[t] = None
    BY <2>1 DEF IInv, Main, Calls
  <2>3. /\ UNCHANGED <<key, marked, linked, arg>>
        /\ ~marked[cur[t]] /\ key[cur[t]] >= arg[t]
    BY DEF Window
  <2>4. CASE refused
    BY <2>1, <2>2, <2>3, <2>4 DEF Window, Goto, Decide
  <2>5. CASE ~refused
    BY <2>1, <2>2, <2>3, <2>5 DEF Window, Goto, Decide
  <2> QED
    BY <2>4, <2>5
<1> HIDE DEF refused
<1>2. CASE refused
  <2>1. /\ call[t] # None /\ call[t].key = arg[t]
        /\ call[t].op = IF t \in Adders THEN "add" ELSE "remove"
    BY <1>1, InCall
  <2>2. call' = call
    <3>1. pc' = [pc EXCEPT ![t] = "return"]
      BY <1>1, <1>2
    <3> QED
      BY <1>1, <3>1 DEF IInv, Main, TypeOK, call
  <2>3. Shared!Undecided(t)
    BY <1>1, <2>1 DEF Shared!Undecided, call
  <2>4. (call[t].op = "add") \in seen[t]
    <3>1. (t \in Adders) \in seen[t]
      BY <1>1, <1>2, Refused DEF refused
    <3>2. (call[t].op = "add") = (t \in Adders)
      BY <2>1
    <3> QED
      BY <3>1, <3>2
  <2>5. Members' = Members /\ answer' = [answer EXCEPT ![t] = FALSE]
    BY <1>1, <1>2 DEF Members, Used
  <2>6. Shared!Fail(t)
    BY <2>2, <2>3, <2>4, <2>5 DEF Shared!Fail, call
  <2> QED
    BY <2>6, SharedObserves DEF Shared!Next
<1>3. CASE ~refused
  <2>1. pc' = [pc EXCEPT ![t] = "change"] /\ answer' = answer
    BY <1>1, <1>3 DEF IInv, Main, TypeOK
  <2>2. "change" \in Steps \ {"call", "done"}
    BY DEF Steps
  <2> QED
    BY <1>1, <2>1, <2>2, Inside
<1> QED
  BY <1>2, <1>3

LEMMA ReturnImplements ==
    ASSUME IInv, IInv', NEW t \in Threads, Return(t), Observe
    PROVE  Shared!Next
<1>1. Members' = Members
  BY DEF Return, Members, Used
<1>2. answer[t] # None
  BY ThreadAssumption DEF Return, Goto, IInv, Main, Calls
<1>3. call' = [call EXCEPT ![t] = None]
  <2>1. pc'[t] \in {"call", "done"}
    BY DEF IInv, Main, TypeOK, Return, Goto
  <2>2. \A u \in Threads \ {t} : pc'[u] = pc[u] /\ arg'[u] = arg[u]
    BY DEF IInv, Main, TypeOK, Return, Goto
  <2> QED
    BY <2>1, <2>2 DEF call
<1>4. answer' = [answer EXCEPT ![t] = None]
  BY DEF Return
<1>5. Shared!Return(t)
  BY <1>1, <1>2, <1>3, <1>4 DEF Shared!Return, call
<1> QED
  BY <1>5, SharedObserves DEF Shared!Next

LEMMA NextImplements ==
    ASSUME IInv, IInv', [Next]_vars
    PROVE  [Shared!Next]_Shared!vars
<1>1. CASE UNCHANGED vars
  BY <1>1 DEF vars, program, Shared!vars, Members, Used
<1>2. CASE Observe /\ \E t \in Threads : Step(t)
  <2>1. PICK t \in Threads : Step(t)
    BY <1>2
  <2>2. CASE Find(t) \/ MeetMarked(t) \/ Snip(t) \/ LinkFails(t) \/ ReadSucc(t)
             \/ MarkFails(t) \/ Unlink(t)
    <3>1. /\ UNCHANGED <<key, marked, linked, arg, answer>> /\ pc[t] \notin {"call", "done"}
          /\ \E to \in Steps \ {"call", "done"} : pc' = [pc EXCEPT ![t] = to]
      BY <2>2 DEF Find, MeetMarked, Snip, LinkFails, ReadSucc, MarkFails, Unlink, Goto, Steps
    <3> QED
      BY <1>2, <3>1, Inside
  <2>3. CASE Pass(t)
    <3>1. /\ UNCHANGED <<key, marked, linked, arg, answer>> /\ pc[t] = "walk"
          /\ "walk" \in Steps \ {"call", "done"} /\ pc' = [pc EXCEPT ![t] = "walk"]
      BY <2>3 DEF Pass, Steps, IInv, Main, TypeOK
    <3> QED
      BY <1>2, <3>1, Inside
  <2>4. CASE Call(t)
    BY <1>2, <2>4, CallImplements
  <2>5. CASE LinkNode(t) \/ Mark(t)
    BY <1>2, <2>5, SuccessImplements
  <2>6. CASE Window(t)
    BY <1>2, <2>6, WindowImplements
  <2>7. CASE Return(t)
    BY <1>2, <2>7, ReturnImplements
  <2> QED
    BY <2>1, <2>2, <2>3, <2>4, <2>5, <2>6, <2>7 DEF Step
<1>3. CASE Observe /\ Joined
  <2>1. UNCHANGED program /\ \A t \in Threads : pc[t] = "done"
    BY <1>3 DEF Joined, AllDone
  <2>2. seen' = seen
    <3>1. \A t \in Threads : seen'[t] = {} /\ seen[t] = {}
      BY <1>3, <2>1 DEF IInv, SeenNow, program
    <3>2. seen \in [Threads -> SUBSET BOOLEAN] /\ seen' \in [Threads -> SUBSET BOOLEAN]
      BY DEF IInv, SeenNow
    <3> QED
      BY <3>1, <3>2
  <2> QED
    BY <2>1, <2>2 DEF program, Shared!vars, Members, Used
<1> QED
  BY <1>1, <1>2, <1>3 DEF Next

\* UnblockingSafeSet keeps the promise of a set that threads share, although its
\* calls do not exclude each other: a call that links or marks takes effect
\* then, one that is refused took effect when find still saw the place of its
\* key (UnblockingSafeSet::add and remove, common/safe_set.cpp:203-233).
THEOREM SetImplemented == Spec => IsSet
<1>1. Init => Shared!Init
  BY SharedInit
<1>2. IInv /\ IInv' /\ [Next]_vars => [Shared!Next]_Shared!vars
  BY NextImplements
<1> QED
  BY <1>1, <1>2, Invariant, PTL DEF Spec, IsSet, Shared!Spec
==============================================================================
