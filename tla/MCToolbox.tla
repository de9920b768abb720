------------------------------ MODULE MCToolbox ------------------------------
(***************************************************************************)
(* The repository's small programs and classes that have nothing to do     *)
(* with each other, model-checked side by side: a behaviour chooses one    *)
(* part and takes steps of that part only.  The algorithms take no steps:  *)
(* each initial state is an input for one of them.                         *)
(***************************************************************************)
EXTENDS SequentialSorts, Exercises, CountDownLatch, MemoryOrder, LRUHashMap, TreePLRU,
        UdpEcho, CoarseSafeSet, SafeLookupTable

VARIABLES part, input

vars == <<part, input, latchVars, orderVars, lruVars, plruVars, echoVars, coarseVars, tableVars>>

MCWayNums == 0 .. 9
MCQuote == {"'", "\""}
------------------------------------------------------------------------------
(* The inputs of the algorithms: all of them up to a small size.           *)

Arrays == SeqOf(-1 .. 2, 5)
AscendingLists == {s \in SeqOf(1 .. 3, 3) : Ordered(s)}
Words == SeqOf({"a", "b"}, 3) \cup {Null}
StackCalls == SeqOf(1 .. 3 \cup {Null}, 4)
Bookmarks == SeqOf({p \in (0 .. 3) \X (0 .. 3) : p[1] < p[2]}, 3)
\* A tree by levels: its root is there, and what is below a missing node is not.
Levels == {s \in SeqOf(1 .. 3 \cup {Null}, 5) :
              /\ s # <<>> /\ s[1] # Null
              /\ Len(s) > 3 => s[2] # Null \/ s[3] # Null}
FullTrees == {[i \in 1 .. n |-> i] : n \in {3, 5, 7}}
Numbers == 0 .. 25 \cup {99, 100, 101, 110, 111, 112, 119, 120, 199, 200, 210,
                         999, 1000, 1001, 1110, 1111, 1112}
Strings == SeqOf({"a", Space} \cup Quote, 6)
\* The cases of mess/unit_test.cpp:67 and :72, each word one letter, with the
\* pieces the test expects: ab 'cde"fg'" h and ab 'cd e"f "g'" h.
SplitTests ==
    {[s |-> <<"a", Space, "'", "c", "\"", "f", "'", "\"", Space, "h">>,
      pieces |-> <<<<"a">>, <<"'", "c", "\"", "f", "'", "\"">>, <<"h">>>>],
     [s |-> <<"a", Space, "'", "c", Space, "e", "\"", "f", Space, "\"", "g", "'", "\"", Space, "h">>,
      pieces |-> <<<<"a">>, <<"'", "c">>, <<"e", "\"", "f", Space, "\"", "g", "'", "\"">>, <<"h">>>>]}
CardOrders == UNION {{s \in [1 .. n -> 1 .. n] : \A i, j \in 1 .. n : s[i] = s[j] => i = j} : n \in 0 .. 5}

Inputs ==
    [kind : {"array"}, s : Arrays]
    \cup [kind : {"lists"}, s : AscendingLists, t : AscendingLists]
    \cup [kind : {"words"}, s : Words, t : Words]
    \cup [kind : {"stack"}, s : StackCalls]
    \cup [kind : {"bookmarks"}, id : 0 .. 2, s : Bookmarks]
    \cup [kind : {"levels"}, s : Levels]
    \cup [kind : {"wrong_node"}, s : FullTrees]
    \cup [kind : {"number"}, n : Numbers]
    \cup [kind : {"string"}, s : Strings]
    \cup [kind : {"split_test"}, test : SplitTests]
    \cup [kind : {"cards"}, s : CardOrders]
------------------------------------------------------------------------------
Init ==
    /\ part \in {"algorithms", "latch", "order", "lru", "plru", "echo", "coarse", "table"}
    /\ input \in IF part = "algorithms" THEN Inputs ELSE {Null}
    /\ LatchInit /\ OrderInit /\ LruInit /\ PlruInit /\ EchoInit /\ CoarseInit /\ TableInit
    /\ part # "plru" => way_num_ = 2

\* A step of one part leaves the others alone.
In(p) ==
    /\ part = p
    /\ UNCHANGED <<part, input>>
    /\ IF p = "latch" THEN TRUE ELSE UNCHANGED latchVars
    /\ IF p = "order" THEN TRUE ELSE UNCHANGED orderVars
    /\ IF p = "lru" THEN TRUE ELSE UNCHANGED lruVars
    /\ IF p = "plru" THEN TRUE ELSE UNCHANGED plruVars
    /\ IF p = "echo" THEN TRUE ELSE UNCHANGED echoVars
    /\ IF p = "coarse" THEN TRUE ELSE UNCHANGED coarseVars
    /\ IF p = "table" THEN TRUE ELSE UNCHANGED tableVars

Next ==
    \/ In("algorithms")
    \/ In("latch") /\ LatchNext
    \/ In("order") /\ OrderNext
    \/ In("lru") /\ LruNext
    \/ In("plru") /\ PlruNext
    \/ In("echo") /\ EchoNext
    \/ In("coarse") /\ CoarseNext
    \/ In("table") /\ TableNext

\* Every thread and every program goes on for as long as it can; nothing is
\* asked of the network, of spurious wake-ups or of failing calls.
Fairness ==
    /\ WF_vars(In("latch") /\ MainThread)
    /\ \A t \in Adder : WF_vars(In("latch") /\ AdderThread(t))
    /\ WF_vars(In("echo") /\ Client)
    /\ WF_vars(In("echo") /\ Server)

Spec == Init /\ [][Next]_vars /\ Fairness
------------------------------------------------------------------------------
\* The sorts of sort_algorithm/, the selections built on them and the binary
\* search agree on every array with what sorting it means.
SortsAgree == input # Null /\ input.kind = "array" => ArraysAgree(input.s)

\* The functions of mess/problems.cpp and of the small containers of common/
\* compute what their definitions say, for every small input.
ExercisesAgree ==
    input # Null =>
        CASE input.kind = "array" -> TRUE
          [] input.kind = "lists" -> ListsAgree(input.s, input.t)
          [] input.kind = "words" -> WordsAgree(input.s, input.t)
          [] input.kind = "stack" -> StackAgrees(input.s)
          [] input.kind = "bookmarks" -> BookmarksAgree(input.id, input.s)
          [] input.kind = "levels" -> TreesAgree(input.s)
          [] input.kind = "wrong_node" -> WrongNodeFound(input.s)
          [] input.kind = "number" -> NumbersAgree(input.n, 1 + (input.n % 15))
          [] input.kind = "string" -> PiecesAgree(input.s)
          [] input.kind = "split_test" ->
                 /\ split(input.test.s) = input.test.pieces
                 /\ PiecesAgree(input.test.s)
          [] input.kind = "cards" -> CardsAgree(input.s)

\* count_down.cpp: the adders all pass the latch and main destroys it.
LatchAlwaysOpens == part = "latch" => LatchOpens

\* client.cpp: the client ends unless the network loses a datagram.
EchoAlwaysEnds == part = "echo" => EchoEnds
==============================================================================
