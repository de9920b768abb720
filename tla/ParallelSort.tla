----------------------------- MODULE ParallelSort -----------------------------
(***************************************************************************)
(* sort_algorithm/parallel_sort.h: do_sort splits off the elements below   *)
(* its pivot as a chunk for any thread to sort, sorts the others itself,   *)
(* and then, until its chunk is sorted, sorts whatever chunk it can get.   *)
(*                                                                         *)
(* A thread's calls of do_sort are a stack of frames.  An element is the   *)
(* pivot of one call at most, so it names the chunk that call makes; which *)
(* element of a list is first is left open, as std::partition leaves it.   *)
(* The stack of chunks is the one LockFreeStack shows to be last in first  *)
(* out.                                                                    *)
(***************************************************************************)
EXTENDS Integers, Sequences, SequencesExt, FiniteSets

CONSTANTS
    Elem,               \* the elements of lists
    Less(_, _),         \* their order: x < y
    Main,               \* the thread that calls parallel_quick_sort
    Workers,            \* bound: the threads that can be created
    Given,              \* what may be given: [list, cores], elements to sort and
                        \* the answer of hardware_concurrency(), 0 if unknown
    UintSize,           \* 2^32: max_thread_count_ is unsigned
    None                \* no chunk, no result yet

Threads == {Main} \cup Workers

ASSUME SortAssumption ==
    /\ IsFiniteSet(Elem)
    /\ Main \notin Workers
    /\ Given \subseteq [list : (SUBSET Elem) \ {{}}, cores : Nat]
    /\ UintSize \in Nat \ {0}
    /\ None \notin Elem /\ None \notin Seq(Elem)
    /\ \A x, y \in Elem : Less(x, y) => ~Less(y, x)
    /\ \A x, y, z \in Elem : Less(x, y) /\ Less(y, z) => Less(x, z)

VARIABLES
    list,       \* the list parallel_quick_sort is called with
    max_thread_count_,
    calls,      \* the frames of do_sort on each thread's stack, the last on top
    chunks,     \* chunks_, the top first
    data,       \* the elements of each chunk
    promise,    \* what each chunk's promise has been set to
    started,    \* threads_
    ended,      \* the workers that have returned from sort_thread
    end,        \* end_of_data_
    output      \* what parallel_quick_sort returns

vars == <<list, max_thread_count_, calls, chunks, data, promise, started, ended, end, output>>

\* A call of do_sort on the elements s, made for the promise of chunk c, or by
\* the call below it, or by parallel_quick_sort.
Frame(s, c) ==
    [at |-> "sort", rest |-> s, chunk |-> c, pivot |-> None,
     higher |-> << >>, result |-> << >>]

Init ==
    /\ \E g \in Given : list = g.list /\ max_thread_count_ = (g.cores - 1) % UintSize
    /\ calls = [t \in Threads |-> IF t = Main THEN <<Frame(list, None)>> ELSE << >>]
    /\ chunks = << >>
    /\ data = [e \in Elem |-> {}]
    /\ promise = [e \in Elem |-> None]
    /\ started = {}
    /\ ended = {}
    /\ end = FALSE
    /\ output = None

Busy(t) == calls[t] # << >>
Top(t) == Last(calls[t])

\* The top frame of t is at one place, and becomes f.
At(t, place) == Busy(t) /\ Top(t).at = place

Becomes(t, f) == calls' = [calls EXCEPT ![t] = Front(@) \o <<f>>]
------------------------------------------------------------------------------
\* A list with one element or none is sorted.
SortShort(t) ==
    /\ At(t, "sort")
    /\ Cardinality(Top(t).rest) <= 1
    /\ Becomes(t, [Top(t) EXCEPT !.at = "return", !.result = SetToSeq(Top(t).rest)])
    /\ UNCHANGED <<chunks, data, promise, started, ended, end, output>>

\* Take the pivot out, and push the elements below it as a chunk.
Split(t) ==
    /\ At(t, "sort")
    /\ Cardinality(Top(t).rest) > 1
    /\ \E p \in Top(t).rest :
          LET low == {e \in Top(t).rest \ {p} : Less(e, p)}
          IN  /\ data' = [data EXCEPT ![p] = low]
              /\ chunks' = <<p>> \o chunks
              /\ Becomes(t, [Top(t) EXCEPT !.at = "hire", !.pivot = p,
                                           !.rest = @ \ (low \cup {p})])
    /\ UNCHANGED <<promise, started, ended, end, output>>

\* threads_.size() is read without mu_: while another thread is about to grow
\* the vector, what is read can be anything.
Hire(t) ==
    /\ At(t, "hire")
    /\ \E more \in BOOLEAN :
          /\ \/ more = (Cardinality(started) < max_thread_count_)
             \/ \E u \in Threads \ {t} : At(u, "spawn")
          /\ Becomes(t, [Top(t) EXCEPT !.at = IF more THEN "spawn" ELSE "descend"])
    /\ UNCHANGED <<chunks, data, promise, started, ended, end, output>>

\* A thread is created under mu_; it does not matter which is next.
Spawn(t) ==
    /\ At(t, "spawn")
    /\ started # Workers
    /\ started' = started \cup {CHOOSE w \in Workers : w \notin started}
    /\ Becomes(t, [Top(t) EXCEPT !.at = "descend"])
    /\ UNCHANGED <<chunks, data, promise, ended, end, output>>

\* do_sort calls itself on the elements not below the pivot.
Descend(t) ==
    /\ At(t, "descend")
    /\ calls' = [calls EXCEPT ![t] =
                    Front(@) \o <<[Top(t) EXCEPT !.at = "wait"],
                                  Frame(Top(t).rest, None)>>]
    /\ UNCHANGED <<chunks, data, promise, started, ended, end, output>>

\* Mutant: the parts are spliced in the wrong order.
CollectReversed(t) ==
    /\ At(t, "wait")
    /\ LET f == Top(t)
       IN  /\ promise[f.pivot] # None
           /\ Becomes(t, [f EXCEPT !.at = "return",
                                   !.result = f.higher \o <<f.pivot>> \o promise[f.pivot]])
    /\ UNCHANGED <<chunks, data, promise, started, ended, end, output>>

\* The chunk is sorted: splice the three parts together.
Collect(t) ==
    /\ At(t, "wait")
    /\ LET f == Top(t)
       IN  /\ promise[f.pivot] # None
           /\ Becomes(t, [f EXCEPT !.at = "return",
                                   !.result = promise[f.pivot] \o <<f.pivot>> \o f.higher])
    /\ UNCHANGED <<chunks, data, promise, started, ended, end, output>>

\* It is not: try_sort_chunk.
WaitOn(t) ==
    /\ At(t, "wait")
    /\ promise[Top(t).pivot] = None
    /\ Becomes(t, [Top(t) EXCEPT !.at = "help"])
    /\ UNCHANGED <<chunks, data, promise, started, ended, end, output>>

\* Mutant: the thread that waits does not help.
HelpNobody(t) ==
    /\ At(t, "help")
    /\ Becomes(t, [Top(t) EXCEPT !.at = "wait"])
    /\ UNCHANGED <<chunks, data, promise, started, ended, end, output>>

Help(t) ==
    /\ At(t, "help")
    /\ IF chunks = << >>
       THEN Becomes(t, [Top(t) EXCEPT !.at = "wait"])
       ELSE calls' = [calls EXCEPT ![t] =
                         Front(@) \o <<[Top(t) EXCEPT !.at = "wait"],
                                       Frame(data[Head(chunks)], Head(chunks))>>]
    /\ chunks' = IF chunks = << >> THEN chunks ELSE Tail(chunks)
    /\ UNCHANGED <<data, promise, started, ended, end, output>>

\* The call that sorted a chunk sets its promise.
SetPromise(t) ==
    /\ At(t, "return")
    /\ Top(t).chunk # None
    /\ promise' = [promise EXCEPT ![Top(t).chunk] = Top(t).result]
    /\ calls' = [calls EXCEPT ![t] = Front(@)]
    /\ UNCHANGED <<chunks, data, started, ended, end, output>>

\* The recursive call returns to the one below it.
ReturnHigher(t) ==
    /\ At(t, "return")
    /\ Top(t).chunk = None
    /\ Len(calls[t]) > 1
    /\ LET below == Front(calls[t])
       IN  calls' = [calls EXCEPT ![t] =
                        Front(below) \o <<[Last(below) EXCEPT !.higher = Top(t).result]>>]
    /\ UNCHANGED <<chunks, data, promise, started, ended, end, output>>

\* do_sort returns to parallel_quick_sort, and ~Sorter ends the workers.
ReturnOutput ==
    /\ At(Main, "return")
    /\ Len(calls[Main]) = 1
    /\ output' = Top(Main).result
    /\ end' = TRUE
    /\ calls' = [calls EXCEPT ![Main] = << >>]
    /\ UNCHANGED <<chunks, data, promise, started, ended>>

\* Mutant: the chunk stays on the stack for others.
TakeChunkLeaves(w) ==
    /\ w \in started \ ended
    /\ ~Busy(w) /\ ~end
    /\ chunks # << >>
    /\ calls' = [calls EXCEPT ![w] = <<Frame(data[Head(chunks)], Head(chunks))>>]
    /\ UNCHANGED <<chunks, data, promise, started, ended, end, output>>

\* sort_thread: sort a chunk if there is one, until the end.
TakeChunk(w) ==
    /\ w \in started \ ended
    /\ ~Busy(w) /\ ~end
    /\ chunks # << >>
    /\ calls' = [calls EXCEPT ![w] = <<Frame(data[Head(chunks)], Head(chunks))>>]
    /\ chunks' = Tail(chunks)
    /\ UNCHANGED <<data, promise, started, ended, end, output>>

EndThread(w) ==
    /\ w \in started \ ended
    /\ ~Busy(w) /\ end
    /\ ended' = ended \cup {w}
    /\ UNCHANGED <<calls, chunks, data, promise, started, end, output>>
------------------------------------------------------------------------------
DoSort(t) ==
    \/ SortShort(t) \/ Split(t) \/ Hire(t) \/ Spawn(t) \/ Descend(t)
    \/ Collect(t) \/ WaitOn(t) \/ Help(t) \/ SetPromise(t) \/ ReturnHigher(t)

Step(t) ==
    /\ \/ DoSort(t)
       \/ t = Main /\ ReturnOutput
       \/ t \in Workers /\ (TakeChunk(t) \/ EndThread(t))
    /\ UNCHANGED <<list, max_thread_count_>>

AllJoined == end /\ ended = started

Next == (\E t \in Threads : Step(t)) \/ (AllJoined /\ UNCHANGED vars)

Spec == Init /\ [][Next]_vars

\* The scheduler runs every thread.
FairSpec == Spec /\ \A t \in Threads : WF_vars(Step(t))
------------------------------------------------------------------------------
\* The calls of do_sort there are: thread and height on its stack.
Places == UNION {{<<t, i>> : i \in DOMAIN calls[t]} : t \in Threads}
Call(x) == calls[x[1]][x[2]]

\* A chunk is a local variable of the call that split it off.  It is on the stack,
\* or being sorted by one call, as long as that call waits for its result and has
\* not got it; so when parallel_quick_sort destroys the Sorter no chunk is left and
\* no worker is in do_sort, where it might create a thread while the threads are
\* joined.
ChunkAlive ==
    /\ \A i, j \in DOMAIN chunks : chunks[i] = chunks[j] => i = j
    /\ \A x, y \in Places : Call(x).chunk # None /\ Call(x).chunk = Call(y).chunk => x = y
    /\ \A x \in Places : Call(x).chunk \notin ToSet(chunks)
    /\ \A c \in Elem :
           c \in ToSet(chunks) \/ (\E x \in Places : Call(x).chunk = c)
               <=> promise[c] = None /\ \E x \in Places : Call(x).pivot = c /\ Call(x).at # "return"
    /\ end => chunks = << >> /\ \A t \in Threads : ~Busy(t)

SortedSeq(s) == \A i, j \in DOMAIN s : i < j => ~Less(s[j], s[i])

IsSortOf(s, set) ==
    /\ SortedSeq(s)
    /\ ToSet(s) = set
    /\ IsInjective(s)

\* Whatever thread sorted what, every chunk's result, and the whole, holds the
\* elements it was to sort, each once, in their order.
SortsInput ==
    /\ \A c \in Elem : promise[c] # None => IsSortOf(promise[c], data[c])
    /\ output # None => IsSortOf(output, list)

\* Threads that wait for one another's chunks, each with calls buried below
\* others, never wait in a circle: the sort ends and every thread is joined.
SortEnds == <>AllJoined
==============================================================================
