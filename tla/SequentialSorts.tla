--------------------------- MODULE SequentialSorts ---------------------------
(***************************************************************************)
(* The sequential algorithms on arrays: the sorts of sort_algorithm/,      *)
(* small_k beside heap_sort, binary_search of mess/, and the recursion of  *)
(* multi_thread/parallel_accumulate.h, whose halves share nothing.         *)
(*                                                                         *)
(* An array is a sequence of integers, counted from 1; an operator gives   *)
(* what the function of its name leaves in the array.  Every loop is kept: *)
(* what is compared with what, in which order, and what is moved.          *)
(***************************************************************************)
EXTENDS Integers, Sequences, SequencesExt

CONSTANT MaxChunkSize   \* max_chunk_size of parallel_accumulate

ASSUME ChunkAssumption == MaxChunkSize \in Nat \ {0}

UpTo(a, b) == IF b < a THEN << >> ELSE [k \in 1 .. b - a + 1 |-> a + k - 1]
DownTo(a, b) == Reverse(UpTo(b, a))
Swap(s, i, j) == [s EXCEPT ![i] = s[j], ![j] = s[i]]

bubble_sort(s) ==
    LET Compare(a, j) == IF a[j] > a[j + 1] THEN Swap(a, j, j + 1) ELSE a
        Pass(a, i) == FoldLeft(Compare, a, UpTo(1, Len(s) - i))
    IN  FoldLeft(Pass, s, UpTo(1, Len(s) - 1))

\* Where the inner loop breaks, having started at j.
RECURSIVE LastNotLarger(_, _, _)
LastNotLarger(s, j, temp) ==
    IF j = 0 \/ s[j] <= temp THEN j ELSE LastNotLarger(s, j - 1, temp)

insert_sort(s) ==
    LET Insert(a, i) ==
            InsertAt(RemoveAt(a, i), LastNotLarger(a, i - 1, a[i]) + 1, a[i])
    IN  FoldLeft(Insert, s, UpTo(2, Len(s)))
------------------------------------------------------------------------------
\* Mutant: a node with two children is compared with the first only.
RECURSIVE adjust_heap_left(_, _, _)
adjust_heap_left(s, len, i) ==
    IF len > 1 /\ 2 * i <= len /\ s[i] < s[2 * i]
    THEN adjust_heap_left(Swap(s, i, 2 * i), len, 2 * i)
    ELSE s

\* Let the element at i sink in the heap of the first len elements.
RECURSIVE adjust_heap(_, _, _)
adjust_heap(s, len, i) ==
    LET larger == IF 2 * i + 1 <= len /\ s[2 * i] < s[2 * i + 1] THEN 2 * i + 1 ELSE 2 * i
    IN  IF len > 1 /\ larger <= len /\ s[i] < s[larger]
        THEN adjust_heap(Swap(s, i, larger), len, larger)
        ELSE s

init_heap(s, len) ==
    LET Sink(a, i) == adjust_heap(a, len, i) IN FoldLeft(Sink, s, DownTo(len \div 2, 1))

heap_sort(s) ==
    LET Extract(a, i) == adjust_heap(Swap(a, 1, i), i - 1, 1)
    IN  FoldLeft(Extract, init_heap(s, Len(s)), DownTo(Len(s), 2))

\* A heap of the k smallest so far, the largest of them on top; num keeps what
\* falls out, which the caller does not look at.
small_k(s, k) ==
    LET Offer(heap, i) == IF s[i] < heap[1] THEN adjust_heap([heap EXCEPT ![1] = s[i]], k, 1)
                                            ELSE heap
    IN  IF Len(s) = k THEN s
        ELSE FoldLeft(Offer, init_heap(SubSeq(s, 1, k), k), UpTo(k + 1, Len(s)))
------------------------------------------------------------------------------
RECURSIVE Merge(_, _)
Merge(a, b) ==
    IF a = << >> \/ b = << >> THEN a \o b
    ELSE IF a[1] < b[1] THEN <<a[1]>> \o Merge(Tail(a), b)
                        ELSE <<b[1]>> \o Merge(a, Tail(b))

RECURSIVE merge_sort(_)
merge_sort(s) ==
    LET mid == Len(s) \div 2
    IN  IF Len(s) <= 1 THEN s
        ELSE Merge(merge_sort(SubSeq(s, 1, mid)), merge_sort(SubSeq(s, mid + 1, Len(s))))

\* What is below the last element goes to the front, and the pivot behind it.
RECURSIVE quick_sort(_)
quick_sort(s) ==
    LET k == Len(s)
        Pass(p, i) == IF p.a[i] < p.a[k] THEN [a |-> Swap(p.a, p.j, i), j |-> p.j + 1] ELSE p
        part == FoldLeft(Pass, [a |-> s, j |-> 1], UpTo(1, k - 1))
        a == Swap(part.a, part.j, k)
    IN  IF k <= 1 THEN s
        ELSE quick_sort(SubSeq(a, 1, part.j - 1)) \o <<a[part.j]>>
                 \o quick_sort(SubSeq(a, part.j + 1, k))

\* The two inner loops of faster_sort.
RECURSIVE Down(_, _, _, _)
Down(s, i, j, pivot) == IF i < j /\ s[j] >= pivot THEN Down(s, i, j - 1, pivot) ELSE j

RECURSIVE Up(_, _, _, _)
Up(s, i, j, pivot) == IF i < j /\ s[i] <= pivot THEN Up(s, i + 1, j, pivot) ELSE i

\* The two indices move towards each other, each filling the hole the other left.
RECURSIVE Holes(_, _, _, _)
Holes(s, i, j, pivot) ==
    LET down == Down(s, i, j, pivot)
        a == [s EXCEPT ![i] = s[down]]
        up == Up(a, i, down, pivot)
    IN  IF i < j THEN Holes([a EXCEPT ![down] = a[up]], up, down, pivot)
                 ELSE [a |-> [s EXCEPT ![i] = pivot], i |-> i]

RECURSIVE faster_sort(_)
faster_sort(s) ==
    LET part == Holes(s, 1, Len(s), s[1])
    IN  IF Len(s) <= 1 THEN s
        ELSE faster_sort(SubSeq(part.a, 1, part.i - 1)) \o <<part.a[part.i]>>
                 \o faster_sort(SubSeq(part.a, part.i + 1, Len(s)))
------------------------------------------------------------------------------
RECURSIVE Halve(_, _, _, _)
Halve(s, target, l, h) ==
    LET mid == (l + h) \div 2
    IN  IF l >= h THEN h
        ELSE IF target > s[mid + 1] THEN Halve(s, target, mid + 1, h)
                                    ELSE Halve(s, target, l, mid)

\* The index of the source, from 0, or -1.
binary_search(s, target) ==
    LET h == Halve(s, target, 0, Len(s) - 1)
    IN  IF Len(s) > 0 /\ s[h + 1] = target THEN h ELSE -1

\* The first half begins with init, the second with T().
RECURSIVE parallel_accumulate(_, _)
parallel_accumulate(s, init) ==
    LET mid == Len(s) \div 2
    IN  IF Len(s) <= MaxChunkSize THEN FoldLeft(+, init, s)
        ELSE parallel_accumulate(SubSeq(s, 1, mid), init)
                 + parallel_accumulate(SubSeq(s, mid + 1, Len(s)), 0)
------------------------------------------------------------------------------
(* What they are to compute.                                               *)

Count(s, e) == Len(SelectSeq(s, LAMBDA x : x = e))

\* The array holds its elements in order, each as often as before.
Sorts(s, sorted) ==
    /\ Len(sorted) = Len(s)
    /\ \A i \in 1 .. Len(s) : Count(sorted, s[i]) = Count(s, s[i])
    /\ \A i \in 1 .. Len(s) - 1 : sorted[i] <= sorted[i + 1]

\* The six sorts, small_k for every k, binary_search in the sorted array and
\* parallel_accumulate do for s what a simple definition of each does.
ArraysAgree(s) ==
    LET inOrder == merge_sort(s)
    IN  /\ \A sorted \in {bubble_sort(s), insert_sort(s), heap_sort(s), merge_sort(s),
                          quick_sort(s), faster_sort(s)} : Sorts(s, sorted)
        /\ \A k \in 1 .. Len(s) : Sorts(SubSeq(inOrder, 1, k), merge_sort(small_k(s, k)))
        /\ \A target \in ToSet(s) \cup {0} :
              LET found == {i \in 1 .. Len(s) : inOrder[i] = target}
              IN  IF found = {} THEN binary_search(inOrder, target) = -1
                  ELSE binary_search(inOrder, target) + 1
                           = CHOOSE i \in found : \A j \in found : i <= j
        /\ \A init \in {0, 7} : parallel_accumulate(s, init) = FoldLeft(+, init, s)
==============================================================================
