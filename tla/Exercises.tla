------------------------------- MODULE Exercises -------------------------------
(***************************************************************************)
(* The exercises of mess/problems.cpp, with the containers of common/ they *)
(* use: MinStack, the lists of list_node.cpp and the trees of              *)
(* tree_node.cpp.  A list is the sequence of its values.  A tree, or what  *)
(* search_err_node makes of one, is two functions from nodes to nodes; a   *)
(* node is the place of its value in the numbers BuildTree was given.      *)
(***************************************************************************)
EXTENDS Integers, Sequences, SequencesExt, FiniteSetsExt

CONSTANTS Null,     \* a null pointer
          Quote     \* both kinds of quote

Space == " "
------------------------------------------------------------------------------
(* Lists.                                                                  *)

\* A node whose value is 0 is taken for one that was not filled yet.
BuildList(nums) ==
    LET Add(list, x) == IF Last(list) = 0 THEN Front(list) \o <<x>> ELSE Append(list, x)
    IN  FoldLeft(Add, <<0>>, nums)

RECURSIVE merge_list(_, _)
merge_list(l1, l2) ==
    IF l1 = << >> \/ l2 = << >> THEN l1 \o l2
    ELSE IF l1[1] < l2[1] THEN <<l1[1]>> \o merge_list(Tail(l1), l2)
                          ELSE <<l2[1]>> \o merge_list(l1, Tail(l2))

\* curNode is kept if the node behind it has another value; nodes of the same
\* value are deleted, and curNode with them.
RECURSIVE deleteDuplication(_)
deleteDuplication(list) ==
    LET same == {i \in 1 .. Len(list) : \A j \in 1 .. i : list[j] = list[1]}
        rest == SubSeq(list, Max(same) + 1, Len(list))
    IN  IF list = << >> THEN << >>
        ELSE (IF same = {1} THEN <<list[1]>> ELSE << >>) \o deleteDuplication(rest)

\* From the last card on the table: the hand's last card goes to its front, and
\* the card before it.
recover_cards(table) ==
    LET Take(cur, hand) ==
            <<cur>> \o (IF Len(hand) > 1 THEN <<Last(hand)>> \o Front(hand) ELSE hand)
    IN  FoldRight(Take, table, << >>)

is_rotate(a, b) ==
    IF a = Null \/ b = Null THEN a = b
    ELSE Len(a) = Len(b) /\ \A i \in 1 .. Len(a) : a[i] = b[Len(a) - i + 1]

MsPush(s, value) ==
    [values |-> Append(s.values, value),
     mins |-> Append(s.mins, IF s.mins # << >> /\ value > Last(s.mins) THEN Last(s.mins)
                                                                       ELSE value)]

MsPop(s) ==
    IF s.values = << >> THEN s ELSE [values |-> Front(s.values), mins |-> Front(s.mins)]
------------------------------------------------------------------------------
(* Bookmarks: pairs of a folder and what is in it.                         *)

RECURSIVE Marked(_, _)
Marked(id, set) ==
    {id} \cup UNION {Marked(set[i][2], set) : i \in {j \in DOMAIN set : set[j][1] = id}}

\* _mark does not end if a folder contains itself.
delete_bookmark(id, set) == SelectSeq(set, LAMBDA item : item[2] \notin Marked(id, set))
------------------------------------------------------------------------------
(* Trees.                                                                  *)

\* nums is a tree level by level, Null where a child is missing.  parents are
\* the nodes of a level that have not been given children yet.
BuildTree(nums) ==
    LET Start == [left |-> [n \in DOMAIN nums |-> Null], right |-> [n \in DOMAIN nums |-> Null],
                  parents |-> <<1>>, children |-> << >>, parent |-> Null, isLeft |-> TRUE]
        Place(b, i) ==
            LET parent == IF b.isLeft THEN Head(b.parents) ELSE b.parent
                parents == IF b.isLeft THEN Tail(b.parents) ELSE b.parents
                children == IF nums[i] # Null THEN Append(b.children, i) ELSE b.children
                child == IF nums[i] # Null THEN i ELSE Null
                level == ~b.isLeft /\ parents = << >>
            IN  [left |-> IF b.isLeft THEN [b.left EXCEPT ![parent] = child] ELSE b.left,
                 right |-> IF b.isLeft THEN b.right ELSE [b.right EXCEPT ![parent] = child],
                 parents |-> IF level THEN children ELSE parents,
                 children |-> IF level THEN << >> ELSE children,
                 parent |-> parent, isLeft |-> ~b.isLeft]
        built == FoldLeft(Place, Start, [i \in 1 .. Len(nums) - 1 |-> i + 1])
    IN  [val |-> nums, left |-> built.left, right |-> built.right]

RECURSIVE InOrder(_, _)
InOrder(t, n) ==
    IF n = Null THEN << >> ELSE InOrder(t, t.left[n]) \o <<t.val[n]>> \o InOrder(t, t.right[n])

\* The smallest distance of two neighbours in order; Null stands for INT32_MAX.
min_distance(t) ==
    LET values == InOrder(t, 1)
        distances == {Max({values[i] - values[i - 1], values[i - 1] - values[i]}) :
                          i \in 2 .. Len(values)}
    IN  IF distances = {} THEN Null ELSE Min(distances)

\* _find_err; every node that can be reached is in the set, so a node is taken
\* for the wrong one when just one of its children is missing.  The last is kept.
RECURSIVE FindErr(_, _, _)
FindErr(t, n, target) ==
    IF n = Null THEN target
    ELSE IF (t.left[n] = Null) # (t.right[n] = Null) THEN n
    ELSE FindErr(t, t.right[n], FindErr(t, t.left[n], target))

search_err_node(t) == FindErr(t, 1, Null)
------------------------------------------------------------------------------
(* Numbers.                                                                *)

\* unit is the source's pow_len_m2 * 10.
RECURSIVE number_of_1(_)
number_of_1(n) ==
    LET len == CHOOSE d \in 1 .. 10 : n < 10 ^ d /\ (d = 1 \/ n >= 10 ^ (d - 1))
        unit == 10 ^ (len - 1)
        first == n \div unit
        num_first_digit == IF first = 1 THEN (n % unit) + 1 ELSE unit
        num_other_digit == first * (len - 1) * (unit \div 10)
    IN  IF n <= 0 THEN 0 ELSE IF len = 1 THEN 1
        ELSE num_first_digit + num_other_digit + number_of_1(n % unit)

\* Three indices, each at the first number whose multiple is not in the list.
GetUglyNumber_Solution(index) ==
    LET Least(u, factor) == Min({u[i] * factor : i \in {j \in DOMAIN u : u[j] * factor > Last(u)}})
        Add(u, i) == Append(u, Min({Least(u, 2), Least(u, 3), Least(u, 5)}))
    IN  Last(FoldLeft(Add, <<1>>, [i \in 1 .. index - 1 |-> i]))
------------------------------------------------------------------------------
(* split.                                                                  *)

\* Mutant: the closing quote of one kind leaves an open one of the other.
RangesOfEachKind(str) ==
    LET Read(r, i) ==
            IF str[i] \notin Quote THEN r
            ELSE IF r.open[str[i]] = 0 THEN [r EXCEPT !.open[str[i]] = i]
            ELSE [ranges |-> Append(r.ranges, <<r.open[str[i]], i>>),
                  open |-> [r.open EXCEPT ![str[i]] = 0]]
    IN  FoldLeftDomain(Read, [ranges |-> << >>, open |-> [q \in Quote |-> 0]], str).ranges

\* The ranges that a pair of quotes of a kind encloses.  The closing quote of
\* one kind also forgets an open one of the other.
Ranges(str) ==
    LET Nothing == [q \in Quote |-> 0]
        Read(r, i) ==
            IF str[i] \notin Quote THEN r
            ELSE IF r.open[str[i]] = 0 THEN [r EXCEPT !.open[str[i]] = i]
            ELSE [ranges |-> Append(r.ranges, <<r.open[str[i]], i>>), open |-> Nothing]
    IN  FoldLeftDomain(Read, [ranges |-> << >>, open |-> Nothing], str).ranges

\* Cut at the spaces that are in no range.  A string without a range is none
\* split can be called with: it takes the front of an empty list.
RECURSIVE Cut(_, _, _, _)
Cut(str, ranges, i, j) ==
    IF i > Len(str) THEN <<SubSeq(str, j, Len(str))>>
    ELSE IF ranges # << >> /\ i = ranges[1][1] THEN Cut(str, Tail(ranges), ranges[1][2] + 1, j)
    ELSE IF str[i] = Space THEN <<SubSeq(str, j, i - 1)>> \o Cut(str, ranges, i + 1, i + 1)
    ELSE Cut(str, ranges, i + 1, j)

split(str) == IF str = << >> THEN << >> ELSE Cut(str, Ranges(str), 1, 1)
------------------------------------------------------------------------------
(* What they are to compute.                                               *)

Ordered(s) == \A i \in 1 .. Len(s) - 1 : s[i] <= s[i + 1]
Occurs(s, e) == Cardinality({i \in DOMAIN s : s[i] = e})

\* Of two ordered lists merge_list makes one that is ordered and loses nothing;
\* deleteDuplication leaves the values that occur once; BuildList makes the list
\* of numbers that are not 0.
ListsAgree(l1, l2) ==
    LET merged == merge_list(l1, l2)
    IN  /\ Ordered(merged)
        /\ \A e \in ToSet(l1 \o l2 \o merged) : Occurs(merged, e) = Occurs(l1 \o l2, e)
        /\ deleteDuplication(merged) = SelectSeq(merged, LAMBDA e : Occurs(merged, e) = 1)
        /\ merged # << >> => BuildList(merged) = merged

\* Laying a hand out, one card on the table and the next under the hand in
\* turn, shows the cards recover_cards was given.
CardsAgree(table) ==
    LET Lay(d, i) ==
            LET rest == Tail(d.hand)
            IN  [table |-> Append(d.table, d.hand[1]),
                 hand |-> IF rest = << >> THEN rest ELSE Append(Tail(rest), rest[1])]
    IN  FoldLeftDomain(Lay, [table |-> << >>, hand |-> recover_cards(table)], table).table = table

\* Words, or null pointers, are each other's mirror image.
WordsAgree(a, b) == is_rotate(a, b) <=> b = (IF a = Null THEN Null ELSE Reverse(a))

\* After any pushes (of the number) and pops (Null) top and min are those of the
\* values that are left.
StackAgrees(ops) ==
    LET Run(s, op) == IF op = Null THEN MsPop(s) ELSE MsPush(s, op)
        Keep(s, op) == IF op # Null THEN Append(s, op) ELSE IF s = << >> THEN s ELSE Front(s)
        stack == FoldLeft(Run, [values |-> << >>, mins |-> << >>], ops)
    IN  /\ stack.values = FoldLeft(Keep, << >>, ops)
        /\ Len(stack.mins) = Len(stack.values)
        /\ stack.mins # << >> => Last(stack.mins) = Min(ToSet(stack.values))

\* What is left is what some set of folders closed under "is in" leaves out.
BookmarksAgree(id, set) ==
    LET ids == UNION {ToSet(set[i]) : i \in DOMAIN set} \cup {id}
        Closed(c) == \A i \in DOMAIN set : set[i][1] \in c => set[i][2] \in c
        Outside(item) == \E c \in SUBSET ids : id \in c /\ Closed(c) /\ item[2] \notin c
    IN  delete_bookmark(id, set) = SelectSeq(set, Outside)

\* The k-th node of BuildTree's tree has the 2k-th and next number for its
\* children; in a search tree min_distance is the distance of the closest two.
TreesAgree(nums) ==
    LET t == BuildTree(nums)
        nodes == {n \in DOMAIN nums : nums[n] # Null}
        Rank(n) == Cardinality({m \in nodes : m <= n})
        Child(i) == IF i \in nodes THEN i ELSE Null
        Far(n, m) == Max({nums[n] - nums[m], nums[m] - nums[n]})
    IN  /\ \A n \in nodes : t.left[n] = Child(2 * Rank(n)) /\ t.right[n] = Child(2 * Rank(n) + 1)
        /\ Ordered(InOrder(t, 1)) /\ Cardinality(nodes) > 1 =>
              min_distance(t) = Min({Far(n, m) : <<n, m>> \in {p \in nodes \X nodes : p[1] < p[2]}})

\* In a tree whose nodes have two children or none search_err_node finds the
\* leaf whose right pointer leads to a node beside it.
WrongNodeFound(nums) ==
    LET t == BuildTree(nums)
        leaves == {n \in DOMAIN nums : t.left[n] = Null}
    IN  \A leaf \in leaves : \A other \in leaves \ {leaf} :
            search_err_node([t EXCEPT !.right[leaf] = other]) = leaf

\* number_of_1 counts the digit in all numbers to n, and the index-th ugly
\* number is the one with index - 1 smaller ones.
NumbersAgree(n, index) ==
    LET IsOne(m, d) == (m \div 10 ^ d) % 10 = 1
        Ugly(m) == \E a, b, c \in 0 .. 5 : m = 2 ^ a * 3 ^ b * 5 ^ c
        u == GetUglyNumber_Solution(index)
    IN  /\ number_of_1(n) = Cardinality({p \in (1 .. n) \X (0 .. 3) : IsOne(p[1], p[2])})
        /\ Ugly(u) /\ Cardinality({m \in 1 .. u : Ugly(m)}) = index

\* closing are the places where a pair of quotes ends: from one of them to the
\* next no kind of quote occurs twice, and the next repeats a kind that did occur.
Opened(str, closing, i) ==
    {k \in 1 .. i - 1 : str[k] \in Quote /\ (k .. i - 1) \cap closing = {}}
ArePairs(str, closing) ==
    /\ \A i \in 1 .. Len(str) + 1 : \A j, k \in Opened(str, closing, i) :
          str[j] = str[k] => j = k
    /\ \A i \in closing : \E k \in Opened(str, closing, i) : str[k] = str[i]
Enclosed(str, closing) ==
    UNION {UNION {k .. i : k \in {j \in Opened(str, closing, i) : str[j] = str[i]}} : i \in closing}

\* The pieces of split are the string again, cut at every space that no pair of
\* quotes encloses and nowhere else.
PiecesAgree(str) ==
    LET quotes == {i \in DOMAIN str : str[i] \in Quote}
        closing == CHOOSE c \in SUBSET quotes : ArePairs(str, c)
        cuts == {i \in DOMAIN str \ Enclosed(str, closing) : str[i] = Space}
        pieces == split(str)
        Join(s, i) == s \o (IF i = 1 THEN << >> ELSE <<Space>>) \o pieces[i]
    IN  closing # {} => /\ Len(pieces) = Cardinality(cuts) + 1
                        /\ FoldLeftDomain(Join, << >>, pieces) = str
                        /\ \A i \in 1 .. Len(pieces) - 1 :
                              1 + Len(FoldLeft(Join, << >>, [j \in 1 .. i |-> j])) \in cuts
==============================================================================
