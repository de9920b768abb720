----------------------------- MODULE RedBlackTree -----------------------------
(***************************************************************************)
(* common/red_black_tree.h: Insert, Delete, search and the iterator, over  *)
(* the pointers of the tree.  A round of a loop, or a function of those    *)
(* that call each other to balance the tree, is one step; step says which  *)
(* comes next, and nothing else can be done until the call returns.        *)
(*                                                                         *)
(* A node is named by the item it holds; Delete swaps the items of two     *)
(* nodes, which exchanges their names.  Items are ordered by their key,    *)
(* and two may have the same.                                              *)
(*                                                                         *)
(* The nullptr case of search returns; its two recursive branches have no  *)
(* return statement.  Built without optimisation, as Makefile:2 does, the  *)
(* result of the recursive call is still what the caller reads.            *)
(***************************************************************************)
EXTENDS Integers

CONSTANTS
    Item,           \* the items that are inserted
    KeyOf(_),       \* their keys, integers
    NoNode,         \* a null pointer
    Garbage         \* a pointer that was never assigned

ASSUME TreeAssumption ==
    /\ NoNode \notin Item /\ Garbage \notin Item /\ NoNode # Garbage
    /\ \A i \in Item : KeyOf(i) \in Int

Key == {KeyOf(i) : i \in Item}

Sides == {"left", "right"}

Other(side) == IF side = "left" THEN "right" ELSE "left"

VARIABLES
    items,                  \* history: the items inserted and not deleted
    child, parent, color,   \* the fields of the nodes, left_ and right_ by side
    root, least, greatest,  \* parent_, left_ and right_ of header_
    step,                   \* what comes next
    node, at,               \* the pointers it works on
    key,                    \* the key a Delete looks for
    dead,                   \* the node a Delete has unlinked
    given                   \* history: the items the iterator has given

fieldVars == <<child, parent, color>>
headerVars == <<root, least, greatest>>
treeVars == <<items, fieldVars, headerVars, step, node, at, key, dead, given>>

\* What the constructor of a node sets.
Blank == [i \in Item |-> NoNode]

TreeInit ==
    /\ items = {}
    /\ child = [side \in Sides |-> Blank] /\ parent = Blank
    /\ color = [i \in Item |-> "RED"]
    /\ root = NoNode /\ least = NoNode /\ greatest = NoNode
    /\ step = "idle"
    /\ node = NoNode /\ at = NoNode /\ key = NoNode /\ dead = NoNode
    /\ given = {}

\* The side of p on which n hangs; n may be null, and is looked for left first.
SideOf(p, n) == IF child["left"][p] = n THEN "left" ELSE "right"

IsRed(n) == n # NoNode /\ color[n] = "RED"

\* rotate_left and rotate_right: the child on the other side takes n's place.
Rotate(n, side) ==
    LET p     == parent[n]
        up    == child[Other(side)][n]
        inner == child[side][up]
        turned == [child EXCEPT ![Other(side)][n] = inner, ![side][up] = n]
    IN  IF up = NoNode THEN UNCHANGED <<child, parent>>
        ELSE /\ child' = IF p = NoNode THEN turned
                         ELSE [turned EXCEPT ![SideOf(p, n)][p] = up]
             /\ parent' = [m \in Item |-> IF m = up THEN p
                                          ELSE IF m = n THEN up
                                          ELSE IF m = inner THEN n
                                          ELSE parent[m]]
------------------------------------------------------------------------------
(* Insert *)

Insert(i) ==
    /\ step = "idle" /\ step' = "descend"
    /\ i \notin items
    /\ node' = i /\ at' = root
    /\ UNCHANGED <<items, fieldVars, headerVars, key, dead, given>>

\* insert_by_key, a call of it: equal keys go right.
Descend ==
    LET side == IF KeyOf(at) > KeyOf(node) THEN "left" ELSE "right"
    IN  /\ step = "descend"
        /\ at # NoNode /\ child[side][at] # NoNode
        /\ at' = child[side][at]
        /\ UNCHANGED <<items, fieldVars, headerVars, step, node, key, dead, given>>

LinkNode ==
    LET side == IF KeyOf(at) > KeyOf(node) THEN "left" ELSE "right"
    IN  /\ step = "descend" /\ step' = "adjust"
        /\ IF at = NoNode
           THEN root' = node /\ UNCHANGED <<child, parent>>
           ELSE /\ child[side][at] = NoNode
                /\ child' = [child EXCEPT ![side][at] = node]
                /\ parent' = [parent EXCEPT ![node] = at]
                /\ UNCHANGED root
        /\ items' = items \cup {node}
        /\ at' = NoNode
        /\ UNCHANGED <<color, least, greatest, node, key, dead, given>>

\* The tree is changed; update_root follows.
Changed == step' = "root" /\ at' = root /\ node' = NoNode

Grand(n) == parent[parent[n]]

\* What uncle is: the other child of the grandparent.
Uncle(n) == child[Other(SideOf(Grand(n), parent[n]))][Grand(n)]

\* adjust_tree finds no red parent: adjust_case1 makes a root black, and
\* adjust_case2 does nothing.
AdjustNothing ==
    /\ step = "adjust"
    /\ IF parent[node] = NoNode THEN color' = [color EXCEPT ![node] = "BLACK"]
       ELSE color[parent[node]] = "BLACK" /\ UNCHANGED color
    /\ Changed
    /\ UNCHANGED <<items, child, parent, headerVars, key, dead, given>>

RedParent == step = "adjust" /\ parent[node] # NoNode /\ color[parent[node]] # "BLACK"

\* adjust_case3: a red uncle.
AdjustUncle ==
    /\ RedParent /\ IsRed(Uncle(node))
    /\ color' = [color EXCEPT ![parent[node]] = "BLACK", ![Uncle(node)] = "BLACK",
                              ![Grand(node)] = "RED"]
    /\ node' = Grand(node)
    /\ UNCHANGED <<items, child, parent, headerVars, step, at, key, dead, given>>

\* adjust_case4, its first half: a node on the inner side is turned outwards.
AdjustInner ==
    LET p == parent[node]
        outer == SideOf(Grand(node), p)
    IN  /\ RedParent /\ ~IsRed(Uncle(node))
        /\ step' = "outer"
        /\ IF child[Other(outer)][p] = node
           THEN Rotate(p, outer) /\ node' = child'[outer][node]
           ELSE UNCHANGED <<child, parent, node>>
        /\ UNCHANGED <<items, color, headerVars, at, key, dead, given>>

\* Mutant: the former grandparent stays black.
AdjustOuterPale ==
    LET p == parent[node]
    IN  /\ step = "outer"
        /\ Rotate(parent[p], Other(SideOf(p, node)))
        /\ color' = [color EXCEPT ![p] = "BLACK"]
        /\ Changed
        /\ UNCHANGED <<items, headerVars, key, dead, given>>

\* Its second half: the parent takes the grandparent's place.
AdjustOuter ==
    LET p == parent[node]
        g == parent[p]
    IN  /\ step = "outer"
        /\ Rotate(g, Other(SideOf(p, node)))
        /\ color' = [color EXCEPT ![p] = "BLACK", ![g] = "RED"]
        /\ Changed
        /\ UNCHANGED <<items, headerVars, key, dead, given>>
------------------------------------------------------------------------------
(* Delete *)

Delete(k) ==
    /\ step = "idle" /\ step' = "search"
    /\ key' = k /\ at' = root
    /\ UNCHANGED <<items, fieldVars, headerVars, node, dead, given>>

\* search, a call of it.
Search ==
    /\ step = "search"
    /\ at # NoNode /\ KeyOf(at) # key
    /\ at' = child[IF KeyOf(at) > key THEN "left" ELSE "right"][at]
    /\ UNCHANGED <<items, fieldVars, headerVars, step, node, key, dead, given>>

SearchFails ==
    /\ step = "search" /\ step' = "idle"
    /\ at = NoNode
    /\ key' = NoNode
    /\ UNCHANGED <<items, fieldVars, headerVars, node, at, dead, given>>

\* The node before or after the target is looked for below it, if there is one.
SearchFinds ==
    LET side == IF child["right"][at] # NoNode THEN "right" ELSE "left"
    IN  /\ step = "search"
        /\ at # NoNode /\ KeyOf(at) = key
        /\ node' = at /\ at' = child[side][at]
        /\ step' = IF at' = NoNode THEN "unlink" ELSE IF side = "right" THEN "min" ELSE "max"
        /\ UNCHANGED <<items, fieldVars, headerVars, key, dead, given>>

Inwards == IF step = "min" THEN "left" ELSE "right"

\* min and max.
Neighbour ==
    /\ step \in {"min", "max"}
    /\ child[Inwards][at] # NoNode
    /\ at' = child[Inwards][at]
    /\ UNCHANGED <<items, fieldVars, headerVars, step, node, key, dead, given>>

\* Mutant: the two items are not swapped.
SwapNothing ==
    /\ step \in {"min", "max"} /\ step' = "unlink"
    /\ child[Inwards][at] = NoNode
    /\ node' = at /\ at' = NoNode
    /\ UNCHANGED <<items, fieldVars, headerVars, key, dead, given>>

\* The target and the node next to it swap their items, and so their names.
Swap ==
    LET Name(n) == IF n = at THEN node ELSE IF n = node THEN at ELSE n
        Renamed(f) == [i \in Item |-> Name(f[Name(i)])]
    IN  /\ step \in {"min", "max"} /\ step' = "unlink"
        /\ child[Inwards][at] = NoNode
        /\ child' = [side \in Sides |-> Renamed(child[side])]
        /\ parent' = Renamed(parent)
        /\ color' = [i \in Item |-> color[Name(i)]]
        /\ root' = Name(root) /\ least' = Name(least) /\ greatest' = Name(greatest)
        /\ at' = NoNode
        /\ UNCHANGED <<items, node, key, dead, given>>

\* delete_node_with_one_child: replace_node, and the colours of the two.
Unlink ==
    LET c == IF child["right"][node] # NoNode THEN child["right"][node]
                                              ELSE child["left"][node]
        p == parent[node]
    IN  /\ step = "unlink"
        /\ parent' = IF c = NoNode THEN parent ELSE [parent EXCEPT ![c] = p]
        /\ IF p = NoNode THEN root' = c /\ UNCHANGED child
           ELSE /\ child' = [child EXCEPT ![SideOf(p, node)][p] = c]
                /\ UNCHANGED root
        /\ dead' = node /\ items' = items \ {node} /\ key' = NoNode
        /\ IF color[node] = "BLACK" /\ ~IsRed(c)
           THEN step' = "shorter" /\ node' = c /\ at' = p
           ELSE step' = "delete" /\ node' = NoNode /\ at' = NoNode
        /\ color' = IF color[node] = "BLACK" /\ IsRed(c)
                    THEN [color EXCEPT ![c] = "BLACK"] ELSE color
        /\ UNCHANGED <<least, greatest, given>>

\* The subtree node, below at, has lost a black node; its sibling has not.
Side == SideOf(at, node)
Sibling == child[IF child["left"][at] # node THEN "left" ELSE "right"][at]

Balanced == step' = "delete" /\ node' = NoNode /\ at' = NoNode

\* delete_node_complex1 at the root.
ShorterTree ==
    /\ step = "shorter" /\ at = NoNode
    /\ Balanced
    /\ UNCHANGED <<items, fieldVars, headerVars, key, dead, given>>

\* delete_node_complex2: a red sibling.
RedSibling ==
    /\ step = "shorter" /\ at # NoNode
    /\ step' = "pale"
    /\ IF color[Sibling] = "RED"
       THEN /\ color' = [color EXCEPT ![at] = "RED", ![Sibling] = "BLACK"]
            /\ Rotate(at, Side)
       ELSE UNCHANGED fieldVars
    /\ UNCHANGED <<items, headerVars, node, at, key, dead, given>>

PaleSibling ==
    /\ color[Sibling] = "BLACK"
    /\ \A side \in Sides : ~IsRed(child[side][Sibling])

\* delete_node_complex3: there is no red node around; so at is shorter as well.
ShortenSibling ==
    /\ step = "pale" /\ step' = "shorter"
    /\ color[at] = "BLACK" /\ PaleSibling
    /\ color' = [color EXCEPT ![Sibling] = "RED"]
    /\ node' = at /\ at' = parent[at]
    /\ UNCHANGED <<items, child, parent, headerVars, key, dead, given>>

\* delete_node_complex4: the parent is the only red one.
SwapColors ==
    /\ step = "pale"
    /\ color[at] = "RED" /\ PaleSibling
    /\ color' = [color EXCEPT ![Sibling] = "RED", ![at] = "BLACK"]
    /\ Balanced
    /\ UNCHANGED <<items, child, parent, headerVars, key, dead, given>>

\* delete_node_complex5: a red child of the sibling is turned outwards.
BorrowInner ==
    LET s == Sibling
        near == child[Side][s]
    IN  /\ step = "pale" /\ step' = "borrow"
        /\ ~PaleSibling
        /\ IF color[s] = "BLACK" /\ ~IsRed(child[Other(Side)][s]) /\ IsRed(near)
           THEN /\ color' = [color EXCEPT ![s] = "RED", ![near] = "BLACK"]
                /\ Rotate(s, Other(Side))
           ELSE UNCHANGED fieldVars
        /\ UNCHANGED <<items, headerVars, node, at, key, dead, given>>

\* delete_node_complex6: the sibling takes its parent's place and colour.
BorrowOuter ==
    /\ step = "borrow"
    /\ color' = [color EXCEPT ![Sibling] = color[at], ![at] = "BLACK",
                              ![child[Other(Side)][Sibling]] = "BLACK"]
    /\ Rotate(at, Side)
    /\ Balanced
    /\ UNCHANGED <<items, headerVars, key, dead, given>>

DeleteNode ==
    /\ step = "delete"
    /\ child' = [side \in Sides |-> [child[side] EXCEPT ![dead] = NoNode]]
    /\ parent' = [parent EXCEPT ![dead] = NoNode]
    /\ color' = [color EXCEPT ![dead] = "RED"]
    /\ dead' = NoNode
    /\ Changed
    /\ UNCHANGED <<items, headerVars, key, given>>
------------------------------------------------------------------------------
(* update_root, update_most_left and update_most_right end every change. *)

UpdateRoot ==
    /\ step = "root"
    /\ IF at # NoNode /\ parent[at] # NoNode
       THEN at' = parent[at] /\ UNCHANGED <<root, step>>
       ELSE root' = at /\ at' = at /\ step' = "least"
    /\ UNCHANGED <<items, fieldVars, least, greatest, node, key, dead, given>>

UpdateMostLeft ==
    /\ step = "least"
    /\ IF at # NoNode /\ child["left"][at] # NoNode
       THEN at' = child["left"][at] /\ UNCHANGED <<least, step>>
       ELSE least' = at /\ at' = root /\ step' = "greatest"
    /\ UNCHANGED <<items, fieldVars, root, greatest, node, key, dead, given>>

UpdateMostRight ==
    /\ step = "greatest"
    /\ IF at # NoNode /\ child["right"][at] # NoNode
       THEN at' = child["right"][at] /\ UNCHANGED <<greatest, step>>
       ELSE greatest' = at /\ at' = NoNode /\ step' = "idle"
    /\ UNCHANGED <<items, fieldVars, root, least, node, key, dead, given>>
------------------------------------------------------------------------------
(* The iterator: node is its current_. *)

GetIterator ==
    /\ step = "idle" /\ step' = "next"
    /\ node' = least
    /\ UNCHANGED <<items, fieldVars, headerVars, at, key, dead, given>>

\* Mutant: the parent of a left child is not visited.
NextItemSkips ==
    LET p == parent[node]
    IN  /\ step = "next" /\ node \in Item
        /\ given' = given \cup {node}
        /\ IF child["right"][node] # NoNode
           THEN at' = child["right"][node] /\ step' = "leftmost" /\ UNCHANGED node
           ELSE IF p = NoNode THEN node' = Garbage /\ UNCHANGED <<step, at>>
           ELSE at' = p /\ step' = "climb" /\ UNCHANGED node
        /\ UNCHANGED <<items, fieldVars, headerVars, key, dead>>

\* Next gives the current item and moves on.  Without a parent, grand is not
\* assigned.
NextItem ==
    LET p == parent[node]
    IN  /\ step = "next" /\ node \in Item
        /\ given' = given \cup {node}
        /\ IF child["right"][node] # NoNode
           THEN at' = child["right"][node] /\ step' = "leftmost" /\ UNCHANGED node
           ELSE IF p = NoNode THEN node' = Garbage /\ UNCHANGED <<step, at>>
           ELSE IF child["left"][p] = node THEN node' = p /\ UNCHANGED <<step, at>>
           ELSE at' = p /\ step' = "climb" /\ UNCHANGED node
        /\ UNCHANGED <<items, fieldVars, headerVars, key, dead>>

\* Down to the leftmost node of the right subtree.
Leftmost ==
    /\ step = "leftmost"
    /\ IF child["left"][at] # NoNode
       THEN at' = child["left"][at] /\ UNCHANGED <<step, node>>
       ELSE node' = at /\ at' = NoNode /\ step' = "next"
    /\ UNCHANGED <<items, fieldVars, headerVars, key, dead, given>>

\* Up to the first node on whose left it is; at is parent, and grand above it.
Climb ==
    LET grand == parent[at]
    IN  /\ step = "climb"
        /\ IF grand # NoNode /\ child["right"][grand] = at
           THEN at' = grand /\ UNCHANGED <<step, node>>
           ELSE node' = grand /\ at' = NoNode /\ step' = "next"
        /\ UNCHANGED <<items, fieldVars, headerVars, key, dead, given>>

\* Next returns false, or the program is lost with a pointer never assigned.
IteratorEnds ==
    /\ step = "next" /\ step' = "idle"
    /\ node \notin Item
    /\ node' = NoNode /\ given' = {}
    /\ UNCHANGED <<items, fieldVars, headerVars, at, key, dead>>
------------------------------------------------------------------------------
InsertSteps == \/ \E i \in Item : Insert(i)
               \/ Descend \/ LinkNode
               \/ AdjustNothing \/ AdjustUncle \/ AdjustInner \/ AdjustOuter

DeleteSteps == \/ \E k \in Key : Delete(k)
               \/ Search \/ SearchFails \/ SearchFinds \/ Neighbour \/ Swap \/ Unlink
               \/ ShorterTree \/ RedSibling \/ ShortenSibling \/ SwapColors
               \/ BorrowInner \/ BorrowOuter \/ DeleteNode

HeaderSteps == UpdateRoot \/ UpdateMostLeft \/ UpdateMostRight

IteratorSteps == GetIterator \/ NextItem \/ Leftmost \/ Climb \/ IteratorEnds

TreeNext == InsertSteps \/ DeleteSteps \/ HeaderSteps \/ IteratorSteps

TreeSpec == TreeInit /\ [][TreeNext]_treeVars
------------------------------------------------------------------------------
\* The pointers agree: the root has no parent, each other node is a child of its
\* parent, and the children of nodes are nodes and know it.
WellLinked ==
    /\ root \in items \/ (root = NoNode /\ items = {})
    /\ \A n \in items :
          /\ IF n = root THEN parent[n] = NoNode
             ELSE parent[n] \in items /\ \E side \in Sides : child[side][parent[n]] = n
          /\ \A side \in Sides :
                child[side][n] # NoNode => child[side][n] \in items /\ parent[child[side][n]] = n

\* What Min and Max return: no key is smaller or greater.
Extreme ==
    /\ least \in items \/ items = {}
    /\ greatest \in items \/ items = {}
    /\ \A n \in items : KeyOf(least) <= KeyOf(n) /\ KeyOf(n) <= KeyOf(greatest)

\* verify_color, -1 where it fails.
VerifyColor[n \in Item \cup {NoNode}] ==
    IF n = NoNode THEN 1
    ELSE LET l == VerifyColor[child["left"][n]]
             r == VerifyColor[child["right"][n]]
         IN  IF IsRed(n) /\ (IsRed(child["left"][n]) \/ IsRed(child["right"][n])) THEN -1
             ELSE IF l # r \/ r = -1 THEN -1
             ELSE l + (IF color[n] = "BLACK" THEN 1 ELSE 0)

\* Between the calls, after any Inserts and Deletes: the six pointers around each
\* node agree, Min and Max are right, Valid() holds (no red node has a red child,
\* and all ways down have equally many black nodes), and the root is black.
IsRedBlackTree ==
    step = "idle" => WellLinked /\ Extreme /\ VerifyColor[root] # -1 /\ ~IsRed(root)

\* The iterator gives every item once, in the order of the keys, and stops.  In
\* a tree whose root has no right child it ends at the root, and goes on from a
\* pointer that was never assigned.
IteratorVisitsAll ==
    step = "next" =>
        /\ \A i \in given, j \in items \ given : KeyOf(i) <= KeyOf(j)
        /\ IF node \in Item THEN node \in items \ given
           ELSE /\ given = items
                /\ node = Garbage <=> root # NoNode /\ child["right"][root] = NoNode

\* A call that has not taken effect yet.
Op == IF step = "descend" THEN "insert"
      ELSE IF step \in {"search", "min", "max", "unlink"} THEN "delete"
      ELSE "none"
Arg == IF Op = "insert" THEN node ELSE IF Op = "delete" THEN key ELSE NoNode

Bag == INSTANCE OrderedBag WITH None <- NoNode, op <- Op, arg <- Arg

\* Insert adds the item it is given when it links its node; Delete takes out one
\* item of its key, and fails to only if there is none.
IsBag == Bag!Spec
==============================================================================
