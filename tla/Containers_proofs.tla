-------------------------- MODULE Containers_proofs --------------------------
(***************************************************************************)
(* The containers RedBlackTree and SafeQueue, one after the other.         *)
(*                                                                         *)
(* The tree: each node is given a position on a line and bounds for the    *)
(* positions below it.  That the pointers make a tree, that its keys are   *)
(* in order and that its heights are even then say something of each node  *)
(* and its children, and a rotation changes it at three nodes.  Lemmas     *)
(* about any pointers c and par, colours col and set S of nodes say what a *)
(* rotation, a link and the like keep; the lemmas Inv... apply them.       *)
(*                                                                         *)
(* The queue: its two locks suffice.  For any number of threads that push  *)
(* and pop, nodes are only read when they are finished, and the queue is a *)
(* FIFO queue.                                                             *)
(***************************************************************************)
EXTENDS RedBlackTree, SafeQueue, TLAPS, SequenceTheorems, WellFoundedInduction,
        NaturalsInduction

\* x lies on side d of y.
Lies(d, x, y) == IF d = "left" THEN x < y ELSE y < x

\* The nodes of S are a tree below top, by their pointers.
Wired(c, par, S, top) ==
    /\ top \in S \/ (S = {} /\ top = NoNode)
    /\ \A n \in S : par[n] = NoNode <=> n = top
    /\ \A n \in S : n # top => par[n] \in S /\ \E d \in Sides : c[d][par[n]] = n
    /\ \A n \in S, d \in Sides : c[d][n] # NoNode => c[d][n] \in S /\ par[c[d][n]] = n

\* Each node has a position of its own, between the bounds that the nodes above it set.
Ranged(c, S, pos, bound) ==
    /\ \A n \in S : bound["left"][n] < pos[n] /\ pos[n] < bound["right"][n]
    /\ \A n \in S, d \in Sides : c[d][n] # NoNode =>
          bound[d][c[d][n]] = bound[d][n] /\ bound[Other(d)][c[d][n]] = pos[n]
    /\ \A n, m \in S : pos[n] = pos[m] => n = m

\* Below a node, on the side where a position is, there is a node; and all are below top.
Filled(c, S, top, pos, bound) ==
    /\ \A n, m \in S, d \in Sides :
          Lies(d, bound[d][n], pos[m]) /\ Lies(d, pos[m], pos[n]) => c[d][n] # NoNode
    /\ \A m \in S : bound["left"][top] < pos[m] /\ pos[m] < bound["right"][top]

\* The nodes of S are a search tree by position.
Shape(c, par, S, top, pos, bound) ==
    Wired(c, par, S, top) /\ Ranged(c, S, pos, bound) /\ Filled(c, S, top, pos, bound)

\* The positions are in the order of the keys; equal keys have an order too.
KeysGrow(S, pos) == \A m, n \in S : pos[m] < pos[n] => KeyOf(m) <= KeyOf(n)

\* The number of black nodes on a way down from n, counting the null at its end.
Height(bh, n) == IF n = NoNode THEN 1 ELSE bh[n]
\* What a node adds to the height.
Ink(col, n) == IF col[n] = "BLACK" THEN 1 ELSE 0

\* bh counts the black nodes below each, one fewer on a side of low.
Even(c, col, S, bh, low, side) ==
    \A n \in S :
       /\ bh[n] >= 1
       /\ \A d \in Sides :
             Height(bh, c[d][n]) = bh[n] - Ink(col, n) - (IF n = low /\ d = side THEN 1 ELSE 0)

\* Any number for each node.
Heights == [Item -> Int]

\* The black nodes below each can be counted, with one fewer on that side of low.
Level(c, col, S, low, side) == \E bh \in Heights : Even(c, col, S, bh, low, side)

\* A red node other than exc has a black parent.
Reds(par, col, S, exc) ==
    \A n \in S : n # exc /\ col[n] = "RED" => par[n] # NoNode /\ col[par[n]] = "BLACK"

\* A node outside the tree is as its constructor made it, except the one just unlinked.
Blanks(c, par, col, S, d) ==
    \A n \in Item \ S : n # d =>
       par[n] = NoNode /\ col[n] = "RED" /\ \A side \in Sides : c[side][n] = NoNode

\* The steps between which the tree does not change, the steps of balancing after
\* an Insert, and those after a Delete.
Still == {"idle", "descend", "search", "min", "max", "next", "leftmost", "climb"}
Adding == {"adjust", "outer"}
Removing == {"shorter", "pale", "borrow"}

\* What is not as it should be yet: the red node whose parent may be red, the node
\* below which a black one is missing, on which side, and the swapped item whose
\* place is not that of its key until it is unlinked.
Spared == IF step \in Adding THEN node ELSE NoNode
Low == IF step \in Removing THEN at ELSE NoNode
LowSide == IF step \in Removing THEN Side ELSE "left"
Unordered == IF step = "unlink" THEN {node} ELSE {}

\* The first and the last.
Ends(d, n, top, bound) == n \in items /\ bound[d][n] = bound[d][top] /\ child[d][n] = NoNode

\* The pointers of header_, once they are set again, and what is known on the way.
Header(top, bound) ==
    /\ step \in Still \cup {"unlink", "least", "greatest"} => root = top
    /\ step \in Still =>
          IF items = {} THEN least = NoNode /\ greatest = NoNode
          ELSE Ends("left", least, top, bound) /\ Ends("right", greatest, top, bound)
    /\ step = "root" => (at = NoNode => items = {})
    /\ step \in {"least", "greatest"} => (at = NoNode => items = {})
    /\ step = "least" => (at # NoNode => bound["left"][at] = bound["left"][top])
    /\ step = "greatest" =>
          /\ at # NoNode => bound["right"][at] = bound["right"][top]
          /\ IF items = {} THEN least = NoNode ELSE Ends("left", least, top, bound)
    /\ step \notin Removing \cup {"delete"} => dead = NoNode

\* On the way down, the key to insert is between the keys around the place reached;
\* after the first half of adjust_case4 the red pair is on the outer side.
Inserting(pos, bound) ==
    /\ step = "descend" =>
          /\ node \in Item \ items
          /\ at = NoNode => items = {}
          /\ at # NoNode => \A m \in items :
                /\ pos[m] <= bound["left"][at] => KeyOf(m) <= KeyOf(node)
                /\ bound["right"][at] <= pos[m] => KeyOf(m) > KeyOf(node)
    /\ step \in Adding => node \in items /\ color[node] = "RED"
    /\ step = "outer" =>
          LET p == parent[node]
              g == parent[p]
          IN  /\ p # NoNode /\ g # NoNode
              /\ color[p] = "RED" /\ color[g] = "BLACK"
              /\ child[SideOf(g, p)][p] = node
              /\ ~IsRed(child[Other(SideOf(g, p))][g])

\* On the way down, what is searched for is below; the node found has no node
\* between itself and the way that min or max goes; the node to unlink has one
\* child at most; and each function of the balancing finds what it needs.
Deleting(pos, bound) ==
    /\ step = "search" => \A m \in items :
          KeyOf(m) = key => at # NoNode /\ bound["left"][at] < pos[m] /\ pos[m] < bound["right"][at]
    /\ step \in {"min", "max"} =>
          /\ at # NoNode /\ node \in items /\ KeyOf(node) = key
          /\ bound[Inwards][at] = pos[node]
    /\ step = "unlink" =>
          /\ node \in items /\ KeyOf(node) = key
          /\ \E d \in Sides : child[d][node] = NoNode
    /\ step \in Removing =>
          /\ ~IsRed(node)
          /\ at # NoNode => child[Side][at] = node
    /\ step \in {"pale", "borrow"} => at # NoNode /\ color[Sibling] = "BLACK"
    /\ step = "borrow" => IsRed(child[Other(Side)][Sibling])

\* The iterator has given exactly the nodes before the place it has come to.
Iterating(pos, bound) ==
    /\ step \notin {"next", "leftmost", "climb"} => given = {}
    /\ step = "next" =>
          IF node \in Item THEN node \in items /\ given = {m \in items : pos[m] < pos[node]}
          ELSE given = items /\ (node = Garbage <=> root # NoNode /\ child["right"][root] = NoNode)
    /\ step = "leftmost" => at # NoNode /\ given = {m \in items : pos[m] <= bound["left"][at]}
    /\ step = "climb" =>
          /\ at # NoNode /\ given = {m \in items : pos[m] < bound["right"][at]}
          /\ child["right"][at] # NoNode

\* The pointers, positions, keys and colours fit.
Sound(top, pos, bound) ==
    /\ Shape(child, parent, items, top, pos, bound)
    /\ KeysGrow(items \ Unordered, pos)
    /\ Blanks(child, parent, color, items, dead)
    /\ Reds(parent, color, items, Spared)
    /\ Level(child, color, items, Low, LowSide)

\* The pointers that a call works on are where its step needs them.
Placed(top, pos, bound) ==
    /\ Header(top, bound) /\ Inserting(pos, bound)
    /\ Deleting(pos, bound) /\ Iterating(pos, bound)

------------------------------------------------------------------------------
(* Rotations                                                                *)

\* The types of the fields, and of the witnesses.
Links == [Sides -> [Item -> Item \cup {NoNode}]]
Parents == [Item -> Item \cup {NoNode}]
Positions == [Item -> Int]
Bounds == [Sides -> [Item -> Int]]

\* What a rotation does to each pointer.
Turned(c, par, n, side, c2, par2) ==
    LET up == c[Other(side)][n]
        inner == c[side][up]
    IN  /\ \A d \in Sides, m \in Item :
              c2[d][m] = IF m = n /\ d # side THEN inner
                         ELSE IF m = up /\ d = side THEN n
                         ELSE IF m = par[n] /\ c[d][m] = n THEN up
                         ELSE c[d][m]
        /\ \A m \in Item :
              par2[m] = IF m = up THEN par[n]
                        ELSE IF m = n THEN up
                        ELSE IF m = inner THEN n
                        ELSE par[m]

\* What there is to know of a child.
Below(c, par, S, top, pos, bound) ==
    \A n \in S, d \in Sides : c[d][n] # NoNode =>
       LET m == c[d][n]
       IN  /\ m \in S /\ par[m] = n /\ m # n /\ m # top /\ m # par[n]
           /\ c[Other(d)][n] # m
           /\ Lies(d, pos[m], pos[n]) /\ Lies(d, bound[d][n], pos[m])
           /\ bound[d][m] = bound[d][n] /\ bound[Other(d)][m] = pos[n]

\* What Shape says of a child, in one piece.
LEMMA ChildFacts ==
    ASSUME NEW S \in SUBSET Item, NEW c \in Links, NEW par \in Parents, NEW top,
           NEW pos \in Positions, NEW bound \in Bounds, Shape(c, par, S, top, pos, bound)
    PROVE  Below(c, par, S, top, pos, bound)
<1> USE TreeAssumption DEF Sides, Other, Links, Parents, Positions, Bounds
<1> SUFFICES ASSUME NEW n \in S, NEW d \in Sides, c[d][n] # NoNode, NEW m, m = c[d][n]
             PROVE  /\ m \in S /\ par[m] = n /\ m # n /\ m # top /\ m # par[n]
                    /\ c[Other(d)][n] # m
                    /\ Lies(d, pos[m], pos[n]) /\ Lies(d, bound[d][n], pos[m])
                    /\ bound[d][m] = bound[d][n] /\ bound[Other(d)][m] = pos[n]
  BY DEF Below
<1>1. m \in S /\ par[m] = n /\ m # top
  BY DEF Shape, Wired
<1>2. bound[d][m] = bound[d][n] /\ bound[Other(d)][m] = pos[n]
  BY DEF Shape, Ranged
<1>3. /\ bound["left"][m] < pos[m] /\ pos[m] < bound["right"][m]
      /\ bound["left"][n] < pos[n] /\ pos[n] < bound["right"][n]
  BY <1>1 DEF Shape, Ranged
<1>4. Lies(d, pos[m], pos[n]) /\ Lies(d, bound[d][n], pos[m])
  BY <1>1, <1>2, <1>3 DEF Lies
<1>5. m # n
  BY <1>1, <1>4 DEF Lies
<1>6. c[Other(d)][n] # m
  <2> SUFFICES ASSUME c[Other(d)][n] = m PROVE FALSE
    OBVIOUS
  <2>1. bound[d][m] = pos[n]
    BY DEF Shape, Ranged
  <2> QED
    BY <2>1, <1>1, <1>2, <1>3
<1>7. m # par[n]
  <2> SUFFICES ASSUME m = par[n] PROVE FALSE
    OBVIOUS
  <2>1. n # top
    BY <1>1, TreeAssumption DEF Shape, Wired
  <2>2. PICK e \in Sides : c[e][m] = n
    BY <2>1 DEF Shape, Wired
  <2>3. bound[Other(e)][n] = pos[m]
    BY <2>2, <1>1 DEF Shape, Ranged
  <2> QED
    BY <2>3, <1>1, <1>2, <1>3, <1>4 DEF Lies
<1> QED
  BY <1>1, <1>2, <1>4, <1>5, <1>6, <1>7
\* The nodes of S are a tree with these positions.
Hangs(c, par, S, top, pos) == \E bound \in Bounds : Shape(c, par, S, top, pos, bound)

\* A rotation keeps all positions; only the bounds of the two nodes change.
LEMMA TurnShape ==
    ASSUME NEW S \in SUBSET Item, NEW c \in Links, NEW par \in Parents, NEW top,
           NEW pos \in Positions, NEW bound \in Bounds, Shape(c, par, S, top, pos, bound),
           NEW n \in S, NEW side \in Sides, c[Other(side)][n] # NoNode,
           NEW c2 \in Links, NEW par2 \in Parents, Turned(c, par, n, side, c2, par2)
    PROVE  Hangs(c2, par2, S, IF n = top THEN c[Other(side)][n] ELSE top, pos)
<1> USE TreeAssumption DEF Sides, Other, Links, Parents, Positions, Bounds
<1> DEFINE o == Other(side)
           up == c[o][n]
           inner == c[side][up]
           p == par[n]
           top2 == IF n = top THEN up ELSE top
           b2 == [d \in Sides |-> [m \in Item |->
                     IF m = n /\ d = o THEN pos[up]
                     ELSE IF m = up /\ d = side THEN bound[side][n] ELSE bound[d][m]]]
<1>0. Below(c, par, S, top, pos, bound)
  BY ChildFacts
<1>1. /\ up \in S /\ par[up] = n /\ up # n /\ up # top /\ up # p
      /\ c[side][n] # up /\ Lies(o, pos[up], pos[n]) /\ Lies(o, bound[o][n], pos[up])
      /\ bound[o][up] = bound[o][n] /\ bound[side][up] = pos[n]
  BY <1>0 DEF Below
<1>2. inner # NoNode =>
      /\ inner \in S /\ par[inner] = up /\ inner # up /\ inner # top /\ inner # n
      /\ c[o][up] # inner /\ Lies(side, pos[inner], pos[up])
      /\ bound[side][inner] = pos[n] /\ bound[o][inner] = pos[up]
  BY <1>0, <1>1 DEF Below
<1>3. n # top => /\ p \in S /\ p # NoNode /\ p # n /\ p # up
                 /\ \E e \in Sides : c[e][p] = n /\ c[Other(e)][p] # n
  <2> SUFFICES ASSUME n # top PROVE /\ p \in S /\ p # NoNode /\ p # n /\ p # up
                 /\ \E e \in Sides : c[e][p] = n /\ c[Other(e)][p] # n
    OBVIOUS
  <2>1. p \in S /\ \E e \in Sides : c[e][p] = n
    BY DEF Shape, Wired
  <2>2. PICK e \in Sides : c[e][p] = n
    BY <2>1
  <2>3. n # p /\ c[Other(e)][p] # n
    BY <2>1, <2>2, <1>0 DEF Below
  <2> QED
    BY <2>1, <2>2, <2>3, <1>1
<1>4. n = top <=> p = NoNode
  BY DEF Shape, Wired
<1>5. /\ \A d \in Sides, m \in Item :
            c2[d][m] = IF m = n /\ d # side THEN inner
                       ELSE IF m = up /\ d = side THEN n
                       ELSE IF m = p /\ c[d][m] = n THEN up
                       ELSE c[d][m]
      /\ \A m \in Item :
            par2[m] = IF m = up THEN p
                      ELSE IF m = n THEN up
                      ELSE IF m = inner THEN n
                      ELSE par[m]
  BY DEF Turned
<1>6. b2 \in Bounds
  OBVIOUS
<1>7. \A d \in Sides, m \in Item :
         b2[d][m] = IF m = n /\ d = o THEN pos[up]
                    ELSE IF m = up /\ d = side THEN bound[side][n] ELSE bound[d][m]
  OBVIOUS
<1> HIDE DEF up, inner, p, b2, o
<1>o. o \in Sides /\ o # side /\ Other(o) = side /\ Other(side) = o
  BY DEF o
<1>8. Wired(c2, par2, S, top2)
  <2>1. top2 \in S
    BY <1>1 DEF Shape, Wired
  <2>2. ASSUME NEW m \in S PROVE par2[m] = NoNode <=> m = top2
    BY <1>1, <1>2, <1>3, <1>4, <1>5 DEF Shape, Wired
  <2>3. ASSUME NEW m \in S, m # top2
        PROVE  par2[m] \in S /\ \E d \in Sides : c2[d][par2[m]] = m
    <3>1. CASE m = up
      BY <3>1, <2>3, <1>1, <1>3, <1>4, <1>5
    <3>2. CASE m = n
      BY <3>2, <1>1, <1>5, <1>o
    <3>3. CASE m = inner /\ m # up /\ m # n
      BY <3>3, <1>1, <1>5, <1>o
    <3>4. CASE m # inner /\ m # up /\ m # n
      <4>1. par2[m] = par[m] /\ m # top
        BY <3>4, <2>3, <1>1, <1>5
      <4>2. PICK d \in Sides : c[d][par[m]] = m /\ par[m] \in S
        BY <4>1 DEF Shape, Wired
      <4>3. c2[d][par[m]] = m
        BY <4>1, <4>2, <3>4, <1>1, <1>5, <1>o DEF up, inner
      <4> QED
        BY <4>1, <4>2, <4>3
    <3> QED
      BY <3>1, <3>2, <3>3, <3>4
  <2>4. ASSUME NEW m \in S, NEW d \in Sides, c2[d][m] # NoNode
        PROVE  c2[d][m] \in S /\ par2[c2[d][m]] = m
    <3>1. CASE m = n
      BY <3>1, <2>4, <1>1, <1>2, <1>5, <1>o, <1>0 DEF Below, up, inner, p
    <3>2. CASE m = up
      <4>1. CASE d = side
        BY <3>2, <4>1, <1>1, <1>5
      <4>2. CASE d = o
        BY <3>2, <4>2, <2>4, <1>1, <1>2, <1>3, <1>4, <1>5, <1>o, <1>0 DEF Below, inner
      <4> QED
        BY <4>1, <4>2, <1>o
    <3>3. CASE m # n /\ m # up
      <4>1. CASE c[d][m] = n
        BY <3>3, <4>1, <1>1, <1>5, <1>o, <1>0 DEF Below, p
      <4>2. CASE c[d][m] # n
        BY <3>3, <4>2, <2>4, <1>1, <1>2, <1>5, <1>o, <1>0 DEF Below
      <4> QED
        BY <4>1, <4>2
    <3> QED
      BY <3>1, <3>2, <3>3
  <2> QED
    BY <2>1, <2>2, <2>3, <2>4 DEF Wired
<1>9. Ranged(c2, S, pos, b2)
  <2>1. ASSUME NEW m \in S
        PROVE  b2["left"][m] < pos[m] /\ pos[m] < b2["right"][m]
    <3>1. /\ bound["left"][m] < pos[m] /\ pos[m] < bound["right"][m]
          /\ bound["left"][n] < pos[n] /\ pos[n] < bound["right"][n]
      BY DEF Shape, Ranged
    <3> QED
      BY <3>1, <1>1, <1>7, <1>o DEF Lies
  <2>2. ASSUME NEW m \in S, NEW d \in Sides, c2[d][m] # NoNode
        PROVE  b2[d][c2[d][m]] = b2[d][m] /\ b2[Other(d)][c2[d][m]] = pos[m]
    <3>1. CASE m = n
      BY <3>1, <2>2, <1>1, <1>2, <1>5, <1>7, <1>o, <1>0 DEF Below, up, inner, p
    <3>2. CASE m = up
      <4>1. CASE d = side
        BY <3>2, <4>1, <1>1, <1>5, <1>7, <1>o
      <4>2. CASE d = o
        BY <3>2, <4>2, <2>2, <1>1, <1>2, <1>3, <1>4, <1>5, <1>7, <1>o, <1>0 DEF Below, inner
      <4> QED
        BY <4>1, <4>2, <1>o
    <3>3. CASE m # n /\ m # up
      <4>1. CASE c[d][m] = n
        BY <3>3, <4>1, <1>1, <1>5, <1>7, <1>o, <1>0 DEF Below, p
      <4>2. CASE c[d][m] # n
        BY <3>3, <4>2, <2>2, <1>1, <1>2, <1>5, <1>7, <1>o, <1>0 DEF Below
      <4> QED
        BY <4>1, <4>2
    <3> QED
      BY <3>1, <3>2, <3>3
  <2> QED
    BY <2>1, <2>2 DEF Ranged, Shape
<1>10. Filled(c2, S, top2, pos, b2)
  <2>1. ASSUME NEW m \in S, NEW k \in S, NEW d \in Sides,
               Lies(d, b2[d][m], pos[k]), Lies(d, pos[k], pos[m])
        PROVE  c2[d][m] # NoNode
    <3>1. Lies(d, bound[d][m], pos[k]) => c[d][m] # NoNode
      BY <2>1 DEF Shape, Filled
    <3>2. CASE m = n /\ d = o
      \* k lies between n and up
      <4>1. Lies(side, bound[side][up], pos[k]) /\ Lies(side, pos[k], pos[up])
        BY <3>2, <2>1, <1>1, <1>7, <1>o DEF Lies
      <4>2. inner # NoNode
        BY <4>1, <1>1 DEF Shape, Filled, inner
      <4> QED
        BY <4>2, <3>2, <1>5, <1>o
    <3>3. CASE m = up /\ d = side
      BY <3>3, <1>5, <1>1
    <3>4. CASE ~(m = n /\ d = o) /\ ~(m = up /\ d = side)
      BY <3>4, <3>1, <2>1, <1>1, <1>5, <1>7, <1>o
    <3> QED
      BY <3>2, <3>3, <3>4
  <2>2. ASSUME NEW m \in S
        PROVE  b2["left"][top2] < pos[m] /\ pos[m] < b2["right"][top2]
    <3>1. bound["left"][top] < pos[m] /\ pos[m] < bound["right"][top]
      BY DEF Shape, Filled
    <3> QED
      BY <3>1, <1>1, <1>7, <1>o DEF Shape, Wired
  <2> QED
    BY <2>1, <2>2 DEF Filled
<1> QED
  BY <1>6, <1>8, <1>9, <1>10 DEF Shape, Hangs, up, o

\* A field of the pointers changed at one place.
Put(c, e, n, v) == [c EXCEPT ![e][n] = v]

\* What that means for each place.
IsPut(c, e, n, v, c2) ==
    /\ c2 \in Links
    /\ \A d \in Sides, m \in Item : c2[d][m] = IF d = e /\ m = n THEN v ELSE c[d][m]

\* The two agree.
LEMMA PutLink ==
    ASSUME NEW c \in Links, NEW e \in Sides, NEW n \in Item, NEW v \in Item \cup {NoNode}
    PROVE  IsPut(c, e, n, v, Put(c, e, n, v))
BY DEF Put, IsPut, Links

\* The model's Rotate is such a turn, also at the root.
LEMMA RotateDoes ==
    ASSUME child \in Links, parent \in Parents, NEW S \in SUBSET Item, NEW top,
           NEW pos \in Positions, NEW bound \in Bounds,
           Shape(child, parent, S, top, pos, bound),
           NEW n \in S, NEW side \in Sides, child[Other(side)][n] # NoNode, Rotate(n, side)
    PROVE  /\ child' \in Links /\ parent' \in Parents
           /\ Turned(child, parent, n, side, child', parent')
<1> USE TreeAssumption
<1> DEFINE p == parent[n]
           up == child[Other(side)][n]
           inner == child[side][up]
<1>0. Below(child, parent, S, top, pos, bound)
  BY ChildFacts
<1>1. /\ Other(side) \in Sides /\ Other(side) # side /\ up \in S /\ up # n /\ up # p
      /\ n \in Item /\ up \in Item
  BY <1>0 DEF Below, Sides, Other
<1>2. inner \in Item \cup {NoNode}
  BY <1>1 DEF Links
<1>3. p # NoNode => p \in S /\ p # n /\ \A d \in Sides : child[d][p] = n <=> d = SideOf(p, n)
  <2> SUFFICES ASSUME p # NoNode
               PROVE  p \in S /\ p # n /\ \A d \in Sides : child[d][p] = n <=> d = SideOf(p, n)
    OBVIOUS
  <2>1. p \in S /\ \E d \in Sides : child[d][p] = n
    BY DEF Shape, Wired
  <2>2. PICK d \in Sides : child[d][p] = n
    BY <2>1
  <2>3. p # n /\ child[Other(d)][p] # n
    BY <2>1, <2>2, <1>0 DEF Below
  <2> QED
    BY <2>1, <2>2, <2>3 DEF SideOf, Sides, Other
<1> HIDE DEF p, up, inner
<1>4. PICK a : a = Put(child, Other(side), n, inner)
  OBVIOUS
<1>5. IsPut(child, Other(side), n, inner, a)
  BY <1>4, <1>1, <1>2, PutLink
<1>6. PICK b : b = Put(a, side, up, n)
  OBVIOUS
<1>7. IsPut(a, side, up, n, b)
  <2>1. a \in Links
    BY <1>5 DEF IsPut
  <2> QED
    BY <2>1, <1>6, <1>1, PutLink
<1>8. b = [child EXCEPT ![Other(side)][n] = inner, ![side][up] = n]
  BY <1>4, <1>6 DEF Put
<1> USE DEF p, up, inner
<1>9. /\ child' = IF p = NoNode THEN b ELSE Put(b, SideOf(p, n), p, up)
      /\ parent' = [m \in Item |-> IF m = up THEN p ELSE IF m = n THEN up
                                   ELSE IF m = inner THEN n ELSE parent[m]]
  BY <1>8 DEF Rotate, Put
<1> HIDE DEF p, up, inner
<1>10. IF p = NoNode THEN child' = b ELSE IsPut(b, SideOf(p, n), p, up, child')
  <2>1. p # NoNode => SideOf(p, n) \in Sides /\ p \in Item
    BY <1>3 DEF SideOf, Sides
  <2>2. b \in Links
    BY <1>7 DEF IsPut
  <2> QED
    BY <2>1, <2>2, <1>9, <1>1, PutLink
<1>11. /\ child' \in Links
       /\ \A d \in Sides, m \in Item :
             child'[d][m] = IF m = n /\ d # side THEN inner
                            ELSE IF m = up /\ d = side THEN n
                            ELSE IF m = p /\ child[d][m] = n THEN up
                            ELSE child[d][m]
  BY <1>10, <1>7, <1>5, <1>3, <1>1 DEF IsPut, Sides, Other
<1>12. /\ parent' \in Parents
       /\ \A m \in Item : parent'[m] = IF m = up THEN p ELSE IF m = n THEN up
                                       ELSE IF m = inner THEN n ELSE parent[m]
  BY <1>9, <1>1, <1>2, <1>3 DEF Parents
<1> QED
  BY <1>11, <1>12 DEF Turned, p, up, inner

\* The colours of the nodes.
Colors == [Item -> {"RED", "BLACK"}]
------------------------------------------------------------------------------
(* Rotations and heights                                                    *)

\* n and up exchange their colours.
Exchanged(col, S, n, up, col2) ==
    \A m \in S : col2[m] = IF m = n THEN col[up] ELSE IF m = up THEN col[n] ELSE col[m]

\* A rotation that exchanges the colours of the two nodes keeps the heights, if
\* the one that rises is red.
LEMMA TurnEven ==
    ASSUME NEW S \in SUBSET Item, NEW c \in Links, NEW par \in Parents, NEW top,
           NEW pos \in Positions, NEW bound \in Bounds, Shape(c, par, S, top, pos, bound),
           NEW n \in S, NEW side \in Sides, NEW up, up = c[Other(side)][n], up # NoNode,
           NEW c2 \in Links, NEW par2 \in Parents, Turned(c, par, n, side, c2, par2),
           NEW col \in Colors, NEW col2 \in Colors, col[up] = "RED",
           Exchanged(col, S, n, up, col2),
           NEW low, NEW e \in Sides, Level(c, col, S, low, e),
           low # up, low = n => e = side
    PROVE  Level(c2, col2, S, low, e)
<1> PICK bh \in Heights : Even(c, col, S, bh, low, e)
  BY DEF Level
<1> \A m \in S : col2[m] = IF m = n THEN col[up] ELSE IF m = up THEN col[n] ELSE col[m]
  BY DEF Exchanged
<1> USE TreeAssumption DEF Sides, Other, Colors, Heights
<1> DEFINE bh2 == [m \in Item |-> IF m = n THEN bh[n] - Ink(col, n)
                                  ELSE IF m = up THEN bh[n] ELSE bh[m]]
           inner == c[side][up]
           o == Other(side)
<1>0. Below(c, par, S, top, pos, bound)
  BY ChildFacts
<1>1. /\ up \in S /\ par[up] = n /\ up # n /\ n \in Item /\ up \in Item /\ up # par[n]
      /\ n # NoNode /\ o \in Sides /\ o # side
  BY <1>0 DEF Below
<1>2. /\ inner # NoNode => inner \in S /\ inner # n /\ inner # up
      /\ c[o][up] # NoNode => c[o][up] \in S /\ c[o][up] # n /\ c[o][up] # up
      /\ c[side][n] # NoNode => c[side][n] \in S /\ c[side][n] # n /\ c[side][n] # up
  BY <1>0, <1>1 DEF Below
<1>3. /\ bh2 \in Heights
      /\ \A m \in Item : bh2[m] = IF m = n THEN bh[n] - Ink(col, n)
                                  ELSE IF m = up THEN bh[n] ELSE bh[m]
  BY DEF Ink
<1>4. /\ \A d \in Sides, m \in Item :
            c2[d][m] = IF m = n /\ d # side THEN inner
                       ELSE IF m = up /\ d = side THEN n
                       ELSE IF m = par[n] /\ c[d][m] = n THEN up
                       ELSE c[d][m]
  BY DEF Turned
<1> HIDE DEF bh2, inner
<1>5. \A m \in S, d \in Sides :
         /\ bh[m] \in Int /\ bh[m] >= 1
         /\ Height(bh, c[d][m]) = bh[m] - Ink(col, m) - (IF m = low /\ d = e THEN 1 ELSE 0)
  BY DEF Even
<1>6. /\ bh[up] = bh[n] - Ink(col, n) /\ bh[n] \in Int /\ bh[up] >= 1
      /\ Height(bh, c[side][n]) = bh[n] - Ink(col, n) - (IF n = low /\ side = e THEN 1 ELSE 0)
  <2>1. Height(bh, c[o][n]) = bh[n] - Ink(col, n) - (IF n = low /\ o = e THEN 1 ELSE 0)
    BY <1>5, <1>1
  <2>2. ~(n = low /\ o = e)
    BY <1>1
  <2>3. Ink(col, n) \in {0, 1}
    BY DEF Ink
  <2> QED
    BY <2>1, <2>2, <2>3, <1>5, <1>1 DEF Height
<1>7. Height(bh, inner) = bh[up] /\ Height(bh, c[o][up]) = bh[up]
  BY <1>5, <1>1 DEF Ink, inner
<1>8. ASSUME NEW m \in S
      PROVE  /\ bh2[m] >= 1
             /\ \A d \in Sides : Height(bh2, c2[d][m]) = bh2[m] - Ink(col2, m)
                                     - (IF m = low /\ d = e THEN 1 ELSE 0)
  <2>1. CASE m = n
    <3>1. bh2[m] >= 1 /\ Ink(col2, m) = 0
      BY <2>1, <1>3, <1>6, <1>1 DEF Ink
    <3>2. Height(bh2, c2[o][m]) = Height(bh, inner)
      BY <2>1, <1>1, <1>2, <1>3, <1>4 DEF Height, inner
    <3>3. Height(bh2, c2[side][m]) = Height(bh, c[side][n])
      BY <2>1, <1>0, <1>1, <1>2, <1>3, <1>4 DEF Height, Below
    <3> QED
      BY <3>1, <3>2, <3>3, <2>1, <1>3, <1>6, <1>7
  <2>2. CASE m = up
    <3>1. bh2[m] >= 1 /\ Ink(col2, m) = Ink(col, n)
      BY <2>2, <1>3, <1>5, <1>1 DEF Ink
    <3>2. Height(bh2, c2[side][m]) = bh2[n]
      BY <2>2, <1>1, <1>4 DEF Height
    <3>3. Height(bh2, c2[o][m]) = Height(bh, c[o][up])
      BY <2>2, <1>0, <1>1, <1>2, <1>3, <1>4 DEF Height, Below
    <3> QED
      BY <3>1, <3>2, <3>3, <2>2, <1>3, <1>6, <1>7, <1>1
  <2>3. CASE m # n /\ m # up
    <3>1. bh2[m] = bh[m] /\ bh2[m] >= 1 /\ Ink(col2, m) = Ink(col, m)
      BY <2>3, <1>3, <1>5 DEF Ink
    <3>2. ASSUME NEW d \in Sides PROVE Height(bh2, c2[d][m]) = Height(bh, c[d][m])
      <4>1. c[d][m] # up /\ (c[d][m] # NoNode => par[c[d][m]] = m /\ c[d][m] \in S)
        BY <2>3, <1>0, <1>1 DEF Below
      <4>2. CASE c[d][m] = n
        BY <4>2, <4>1, <2>3, <1>1, <1>3, <1>4 DEF Height
      <4>3. CASE c[d][m] # n
        BY <4>3, <4>1, <2>3, <1>1, <1>3, <1>4 DEF Height
      <4> QED
        BY <4>2, <4>3
    <3> QED
      BY <3>1, <3>2, <1>5
  <2> QED
    BY <2>1, <2>2, <2>3
<1> QED
  BY <1>3, <1>8 DEF Even, Level

\* up takes the colour of n; n and far turn black.
Mended(col, S, n, up, far, col2) ==
    \A m \in S : col2[m] = IF m = n THEN "BLACK" ELSE IF m = up THEN col[n]
                           ELSE IF m = far THEN "BLACK" ELSE col[m]

\* The last rotation of a Delete makes up for the missing black node: the red
\* node on the outer side turns black.
LEMMA TurnMendsEven ==
    ASSUME NEW S \in SUBSET Item, NEW c \in Links, NEW par \in Parents, NEW top,
           NEW pos \in Positions, NEW bound \in Bounds, Shape(c, par, S, top, pos, bound),
           NEW n \in S, NEW side \in Sides, NEW up, up = c[Other(side)][n], up # NoNode,
           NEW far, far = c[Other(side)][up], far # NoNode,
           NEW c2 \in Links, NEW par2 \in Parents, Turned(c, par, n, side, c2, par2),
           NEW col \in Colors, NEW col2 \in Colors, col[up] = "BLACK", col[far] = "RED",
           Mended(col, S, n, up, far, col2),
           Level(c, col, S, n, side), NEW e \in Sides
    PROVE  Level(c2, col2, S, NoNode, e)
<1> PICK bh \in Heights : Even(c, col, S, bh, n, side)
  BY DEF Level
<1> \A m \in S : col2[m] = IF m = n THEN "BLACK" ELSE IF m = up THEN col[n]
                           ELSE IF m = far THEN "BLACK" ELSE col[m]
  BY DEF Mended
<1> USE TreeAssumption DEF Sides, Other, Colors, Heights
<1> DEFINE bh2 == [m \in Item |-> IF m = n THEN bh[n] - Ink(col, n)
                                  ELSE IF m = up THEN bh[n]
                                  ELSE IF m = far THEN bh[m] + 1 ELSE bh[m]]
           inner == c[side][up]
           o == Other(side)
<1>0. Below(c, par, S, top, pos, bound)
  BY ChildFacts
<1>1. /\ up \in S /\ par[up] = n /\ up # n /\ n \in Item /\ up \in Item /\ up # par[n]
      /\ n # NoNode /\ o \in Sides /\ o # side
  BY <1>0 DEF Below
<1>2. /\ inner # NoNode => inner \in S /\ inner # n /\ inner # up /\ inner # far
      /\ far \in S /\ far # n /\ far # up /\ par[far] = up
      /\ c[side][n] # NoNode =>
            c[side][n] \in S /\ c[side][n] # n /\ c[side][n] # up /\ c[side][n] # far
  BY <1>0, <1>1 DEF Below
<1>3. /\ bh2 \in Heights
      /\ \A m \in Item : bh2[m] = IF m = n THEN bh[n] - Ink(col, n)
                                  ELSE IF m = up THEN bh[n]
                                  ELSE IF m = far THEN bh[m] + 1 ELSE bh[m]
  BY DEF Ink
<1>4. /\ \A d \in Sides, m \in Item :
            c2[d][m] = IF m = n /\ d # side THEN inner
                       ELSE IF m = up /\ d = side THEN n
                       ELSE IF m = par[n] /\ c[d][m] = n THEN up
                       ELSE c[d][m]
  BY DEF Turned
<1> HIDE DEF bh2, inner
<1>5. \A m \in S, d \in Sides :
         /\ bh[m] \in Int /\ bh[m] >= 1
         /\ Height(bh, c[d][m]) = bh[m] - Ink(col, m) - (IF m = n /\ d = side THEN 1 ELSE 0)
  BY DEF Even
<1>6. /\ bh[up] = bh[n] - Ink(col, n) /\ bh[n] \in Int /\ bh[up] >= 1
      /\ Height(bh, c[side][n]) = bh[n] - Ink(col, n) - 1
  <2>1. /\ Height(bh, c[o][n]) = bh[n] - Ink(col, n) - 0
        /\ Height(bh, c[side][n]) = bh[n] - Ink(col, n) - 1
    BY <1>5, <1>1
  <2>2. Ink(col, n) \in {0, 1}
    BY DEF Ink
  <2> QED
    BY <2>1, <2>2, <1>5, <1>1 DEF Height
<1>7. Height(bh, inner) = bh[up] - 1 /\ bh[far] = bh[up] - 1 /\ bh[far] \in Int /\ bh[far] >= 1
  BY <1>5, <1>1, <1>2 DEF Ink, inner, Height
<1>8. ASSUME NEW m \in S
      PROVE  /\ bh2[m] >= 1
             /\ \A d \in Sides : Height(bh2, c2[d][m]) = bh2[m] - Ink(col2, m)
  <2>1. CASE m = n
    <3>1. bh2[m] >= 1 /\ Ink(col2, m) = 1
      BY <2>1, <1>3, <1>6, <1>1 DEF Ink
    <3>2. Height(bh2, c2[o][m]) = Height(bh, inner)
      BY <2>1, <1>1, <1>2, <1>3, <1>4 DEF Height, inner
    <3>3. Height(bh2, c2[side][m]) = Height(bh, c[side][n])
      BY <2>1, <1>0, <1>1, <1>2, <1>3, <1>4 DEF Height, Below
    <3> QED
      BY <3>1, <3>2, <3>3, <2>1, <1>3, <1>6, <1>7
  <2>2. CASE m = up
    <3>1. bh2[m] >= 1 /\ Ink(col2, m) = Ink(col, n)
      BY <2>2, <1>3, <1>5, <1>1 DEF Ink
    <3>2. Height(bh2, c2[side][m]) = bh2[n]
      BY <2>2, <1>1, <1>4 DEF Height
    <3>3. Height(bh2, c2[o][m]) = bh[far] + 1
      BY <2>2, <1>0, <1>1, <1>2, <1>3, <1>4 DEF Height, Below
    <3> QED
      BY <3>1, <3>2, <3>3, <2>2, <1>3, <1>6, <1>7, <1>1
  <2>3. CASE m # n /\ m # up
    <3>1. bh2[m] >= 1 /\ bh2[m] - Ink(col2, m) = bh[m] - Ink(col, m)
      BY <2>3, <1>3, <1>5, <1>2 DEF Ink
    <3>2. ASSUME NEW d \in Sides PROVE Height(bh2, c2[d][m]) = Height(bh, c[d][m])
      <4>1. /\ c[d][m] # up /\ c[d][m] # far
            /\ c[d][m] # NoNode => par[c[d][m]] = m /\ c[d][m] \in S
        BY <2>3, <1>0, <1>1, <1>2 DEF Below
      <4>2. CASE c[d][m] = n
        BY <4>2, <4>1, <2>3, <1>1, <1>3, <1>4 DEF Height
      <4>3. CASE c[d][m] # n
        BY <4>3, <4>1, <2>3, <1>1, <1>3, <1>4 DEF Height
      <4> QED
        BY <4>2, <4>3
    <3>3. \A d \in Sides : Height(bh, c[d][m]) = bh[m] - Ink(col, m) - 0
      BY <1>5, <2>3
    <3>4. Ink(col, m) \in {0, 1} /\ bh[m] \in Int
      BY <1>5 DEF Ink
    <3> QED
      BY <3>1, <3>2, <3>3, <3>4
  <2> QED
    BY <2>1, <2>2, <2>3
<1>9. \A m \in S : m # NoNode /\ bh2[m] \in Int /\ Ink(col2, m) \in {0, 1}
  BY <1>3 DEF Ink
<1>10. Even(c2, col2, S, bh2, NoNode, e)
  BY <1>8, <1>9 DEF Even
<1> QED
  BY <1>3, <1>10 DEF Level

------------------------------------------------------------------------------
(* Linking a node                                                           *)

\* A set on which a number is defined has a member where it is least.
LEMMA Least ==
    ASSUME NEW D, NEW x \in D, NEW f \in [D -> Nat]
    PROVE  \E y \in D : \A z \in D : f[y] <= f[z]
<1> DEFINE V == {f[y] : y \in D}
<1>1. V \in SUBSET Nat /\ V # {}
  OBVIOUS
<1>2. \E v \in V : \A w \in V : v <= w
  <2> HIDE DEF V
  <2>1. IsWellFoundedOn({q \in Nat \X Nat : q[1] < q[2]}, Nat)
    BY NatLessThanWellFounded, Zenon DEF OpToRel
  <2>2. PICK v \in V : \A w \in V : ~(<<w, v>> \in {q \in Nat \X Nat : q[1] < q[2]})
    BY <1>1, <2>1, WFMin
  <2>3. \A w \in V : ~(w < v)
    BY <1>1, <2>2
  <2> QED
    BY <1>1, <2>3
<1> QED
  BY <1>2

\* A node whose position bounds another has a node on that one's side.
LEMMA BoundHasChild ==
    ASSUME NEW S \in SUBSET Item, NEW c \in Links, NEW par \in Parents, NEW top,
           NEW pos \in Positions, NEW bound \in Bounds, Shape(c, par, S, top, pos, bound),
           NEW n \in S, NEW m \in S, NEW d \in Sides, bound[d][n] = pos[m]
    PROVE  c[Other(d)][m] # NoNode
<1> USE TreeAssumption DEF Sides, Other, Positions, Bounds
<1> SUFFICES ASSUME c[Other(d)][m] = NoNode PROVE FALSE
  OBVIOUS
<1> DEFINE D == {k \in S : bound[d][k] = pos[m]}
           f == [k \in D |-> IF d = "left" THEN bound["right"][top] - pos[k]
                             ELSE pos[k] - bound["left"][top]]
<1>0. Below(c, par, S, top, pos, bound)
  BY ChildFacts
<1>1. top \in S /\ \A k \in S : bound["left"][top] < pos[k] /\ pos[k] < bound["right"][top]
  BY DEF Shape, Wired, Filled
<1>2. f \in [D -> Nat]
  <2> SUFFICES ASSUME NEW k \in D
               PROVE  /\ d = "left" => bound["right"][top] - pos[k] \in Nat
                      /\ d = "right" => pos[k] - bound["left"][top] \in Nat
    OBVIOUS
  <2>1. /\ bound["left"][top] \in Int /\ bound["right"][top] \in Int /\ pos[k] \in Int
        /\ bound["left"][top] < pos[k] /\ pos[k] < bound["right"][top]
    BY <1>1
  <2> QED
    BY <2>1
<1>3. PICK k \in D : \A j \in D : f[k] <= f[j]
  <2>1. n \in D
    OBVIOUS
  <2> HIDE DEF D, f
  <2> QED
    BY <2>1, <1>2, Least
<1>4. k # top
  BY <1>1
<1>5. PICK e \in Sides : par[k] \in S /\ c[e][par[k]] = k
  BY <1>4 DEF Shape, Wired
<1>6. k # NoNode /\ Lies(e, pos[k], pos[par[k]])
      /\ bound[e][k] = bound[e][par[k]] /\ bound[Other(e)][k] = pos[par[k]]
  BY <1>5, <1>0 DEF Below
<1>7. CASE e = d
  <2>1. par[k] \in D
    BY <1>5, <1>6, <1>7
  <2>2. f[k] <= f[par[k]]
    BY <1>3, <2>1
  <2>3. /\ bound["left"][top] \in Int /\ bound["right"][top] \in Int
        /\ pos[k] \in Int /\ pos[par[k]] \in Int
    BY <1>1, <1>5
  <2> QED
    BY <2>1, <2>2, <2>3, <1>6, <1>7 DEF Lies
<1>8. CASE e # d
  <2>1. par[k] = m
    BY <1>5, <1>6, <1>8 DEF Shape, Ranged
  <2> QED
    BY <2>1, <1>5, <1>6, <1>8
<1> QED
  BY <1>7, <1>8

\* The nodes of S are a search tree.
Ordered(c, par, S, top) ==
    \E pos \in Positions, bound \in Bounds :
       Shape(c, par, S, top, pos, bound) /\ KeysGrow(S, pos)

\* The key of x belongs between the bounds of a.
Fits(S, pos, bound, a, x) ==
    \A m \in S : /\ pos[m] <= bound["left"][a] => KeyOf(m) <= KeyOf(x)
                 /\ bound["right"][a] <= pos[m] => KeyOf(m) > KeyOf(x)

\* A pointer of the nodes changed at one place.
IsSet(f, n, v, f2) ==
    f2 \in Parents /\ \A m \in Item : f2[m] = IF m = n THEN v ELSE f[m]

\* A new node is hung where there is none.
LEMMA LinkShape ==
    ASSUME NEW S \in SUBSET Item, NEW c \in Links, NEW par \in Parents, NEW top,
           NEW pos \in Positions, NEW bound \in Bounds, Shape(c, par, S, top, pos, bound),
           NEW a \in S, NEW d \in Sides, c[d][a] = NoNode,
           NEW x \in Item, x \notin S, \A e \in Sides : c[e][x] = NoNode,
           NEW c2, IsPut(c, d, a, x, c2),
           NEW par2, IsSet(par, x, a, par2),
           KeysGrow(S, pos), d = IF KeyOf(a) > KeyOf(x) THEN "left" ELSE "right",
           Fits(S, pos, bound, a, x)
    PROVE  Ordered(c2, par2, S \cup {x}, top)
<1> USE TreeAssumption DEF Sides, Other, Positions, Bounds
<1> c2 \in Links /\ \A e \in Sides, m \in Item :
                          c2[e][m] = IF e = d /\ m = a THEN x ELSE c[e][m]
  BY DEF IsPut
<1> par2 \in Parents /\ \A m \in Item : par2[m] = IF m = x THEN a ELSE par[m]
  BY DEF IsSet
<1> \A m \in S : /\ pos[m] <= bound["left"][a] => KeyOf(m) <= KeyOf(x)
                 /\ bound["right"][a] <= pos[m] => KeyOf(m) > KeyOf(x)
  BY DEF Fits
<1> DEFINE pos2 == [m \in Item |-> IF m = x THEN 2 * pos[a] + (IF d = "left" THEN 0 - 1 ELSE 1)
                                   ELSE 2 * pos[m]]
           b2 == [e \in Sides |-> [m \in Item |->
                     IF m = x THEN IF e = d THEN 2 * bound[d][a] ELSE 2 * pos[a]
                     ELSE 2 * bound[e][m]]]
           T == S \cup {x}
<1>0. Below(c, par, S, top, pos, bound)
  BY ChildFacts
<1>1. /\ pos2 \in Positions
      /\ \A m \in Item :
            pos2[m] = IF m = x THEN 2 * pos[a] + (IF d = "left" THEN 0 - 1 ELSE 1)
                      ELSE 2 * pos[m]
  OBVIOUS
<1>2. /\ b2 \in Bounds
      /\ \A e \in Sides, m \in Item :
            b2[e][m] = IF m = x THEN IF e = d THEN 2 * bound[d][a] ELSE 2 * pos[a]
                       ELSE 2 * bound[e][m]
  OBVIOUS
<1> HIDE DEF pos2, b2
<1>3. /\ a # x /\ a # NoNode /\ x # NoNode
      /\ \A m \in S : m \in Item /\ m # x /\ pos[m] \in Int
                      /\ bound["left"][m] \in Int /\ bound["right"][m] \in Int
  OBVIOUS
<1>4. Wired(c2, par2, T, top)
  <2>1. top \in S
    BY DEF Shape, Wired
  <2>2. ASSUME NEW m \in T PROVE par2[m] = NoNode <=> m = top
    BY <1>3, <2>1 DEF Shape, Wired
  <2>3. ASSUME NEW m \in T, m # top
        PROVE  par2[m] \in T /\ \E e \in Sides : c2[e][par2[m]] = m
    <3>1. CASE m = x
      BY <3>1, <1>3
    <3>2. CASE m # x
      BY <3>2, <2>3, <1>3 DEF Shape, Wired
    <3> QED
      BY <3>1, <3>2
  <2>4. ASSUME NEW m \in T, NEW e \in Sides, c2[e][m] # NoNode
        PROVE  c2[e][m] \in T /\ par2[c2[e][m]] = m
    BY <2>4, <1>3 DEF Shape, Wired
  <2> QED
    BY <2>1, <2>2, <2>3, <2>4 DEF Wired
<1>5. /\ bound["left"][a] < pos[a] /\ pos[a] < bound["right"][a]
      /\ \A m \in S : /\ m # a => pos[m] # pos[a]
                      /\ ~(Lies(d, bound[d][a], pos[m]) /\ Lies(d, pos[m], pos[a]))
  BY DEF Shape, Ranged, Filled
<1>6. Ranged(c2, T, pos2, b2)
  <2>1. ASSUME NEW m \in T
        PROVE  b2["left"][m] < pos2[m] /\ pos2[m] < b2["right"][m]
    <3>1. CASE m = x
      BY <3>1, <1>1, <1>2, <1>3, <1>5
    <3>2. CASE m # x
      <4>1. bound["left"][m] < pos[m] /\ pos[m] < bound["right"][m]
        BY <3>2 DEF Shape, Ranged
      <4> QED
        BY <4>1, <3>2, <1>1, <1>2, <1>3
    <3> QED
      BY <3>1, <3>2
  <2>2. ASSUME NEW m \in T, NEW e \in Sides, c2[e][m] # NoNode
        PROVE  b2[e][c2[e][m]] = b2[e][m] /\ b2[Other(e)][c2[e][m]] = pos2[m]
    <3>1. CASE m = a /\ e = d
      BY <3>1, <1>1, <1>2, <1>3
    <3>2. CASE ~(m = a /\ e = d)
      <4>1. m \in S /\ c[e][m] = c2[e][m] /\ c[e][m] \in S
        BY <3>2, <2>2, <1>3, <1>0 DEF Below
      <4> QED
        BY <4>1, <2>2, <1>0, <1>1, <1>2, <1>3 DEF Below
    <3> QED
      BY <3>1, <3>2
  <2>3. ASSUME NEW m \in T, NEW k \in T, pos2[m] = pos2[k] PROVE m = k
    <3>1. m # x /\ k # x => pos[m] = pos[k]
      BY <2>3, <1>1, <1>3
    <3>2. \A j \in S : pos2[j] # pos2[x]
      BY <1>1, <1>3
    <3> QED
      BY <3>1, <3>2, <2>3 DEF Shape, Ranged
  <2> QED
    BY <2>1, <2>2, <2>3 DEF Ranged
<1>7. Filled(c2, T, top, pos2, b2)
  <2>1. ASSUME NEW m \in T, NEW k \in T, NEW e \in Sides,
               Lies(e, b2[e][m], pos2[k]), Lies(e, pos2[k], pos2[m])
        PROVE  c2[e][m] # NoNode
    <3>1. CASE m = x
      <4>1. k \in S
        BY <3>1, <2>1, <1>1, <1>3 DEF Lies
      <4> QED
        BY <4>1, <3>1, <2>1, <1>1, <1>2, <1>3, <1>5 DEF Lies
    <3>2. CASE m # x /\ k # x
      <4>1. Lies(e, bound[e][m], pos[k]) /\ Lies(e, pos[k], pos[m])
        BY <3>2, <2>1, <1>1, <1>2, <1>3 DEF Lies
      <4>2. c[e][m] # NoNode
        BY <3>2, <4>1 DEF Shape, Filled
      <4> QED
        BY <4>2, <1>3
    <3>3. CASE m # x /\ k = x
      <4>1. CASE m = a
        BY <4>1, <3>3, <2>1, <1>1, <1>2, <1>3 DEF Lies
      <4>2. CASE m # a
        <5>1. Lies(e, pos[a], pos[m])
          BY <4>2, <3>3, <2>1, <1>1, <1>3, <1>5 DEF Lies
        <5>3. Lies(e, bound[e][m], pos[a]) \/ (bound[e][m] = pos[a] /\ Other(e) = d)
          BY <4>2, <3>3, <2>1, <1>1, <1>2, <1>3 DEF Lies
        <5>4. bound[e][m] # pos[a] \/ Other(e) # d
          BY <3>3, BoundHasChild
        <5>2. c[e][m] # NoNode
          BY <3>3, <5>1, <5>3, <5>4 DEF Shape, Filled
        <5> QED
          BY <5>2, <1>3, <4>2
      <4> QED
        BY <4>1, <4>2
    <3> QED
      BY <3>1, <3>2, <3>3
  <2>2. ASSUME NEW m \in T
        PROVE  b2["left"][top] < pos2[m] /\ pos2[m] < b2["right"][top]
    <3>1. top \in S
      BY DEF Shape, Wired
    <3>2. \A k \in S : bound["left"][top] < pos[k] /\ pos[k] < bound["right"][top]
      BY DEF Shape, Filled
    <3> QED
      BY <3>1, <3>2, <1>1, <1>2, <1>3
  <2> QED
    BY <2>1, <2>2 DEF Filled
<1>8. KeysGrow(T, pos2)
  <2>1. \A m \in S : KeyOf(m) \in Int /\ KeyOf(x) \in Int
    OBVIOUS
  <2>2. ASSUME NEW m \in S
        PROVE  /\ pos2[m] < pos2[x] => KeyOf(m) <= KeyOf(x)
               /\ pos2[x] < pos2[m] => KeyOf(x) <= KeyOf(m)
    <3>1. /\ pos[m] < pos[a] => KeyOf(m) <= KeyOf(a)
          /\ pos[a] < pos[m] => KeyOf(a) <= KeyOf(m)
          /\ pos[m] = pos[a] => m = a
      BY <1>5 DEF KeysGrow
    <3>2. CASE d = "left"
      <4>1. KeyOf(a) > KeyOf(x)
        BY <3>2
      <4>2. pos[m] < pos[a] => pos[m] <= bound["left"][a]
        BY <3>2, <1>5, <1>3 DEF Lies
      <4> QED
        BY <4>1, <4>2, <3>1, <3>2, <2>1, <1>1, <1>3
    <3>3. CASE d = "right"
      <4>1. KeyOf(a) <= KeyOf(x)
        BY <3>3, <2>1
      <4>2. pos[a] < pos[m] => bound["right"][a] <= pos[m]
        BY <3>3, <1>5, <1>3 DEF Lies
      <4> QED
        BY <4>1, <4>2, <3>1, <3>3, <2>1, <1>1, <1>3
    <3> QED
      BY <3>2, <3>3
  <2>3. ASSUME NEW m \in S, NEW k \in S, pos2[m] < pos2[k] PROVE KeyOf(m) <= KeyOf(k)
    <3>1. pos[m] < pos[k]
      BY <2>3, <1>1, <1>3
    <3> QED
      BY <3>1 DEF KeysGrow
  <2>4. ~(pos2[x] < pos2[x])
    BY <1>1, <1>3
  <2> QED
    BY <2>2, <2>3, <2>4 DEF KeysGrow
<1> QED
  BY <1>1, <1>2, <1>4, <1>6, <1>7, <1>8 DEF Shape, Ordered

------------------------------------------------------------------------------
(* Taking a node out                                                        *)

\* What replace_node does to each pointer: y takes the place of x.
Replaced(c, par, x, y, c2, par2) ==
    /\ \A e \in Sides, m \in Item :
          c2[e][m] = IF m = par[x] /\ c[e][m] = x THEN y ELSE c[e][m]
    /\ \A m \in Item : par2[m] = IF m = y THEN par[x] ELSE par[m]

\* A node with no child, or with one that has none, is taken out.
LEMMA UnlinkShape ==
    ASSUME NEW S \in SUBSET Item, NEW c \in Links, NEW par \in Parents, NEW top,
           NEW pos \in Positions, NEW bound \in Bounds, Shape(c, par, S, top, pos, bound),
           NEW x \in S, NEW d \in Sides, NEW y, y = c[d][x], c[Other(d)][x] = NoNode,
           y # NoNode => \A e \in Sides : c[e][y] = NoNode,
           NEW c2 \in Links, NEW par2 \in Parents, Replaced(c, par, x, y, c2, par2)
    PROVE  Hangs(c2, par2, S \ {x}, IF x = top THEN y ELSE top, pos)
<1> /\ \A e \in Sides, m \in Item :
          c2[e][m] = IF m = par[x] /\ c[e][m] = x THEN y ELSE c[e][m]
    /\ \A m \in Item : par2[m] = IF m = y THEN par[x] ELSE par[m]
  BY DEF Replaced
<1> USE TreeAssumption DEF Sides, Other, Positions, Bounds
<1> DEFINE b2 == [e \in Sides |-> [m \in Item |-> IF m = y THEN bound[e][x] ELSE bound[e][m]]]
           T == S \ {x}
           top2 == IF x = top THEN y ELSE top
           p == par[x]
<1>0. Below(c, par, S, top, pos, bound)
  BY ChildFacts
<1>1. /\ b2 \in Bounds
      /\ \A e \in Sides, m \in Item : b2[e][m] = IF m = y THEN bound[e][x] ELSE bound[e][m]
  OBVIOUS
<1> HIDE DEF b2
<1>2. y # NoNode => /\ y \in S /\ y # x /\ y # top /\ par[y] = x /\ y # p
                    /\ Lies(d, pos[y], pos[x]) /\ bound[d][y] = bound[d][x]
                    /\ bound[Other(d)][y] = pos[x]
  BY <1>0 DEF Below
<1>3. x # NoNode /\ x \in Item /\ NoNode \notin S
  OBVIOUS
<1>4. x = top <=> p = NoNode
  BY DEF Shape, Wired
<1>5. x # top => /\ p \in S /\ p # x
                 /\ \E e \in Sides : c[e][p] = x /\ c[Other(e)][p] # x
  <2> SUFFICES ASSUME x # top
               PROVE  p \in S /\ p # x /\ \E e \in Sides : c[e][p] = x /\ c[Other(e)][p] # x
    OBVIOUS
  <2>1. PICK e \in Sides : p \in S /\ c[e][p] = x
    BY DEF Shape, Wired
  <2> QED
    BY <2>1, <1>0, <1>3 DEF Below
\* what lies within the bounds of x is y
<1>6. ASSUME NEW k \in S, bound["left"][x] < pos[k], pos[k] < bound["right"][x]
      PROVE  k = x \/ (y # NoNode /\ k = y)
  <2> SUFFICES ASSUME k # x PROVE y # NoNode /\ k = y
    OBVIOUS
  <2>1. pos[k] # pos[x] /\ pos[k] \in Int /\ pos[x] \in Int
    BY DEF Shape, Ranged
  <2>2. PICK e \in Sides : Lies(e, bound[e][x], pos[k]) /\ Lies(e, pos[k], pos[x])
    BY <2>1, <1>6 DEF Lies
  <2>3. c[e][x] # NoNode
    BY <2>2 DEF Shape, Filled
  <2>4. e = d /\ y # NoNode
    BY <2>3
  <2>5. pos[k] = pos[y]
    <3> SUFFICES ASSUME pos[k] # pos[y] PROVE FALSE
      OBVIOUS
    <3>1. \E a \in Sides : Lies(a, bound[a][y], pos[k]) /\ Lies(a, pos[k], pos[y])
      BY <1>2, <2>1, <2>2, <2>4 DEF Lies
    <3> QED
      BY <3>1, <2>4, <1>2 DEF Shape, Filled
  <2> QED
    BY <2>4, <2>5, <1>2 DEF Shape, Ranged
<1>7. Wired(c2, par2, T, top2)
  <2>1. top2 \in T \/ (T = {} /\ top2 = NoNode)
    <3>1. CASE x # top
      BY <3>1 DEF Shape, Wired
    <3>2. CASE x = top
      <4>1. ASSUME NEW k \in S PROVE k = x \/ (y # NoNode /\ k = y)
        BY <3>2, <1>6 DEF Shape, Filled
      <4> QED
        BY <4>1, <3>2, <1>2
    <3> QED
      BY <3>1, <3>2
  <2>2. ASSUME NEW m \in T PROVE par2[m] = NoNode <=> m = top2
    BY <1>2, <1>3, <1>4, <1>5 DEF Shape, Wired
  <2>3. ASSUME NEW m \in T, m # top2
        PROVE  par2[m] \in T /\ \E e \in Sides : c2[e][par2[m]] = m
    <3>1. CASE m = y
      BY <3>1, <2>3, <1>2, <1>3, <1>4, <1>5
    <3>2. CASE m # y
      <4>1. m # top /\ par2[m] = par[m]
        BY <3>2, <2>3 DEF Shape, Wired
      <4>2. PICK e \in Sides : par[m] \in S /\ c[e][par[m]] = m
        BY <4>1 DEF Shape, Wired
      <4>3. par[m] # x
        BY <3>2, <4>2, <1>3
      <4> QED
        BY <4>1, <4>2, <4>3
    <3> QED
      BY <3>1, <3>2
  <2>4. ASSUME NEW m \in T, NEW e \in Sides, c2[e][m] # NoNode
        PROVE  c2[e][m] \in T /\ par2[c2[e][m]] = m
    <3>1. CASE c[e][m] = x
      BY <3>1, <2>4, <1>0, <1>2, <1>3 DEF Below
    <3>2. CASE c[e][m] # x
      BY <3>2, <2>4, <1>0, <1>2, <1>3 DEF Below
    <3> QED
      BY <3>1, <3>2
  <2> QED
    BY <2>1, <2>2, <2>3, <2>4 DEF Wired
<1>8. Ranged(c2, T, pos, b2)
  <2>1. ASSUME NEW m \in T
        PROVE  b2["left"][m] < pos[m] /\ pos[m] < b2["right"][m]
    <3>1. /\ bound["left"][m] < pos[m] /\ pos[m] < bound["right"][m]
          /\ bound["left"][x] < pos[x] /\ pos[x] < bound["right"][x]
      BY DEF Shape, Ranged
    <3> QED
      BY <3>1, <1>1, <1>2 DEF Lies
  <2>2. ASSUME NEW m \in T, NEW e \in Sides, c2[e][m] # NoNode
        PROVE  b2[e][c2[e][m]] = b2[e][m] /\ b2[Other(e)][c2[e][m]] = pos[m]
    <3>1. CASE c[e][m] = x
      BY <3>1, <2>2, <1>0, <1>1, <1>2, <1>3 DEF Below
    <3>2. CASE c[e][m] # x
      BY <3>2, <2>2, <1>0, <1>1, <1>2, <1>3 DEF Below
    <3> QED
      BY <3>1, <3>2
  <2> QED
    BY <2>1, <2>2 DEF Ranged, Shape
<1>9. Filled(c2, T, top2, pos, b2)
  <2>1. ASSUME NEW m \in T, NEW k \in T, NEW e \in Sides,
               Lies(e, b2[e][m], pos[k]), Lies(e, pos[k], pos[m])
        PROVE  c2[e][m] # NoNode
    <3>0. pos[k] \in Int /\ pos[m] \in Int
      OBVIOUS
    <3>1. CASE m = y
      <4>1. bound["left"][x] < pos[k] /\ pos[k] < bound["right"][x]
        <5>1. bound["left"][y] < pos[y] /\ pos[y] < bound["right"][y]
              /\ bound["left"][x] < pos[x] /\ pos[x] < bound["right"][x]
          BY <3>1 DEF Shape, Ranged
        <5> QED
          BY <5>1, <3>0, <3>1, <2>1, <1>1, <1>2, <1>3 DEF Lies
      <4> QED
        BY <4>1, <1>6, <3>1, <2>1 DEF Lies
    <3>2. CASE m # y
      <4>1. c[e][m] # NoNode
        BY <3>2, <2>1, <1>1 DEF Shape, Filled
      <4>2. CASE c[e][m] = x
        <5>1. /\ bound[e][x] = bound[e][m] /\ bound[Other(e)][x] = pos[m]
              /\ par[x] = m
          BY <4>1, <4>2, <1>0 DEF Below
        <5>2. bound["left"][x] < pos[k] /\ pos[k] < bound["right"][x]
          BY <5>1, <3>0, <3>2, <2>1, <1>1 DEF Lies
        <5>3. y # NoNode
          BY <5>2, <1>6
        <5> QED
          BY <5>1, <5>3, <4>2
      <4>3. CASE c[e][m] # x
        BY <4>1, <4>3
      <4> QED
        BY <4>2, <4>3
    <3> QED
      BY <3>1, <3>2
  <2>2. ASSUME NEW m \in T
        PROVE  b2["left"][top2] < pos[m] /\ pos[m] < b2["right"][top2]
    <3>1. bound["left"][top] < pos[m] /\ pos[m] < bound["right"][top]
      BY DEF Shape, Filled
    <3>2. CASE x # top
      BY <3>1, <3>2, <1>1, <1>2 DEF Shape, Wired
    <3>3. CASE x = top
      <4>1. y # NoNode
        BY <3>1, <3>3, <1>6
      <4> QED
        BY <4>1, <3>1, <3>3, <1>1, <1>2
    <3> QED
      BY <3>2, <3>3
  <2> QED
    BY <2>1, <2>2 DEF Filled
<1> QED
  BY <1>1, <1>7, <1>8, <1>9 DEF Shape, Hangs

\* What the heights leave for a node with one child.
SingleChild(c, col, S, bh) ==
    \A x \in S, d \in Sides : c[Other(d)][x] = NoNode =>
       LET y == c[d][x]
       IN  IF y = NoNode THEN bh[x] = 1 + Ink(col, x)
           ELSE /\ y \in S /\ col[y] = "RED" /\ col[x] = "BLACK" /\ bh[x] = 2
                /\ \A b \in Sides : c[b][y] = NoNode

\* The heights leave a node with one child little choice: it is black, and its
\* child is red and has none.
LEMMA OnlyChild ==
    ASSUME NEW S \in SUBSET Item, NEW c \in Links, NEW par \in Parents, NEW top,
           NEW pos \in Positions, NEW bound \in Bounds, Shape(c, par, S, top, pos, bound),
           NEW col \in Colors, Reds(par, col, S, NoNode),
           NEW bh \in Heights, NEW e \in Sides, Even(c, col, S, bh, NoNode, e)
    PROVE  SingleChild(c, col, S, bh)
<1> SUFFICES ASSUME NEW x \in S, NEW d \in Sides, c[Other(d)][x] = NoNode,
                    NEW y, y = c[d][x]
             PROVE  IF y = NoNode THEN bh[x] = 1 + Ink(col, x)
                    ELSE /\ y \in S /\ col[y] = "RED" /\ col[x] = "BLACK" /\ bh[x] = 2
                         /\ \A b \in Sides : c[b][y] = NoNode
  BY DEF SingleChild
<1> USE TreeAssumption DEF Sides, Other, Colors, Heights
<1>0. Below(c, par, S, top, pos, bound)
  BY ChildFacts
<1>1. \A m \in S, b \in Sides : /\ Height(bh, c[b][m]) = bh[m] - Ink(col, m)
                                /\ bh[m] \in Int /\ bh[m] >= 1 /\ Ink(col, m) \in {0, 1}
  <2> SUFFICES ASSUME NEW m \in S, NEW b \in Sides
               PROVE  /\ Height(bh, c[b][m]) = bh[m] - Ink(col, m)
                      /\ bh[m] \in Int /\ bh[m] >= 1 /\ Ink(col, m) \in {0, 1}
    OBVIOUS
  <2>1. m # NoNode /\ Ink(col, m) \in {0, 1} /\ bh[m] \in Int
    BY DEF Ink
  <2> QED
    BY <2>1 DEF Even
<1>2. bh[x] = 1 + Ink(col, x) /\ Height(bh, y) = 1
  BY <1>1 DEF Height
<1>3. CASE y = NoNode
  BY <1>2, <1>3
<1>4. CASE y # NoNode
  <2>1. y \in S /\ bh[y] = 1 /\ par[y] = x
    BY <1>0, <1>2, <1>4 DEF Below, Height
  <2>2. Ink(col, y) = 0
    <3>1. Height(bh, c[d][y]) = 1 - Ink(col, y)
      BY <2>1, <1>1
    <3>2. Height(bh, c[d][y]) >= 1
      <4>1. c[d][y] # NoNode => c[d][y] \in S
        BY <2>1, <1>0 DEF Below
      <4> QED
        BY <4>1, <1>1 DEF Height
    <3> QED
      BY <3>1, <3>2, <2>1, <1>1
  <2>3. col[y] = "RED" /\ col[x] = "BLACK"
    BY <2>1, <2>2 DEF Ink, Reds
  <2>4. ASSUME NEW b \in Sides, c[b][y] # NoNode PROVE FALSE
    <3>1. c[b][y] \in S /\ par[c[b][y]] = y /\ bh[c[b][y]] = 1
      BY <2>1, <2>2, <2>4, <1>0, <1>1 DEF Below, Height
    <3>2. col[c[b][y]] = "BLACK"
      BY <3>1, <2>3 DEF Reds
    <3>3. Height(bh, c[d][c[b][y]]) = 0
      BY <3>1, <3>2, <1>1 DEF Ink
    <3>4. c[d][c[b][y]] # NoNode => c[d][c[b][y]] \in S
      BY <3>1, <1>0 DEF Below
    <3> QED
      BY <3>3, <3>4, <1>1 DEF Height
  <2> QED
    BY <2>1, <2>3, <2>4, <1>2, <1>4 DEF Ink
<1> QED
  BY <1>3, <1>4

\* y turns black.
Blackened(col, y, col2) == \A m \in Item : col2[m] = IF m = y THEN "BLACK" ELSE col[m]

\* The node above x that is left with a black node too few below it, and on which side.
Lacks(c, par, col, top, x, y, low, e) ==
    /\ y = NoNode /\ col[x] = "BLACK" /\ x # top => c[e][par[x]] = x
    /\ low = IF y = NoNode /\ col[x] = "BLACK" THEN par[x] ELSE NoNode

\* Taking out a node with one child leaves one black node too few, or none: where
\* the node was red, or its child turns black in its stead.
LEMMA UnlinkEven ==
    ASSUME NEW S \in SUBSET Item, NEW c \in Links, NEW par \in Parents, NEW top,
           NEW pos \in Positions, NEW bound \in Bounds, Shape(c, par, S, top, pos, bound),
           NEW col \in Colors, Reds(par, col, S, NoNode),
           NEW e \in Sides, Level(c, col, S, NoNode, e),
           NEW x \in S, NEW d \in Sides, NEW y, y = c[d][x], c[Other(d)][x] = NoNode,
           NEW c2 \in Links, NEW par2 \in Parents, Replaced(c, par, x, y, c2, par2),
           NEW col2 \in Colors, Blackened(col, y, col2),
           NEW e2 \in Sides, NEW low, Lacks(c, par, col, top, x, y, low, e2)
    PROVE  Level(c2, col2, S \ {x}, low, e2) /\ Reds(par2, col2, S \ {x}, NoNode)
<1> PICK bh \in Heights : Even(c, col, S, bh, NoNode, e)
  BY DEF Level
<1> /\ \A b \in Sides, m \in Item :
          c2[b][m] = IF m = par[x] /\ c[b][m] = x THEN y ELSE c[b][m]
    /\ \A m \in Item : par2[m] = IF m = y THEN par[x] ELSE par[m]
    /\ \A m \in Item : col2[m] = IF m = y THEN "BLACK" ELSE col[m]
  BY DEF Replaced, Blackened
<1> /\ y = NoNode /\ col[x] = "BLACK" /\ x # top => c[e2][par[x]] = x
    /\ low = IF y = NoNode /\ col[x] = "BLACK" THEN par[x] ELSE NoNode
  BY DEF Lacks
<1>2. IF y = NoNode THEN bh[x] = 1 + Ink(col, x)
      ELSE /\ y \in S /\ col[y] = "RED" /\ col[x] = "BLACK" /\ bh[x] = 2
           /\ \A b \in Sides : c[b][y] = NoNode
  <2>1. SingleChild(c, col, S, bh)
    BY OnlyChild
  <2> QED
    BY <2>1 DEF SingleChild
<1> USE TreeAssumption DEF Sides, Other, Colors, Heights
<1>0. Below(c, par, S, top, pos, bound)
  BY ChildFacts
<1>1. \A m \in S, b \in Sides : /\ Height(bh, c[b][m]) = bh[m] - Ink(col, m)
                                /\ bh[m] \in Int /\ bh[m] >= 1 /\ Ink(col, m) \in {0, 1}
  <2> SUFFICES ASSUME NEW m \in S, NEW b \in Sides
               PROVE  /\ Height(bh, c[b][m]) = bh[m] - Ink(col, m)
                      /\ bh[m] \in Int /\ bh[m] >= 1 /\ Ink(col, m) \in {0, 1}
    OBVIOUS
  <2>1. m # NoNode /\ Ink(col, m) \in {0, 1} /\ bh[m] \in Int
    BY DEF Ink
  <2> QED
    BY <2>1 DEF Even
<1>3. y # NoNode => par[y] = x /\ y # x
  BY <1>0 DEF Below
<1>4. PICK bh2 \in Heights : \A m \in Item : bh2[m] = IF m = y THEN 2 ELSE bh[m]
  <2>1. [m \in Item |-> IF m = y THEN 2 ELSE bh[m]] \in Heights
    OBVIOUS
  <2> QED
    BY <2>1
<1>5. ASSUME NEW m \in S, m # x
      PROVE  /\ bh2[m] >= 1
             /\ \A b \in Sides : Height(bh2, c2[b][m]) = bh2[m] - Ink(col2, m)
                                    - (IF m = low /\ b = e2 THEN 1 ELSE 0)
  <2>1. CASE m = y
    <3>1. bh2[m] = 2 /\ Ink(col2, m) = 1 /\ m # low
      BY <2>1, <1>4, <1>2 DEF Ink
    <3>2. m # par[x]
      BY <2>1, <1>0 DEF Below
    <3>3. \A b \in Sides : c2[b][m] = NoNode
      BY <3>2, <2>1, <1>2
    <3> QED
      BY <3>1, <3>3 DEF Height
  <2>2. CASE m # y
    <3>1. bh2[m] = bh[m] /\ Ink(col2, m) = Ink(col, m) /\ bh[m] >= 1
      BY <2>2, <1>1, <1>4 DEF Ink
    <3>2. ASSUME NEW b \in Sides
          PROVE  Height(bh2, c2[b][m]) = bh[m] - Ink(col, m) - (IF m = low /\ b = e2 THEN 1 ELSE 0)
      <4>0. Height(bh, c[b][m]) = bh[m] - Ink(col, m)
        BY <1>1
      <4>1. CASE c[b][m] = x
        <5>1. m = par[x] /\ x # top
          BY <4>1, <1>0 DEF Below
        <5>2. Height(bh2, c2[b][m]) = IF y = NoNode THEN 1 ELSE 2
          BY <5>1, <4>1, <1>2, <1>4 DEF Height
        <5>3. bh[x] = bh[m] - Ink(col, m)
          BY <4>0, <4>1 DEF Height
        <5>4. y = NoNode /\ col[x] = "BLACK" => m = low /\ b = e2
          <6> SUFFICES ASSUME y = NoNode, col[x] = "BLACK" PROVE b = e2
            BY <5>1
          <6>1. c[e2][m] = x
            BY <5>1
          <6> QED
            BY <6>1, <4>1, <1>0 DEF Below
        <5>5. ~(y = NoNode /\ col[x] = "BLACK") => m # low
          OBVIOUS
        <5> QED
          BY <5>2, <5>3, <5>4, <5>5, <1>1, <1>2 DEF Ink
      <4>2. CASE c[b][m] # x
        <5>1. c2[b][m] = c[b][m] /\ (c[b][m] # NoNode => c[b][m] # y)
          BY <4>2, <2>2, <1>0, <1>3, <1>5 DEF Below
        <5>2. Height(bh2, c2[b][m]) = Height(bh, c[b][m])
          <6>1. c[b][m] # NoNode => c[b][m] \in Item
            BY <1>0 DEF Below
          <6> QED
            BY <6>1, <5>1, <1>4 DEF Height
        <5>3. ~(m = low /\ b = e2)
          <6> SUFFICES ASSUME m = low, b = e2 PROVE FALSE
            OBVIOUS
          <6>1. y = NoNode /\ col[x] = "BLACK" /\ par[x] = m
            OBVIOUS
          <6>2. x # top
            BY <6>1 DEF Shape, Wired
          <6> QED
            BY <6>1, <6>2, <4>2
        <5> QED
          BY <5>2, <5>3, <4>0, <1>1
      <4> QED
        BY <4>1, <4>2
    <3> QED
      BY <3>1, <3>2
  <2> QED
    BY <2>1, <2>2
<1>6. ASSUME NEW m \in S, m # x, m # NoNode, col2[m] = "RED"
      PROVE  par2[m] # NoNode /\ col2[par2[m]] = "BLACK"
  <2>1. m # y /\ col[m] = "RED" /\ par2[m] = par[m]
    BY <1>6
  <2>2. par[m] # NoNode /\ col[par[m]] = "BLACK"
    BY <2>1, <1>6 DEF Reds
  <2>3. par[m] \in Item
    BY <2>2 DEF Parents
  <2> QED
    BY <2>1, <2>2, <2>3
<1> QED
  BY <1>4, <1>5, <1>6 DEF Even, Level, Reds

------------------------------------------------------------------------------
(* Two nodes exchange their names                                           *)

\* The nodes a and b exchange their names.
Renamed(a, b, n) == IF n = a THEN b ELSE IF n = b THEN a ELSE n

\* What there is to know of that.
Exchanges(S, a, b) ==
    /\ Renamed(a, b, NoNode) = NoNode
    /\ \A n : Renamed(a, b, Renamed(a, b, n)) = n
    /\ \A n \in S : Renamed(a, b, n) \in S
    /\ \A n \in Item : Renamed(a, b, n) \in Item /\ Renamed(a, b, n) # NoNode
    /\ \A n \in Item \ S : Renamed(a, b, n) = n
    /\ \A n \in S : n \in Item /\ n # NoNode

\* It holds of any two nodes.
LEMMA RenameTwice ==
    ASSUME NEW S \in SUBSET Item, NEW a \in S, NEW b \in S
    PROVE  Exchanges(S, a, b)
BY TreeAssumption DEF Renamed, Exchanges

\* The pointers and colours after they have.
Swapped(a, b, c, par, col, c2, par2, col2) ==
    /\ \A d \in Sides, m \in Item : c2[d][m] = Renamed(a, b, c[d][Renamed(a, b, m)])
    /\ \A m \in Item : /\ par2[m] = Renamed(a, b, par[Renamed(a, b, m)])
                       /\ col2[m] = col[Renamed(a, b, m)]

\* Positions follow the names, not the items.
Moved(a, b, pos, pos2) == \A m \in Item : pos2[m] = pos[Renamed(a, b, m)]

\* A tree stays one when two nodes exchange their names.
LEMMA RenameShape ==
    ASSUME NEW S \in SUBSET Item, NEW c \in Links, NEW par \in Parents, NEW top,
           NEW pos \in Positions, NEW bound \in Bounds, Shape(c, par, S, top, pos, bound),
           NEW a \in S, NEW b \in S,
           NEW col, NEW c2 \in Links, NEW par2 \in Parents, NEW col2,
           Swapped(a, b, c, par, col, c2, par2, col2),
           NEW pos2 \in Positions, Moved(a, b, pos, pos2)
    PROVE  Hangs(c2, par2, S, Renamed(a, b, top), pos2)
<1> DEFINE N(m) == Renamed(a, b, m)
           b2 == [d \in Sides |-> [m \in Item |-> bound[d][N(m)]]]
           top2 == N(top)
<1>1. /\ N(NoNode) = NoNode
      /\ \A n : N(N(n)) = n
      /\ \A n \in S : N(n) \in S
      /\ \A n \in Item : N(n) \in Item /\ N(n) # NoNode
      /\ \A n \in S : n \in Item
  <2>1. Exchanges(S, a, b)
    BY RenameTwice
  <2> QED
    BY <2>1 DEF Exchanges
<1>2. /\ b2 \in Bounds
      /\ \A d \in Sides, m \in Item : b2[d][m] = bound[d][N(m)]
  BY <1>1 DEF Bounds
<1>3. /\ \A d \in Sides, m \in Item : c2[d][m] = N(c[d][N(m)])
      /\ \A m \in Item : par2[m] = N(par[N(m)]) /\ pos2[m] = pos[N(m)]
  BY DEF Swapped, Moved
<1> HIDE DEF b2, N
<1>4. Wired(c2, par2, S, top2)
  <2>0. Wired(c, par, S, top)
    BY DEF Shape
  <2>1. top2 \in S \/ (S = {} /\ top2 = NoNode)
    BY <2>0, <1>1 DEF Wired
  <2>2. ASSUME NEW m \in S PROVE par2[m] = NoNode <=> m = top2
    <3>1. N(m) \in S /\ par2[m] = N(par[N(m)]) /\ N(N(m)) = m
      BY <1>1, <1>3
    <3>2. par[N(m)] = NoNode <=> N(m) = top
      BY <3>1, <2>0 DEF Wired
    <3>3. N(par[N(m)]) = NoNode <=> par[N(m)] = NoNode
      BY <1>1
    <3>4. N(m) = top <=> m = N(top)
      BY <1>1
    <3> QED
      BY <3>1, <3>2, <3>3, <3>4
  <2>3. ASSUME NEW m \in S, m # top2
        PROVE  par2[m] \in S /\ \E d \in Sides : c2[d][par2[m]] = m
    <3>1. N(m) \in S /\ N(m) # top
      BY <2>3, <1>1
    <3>2. PICK d \in Sides : par[N(m)] \in S /\ c[d][par[N(m)]] = N(m)
      BY <3>1, <2>0 DEF Wired
    <3>3. par2[m] = N(par[N(m)]) /\ par2[m] \in S
      BY <3>2, <1>1, <1>3
    <3>4. c2[d][par2[m]] = N(c[d][N(par2[m])])
      BY <3>3, <1>1, <1>3
    <3>5. c2[d][par2[m]] = m
      BY <3>2, <3>3, <3>4, <1>1
    <3> QED
      BY <3>3, <3>5
  <2>4. ASSUME NEW m \in S, NEW d \in Sides, c2[d][m] # NoNode
        PROVE  c2[d][m] \in S /\ par2[c2[d][m]] = m
    <3>1. N(m) \in S /\ c2[d][m] = N(c[d][N(m)]) /\ c[d][N(m)] # NoNode
      BY <2>4, <1>1, <1>3
    <3>2. c[d][N(m)] \in S /\ par[c[d][N(m)]] = N(m)
      BY <3>1, <2>0 DEF Wired
    <3>3. c2[d][m] \in S /\ N(c2[d][m]) = c[d][N(m)]
      BY <3>1, <3>2, <1>1
    <3>4. par2[c2[d][m]] = N(par[N(c2[d][m])])
      BY <3>3, <1>1, <1>3
    <3> QED
      BY <3>2, <3>3, <3>4, <1>1
  <2> HIDE DEF top2
  <2> QED
    BY <2>1, <2>2, <2>3, <2>4 DEF Wired
<1>5. Ranged(c2, S, pos2, b2)
  <2>0. Ranged(c, S, pos, bound)
    BY DEF Shape
  <2>1. ASSUME NEW m \in S
        PROVE  b2["left"][m] < pos2[m] /\ pos2[m] < b2["right"][m]
    BY <2>0, <1>1, <1>2, <1>3 DEF Ranged, Sides
  <2>2. ASSUME NEW m \in S, NEW d \in Sides, c2[d][m] # NoNode
        PROVE  b2[d][c2[d][m]] = b2[d][m] /\ b2[Other(d)][c2[d][m]] = pos2[m]
    <3>1. N(m) \in S /\ c2[d][m] = N(c[d][N(m)]) /\ c[d][N(m)] # NoNode /\ m \in Item
      BY <2>2, <1>1, <1>3
    <3>2. c[d][N(m)] \in S
      BY <3>1 DEF Shape, Wired
    <3>3. c2[d][m] \in Item /\ N(c2[d][m]) = c[d][N(m)]
      BY <3>1, <3>2, <1>1
    <3>4. /\ bound[d][c[d][N(m)]] = bound[d][N(m)]
          /\ bound[Other(d)][c[d][N(m)]] = pos[N(m)]
      BY <3>1, <2>0 DEF Ranged
    <3>5. Other(d) \in Sides
      BY DEF Other, Sides
    <3> QED
      BY <3>1, <3>3, <3>4, <3>5, <1>2, <1>3
  <2>3. ASSUME NEW m \in S, NEW k \in S, pos2[m] = pos2[k] PROVE m = k
    <3>1. N(m) = N(k)
      BY <2>3, <2>0, <1>1, <1>3 DEF Ranged
    <3> QED
      BY <3>1, <1>1
  <2> QED
    BY <2>1, <2>2, <2>3 DEF Ranged
<1>6. Filled(c2, S, top2, pos2, b2)
  <2>0. Filled(c, S, top, pos, bound)
    BY DEF Shape
  <2>1. ASSUME NEW m \in S, NEW k \in S, NEW d \in Sides,
               Lies(d, b2[d][m], pos2[k]), Lies(d, pos2[k], pos2[m])
        PROVE  c2[d][m] # NoNode
    <3>1. N(m) \in S /\ N(k) \in S /\ m \in Item /\ k \in Item
      BY <1>1
    <3>2. Lies(d, bound[d][N(m)], pos[N(k)]) /\ Lies(d, pos[N(k)], pos[N(m)])
      BY <2>1, <3>1, <1>2, <1>3
    <3>3. c[d][N(m)] # NoNode
      BY <3>1, <3>2, <2>0 DEF Filled
    <3> QED
      BY <3>1, <3>3, <1>1, <1>3
  <2>2. ASSUME NEW m \in S
        PROVE  b2["left"][top2] < pos2[m] /\ pos2[m] < b2["right"][top2]
    <3>1. top2 \in Item /\ N(top2) = top /\ m \in Item /\ N(m) \in S
      BY <1>1 DEF Shape, Wired
    <3>2. bound["left"][top] < pos[N(m)] /\ pos[N(m)] < bound["right"][top]
      BY <3>1, <2>0 DEF Filled
    <3> QED
      BY <3>1, <3>2, <1>2, <1>3 DEF Sides
  <2> QED
    BY <2>1, <2>2 DEF Filled
<1> QED
  BY <1>2, <1>4, <1>5, <1>6 DEF Shape, Hangs, N

\* So do its colours and heights.
LEMMA RenameColors ==
    ASSUME NEW S \in SUBSET Item, NEW c \in Links, NEW par \in Parents, NEW top,
           NEW pos \in Positions, NEW bound \in Bounds, Shape(c, par, S, top, pos, bound),
           NEW a \in S, NEW b \in S,
           NEW c2 \in Links, NEW par2 \in Parents, NEW col \in Colors, NEW col2 \in Colors,
           Swapped(a, b, c, par, col, c2, par2, col2),
           Reds(par, col, S, NoNode), Blanks(c, par, col, S, NoNode),
           NEW e \in Sides, Level(c, col, S, NoNode, e), NEW e2 \in Sides
    PROVE  /\ Reds(par2, col2, S, NoNode) /\ Blanks(c2, par2, col2, S, NoNode)
           /\ Level(c2, col2, S, NoNode, e2)
<1> PICK bh \in Heights : Even(c, col, S, bh, NoNode, e)
  BY DEF Level
<1> DEFINE N(m) == Renamed(a, b, m)
<1>1. /\ N(NoNode) = NoNode
      /\ \A n : N(N(n)) = n
      /\ \A n \in S : N(n) \in S
      /\ \A n \in Item : N(n) \in Item /\ N(n) # NoNode
      /\ \A n \in Item \ S : N(n) = n
      /\ \A n \in S : n \in Item /\ n # NoNode
  <2>1. Exchanges(S, a, b)
    BY RenameTwice
  <2> QED
    BY <2>1 DEF Exchanges
<1>2. /\ \A d \in Sides, m \in Item : c2[d][m] = N(c[d][N(m)])
      /\ \A m \in Item : par2[m] = N(par[N(m)]) /\ col2[m] = col[N(m)]
  BY DEF Swapped
<1> HIDE DEF N
<1>3. PICK bh2 \in Heights : \A m \in Item : bh2[m] = bh[N(m)]
  <2>1. [m \in Item |-> bh[N(m)]] \in Heights
    BY <1>1 DEF Heights
  <2> QED
    BY <2>1
<1>4. ASSUME NEW m \in S, m # NoNode, col2[m] = "RED"
      PROVE  par2[m] # NoNode /\ col2[par2[m]] = "BLACK"
  <2>1. N(m) \in S /\ N(m) # NoNode /\ col[N(m)] = "RED" /\ par2[m] = N(par[N(m)])
    BY <1>1, <1>2, <1>4
  <2>2. par[N(m)] # NoNode /\ col[par[N(m)]] = "BLACK"
    BY <2>1 DEF Reds
  <2>3. par[N(m)] \in Item
    BY <2>1, <2>2, <1>1 DEF Parents
  <2> QED
    BY <2>1, <2>2, <2>3, <1>1, <1>2
<1>5. ASSUME NEW m \in Item \ S
      PROVE  par2[m] = NoNode /\ col2[m] = "RED" /\ \A d \in Sides : c2[d][m] = NoNode
  <2>1. N(m) = m /\ m # NoNode
    BY <1>1, TreeAssumption
  <2>2. par[m] = NoNode /\ col[m] = "RED" /\ \A d \in Sides : c[d][m] = NoNode
    BY <2>1 DEF Blanks
  <2> QED
    BY <2>1, <2>2, <1>1, <1>2
<1>6. ASSUME NEW m \in S
      PROVE  /\ bh2[m] >= 1
             /\ \A d \in Sides : Height(bh2, c2[d][m]) = bh2[m] - Ink(col2, m) - 0
  <2>1. N(m) \in S /\ N(m) # NoNode /\ bh2[m] = bh[N(m)] /\ Ink(col2, m) = Ink(col, N(m))
    BY <1>1, <1>2, <1>3 DEF Ink
  <2>2. ASSUME NEW d \in Sides PROVE Height(bh2, c2[d][m]) = Height(bh, c[d][N(m)])
    <3>1. c2[d][m] = N(c[d][N(m)]) /\ c[d][N(m)] \in Item \cup {NoNode}
      BY <2>1, <1>1, <1>2 DEF Links
    <3>2. CASE c[d][N(m)] = NoNode
      BY <3>1, <3>2, <1>1 DEF Height
    <3>3. CASE c[d][N(m)] # NoNode
      <4>1. N(N(c[d][N(m)])) = c[d][N(m)] /\ N(c[d][N(m)]) \in Item /\ N(c[d][N(m)]) # NoNode
        BY <3>1, <3>3, <1>1
      <4> QED
        BY <4>1, <3>1, <3>3, <1>3 DEF Height
    <3> QED
      BY <3>2, <3>3
  <2>3. /\ bh[N(m)] >= 1
        /\ \A d \in Sides : Height(bh, c[d][N(m)]) = bh[N(m)] - Ink(col, N(m)) - 0
    BY <2>1 DEF Even
  <2> QED
    BY <2>1, <2>2, <2>3
<1>7. Even(c2, col2, S, bh2, NoNode, e2)
  BY <1>1, <1>6 DEF Even
<1> QED
  BY <1>3, <1>4, <1>5, <1>7 DEF Reds, Blanks, Level

\* Two neighbours exchange their positions: without the one, the keys still grow.
LEMMA RenameKeys ==
    ASSUME NEW S \in SUBSET Item, NEW pos \in Positions, KeysGrow(S, pos),
           \A m, n \in S : pos[m] = pos[n] => m = n,
           NEW a \in S, NEW b \in S, NEW d \in Sides,
           Lies(d, pos[b], pos[a]),
           \A m \in S : ~(Lies(d, pos[b], pos[m]) /\ Lies(d, pos[m], pos[a])),
           NEW pos2 \in Positions, Moved(a, b, pos, pos2)
    PROVE  KeysGrow(S \ {b}, pos2)
<1> SUFFICES ASSUME NEW m \in S \ {b}, NEW n \in S \ {b}, pos2[m] < pos2[n]
             PROVE  KeyOf(m) <= KeyOf(n)
  BY DEF KeysGrow
<1>1. /\ \A k \in S : k \in Item /\ pos[k] \in Int
      /\ \A k \in Item : pos2[k] = pos[Renamed(a, b, k)]
  BY DEF Positions, Moved
<1>2. CASE m # a /\ n # a
  BY <1>1, <1>2 DEF Renamed, KeysGrow
<1>3. CASE m = a
  <2>1. n # a /\ pos2[n] = pos[n] /\ pos2[m] = pos[b]
    BY <1>1, <1>3 DEF Renamed
  <2>2. pos[a] < pos[n]
    BY <2>1, <1>1, <1>3 DEF Lies
  <2> QED
    BY <2>2, <1>3 DEF KeysGrow
<1>4. CASE n = a
  <2>1. m # a /\ pos2[m] = pos[m] /\ pos2[n] = pos[b]
    BY <1>1, <1>4 DEF Renamed
  <2>2. pos[m] < pos[a]
    BY <2>1, <1>1, <1>4 DEF Lies
  <2> QED
    BY <2>2, <1>4 DEF KeysGrow
<1> QED
  BY <1>2, <1>3, <1>4

------------------------------------------------------------------------------
(* The invariant, and the steps that leave the tree alone                   *)

\* The types; no pointer that a call works on leads out of the tree but the node
\* that is being inserted.
TreeTypeOK ==
    /\ items \in SUBSET Item
    /\ child \in Links /\ parent \in Parents /\ color \in Colors
    /\ root \in items \/ (root = NoNode /\ items = {})
    /\ node \in Item \cup {NoNode, Garbage}
    /\ at \in items \cup {NoNode}
    /\ dead \in Item \cup {NoNode} /\ dead \notin items
    /\ given \in SUBSET items

\* The inductive invariant: there is a place for each node in one order, and bounds
\* of the places below it, for which everything above holds.
TreeInv ==
    /\ TreeTypeOK
    /\ \E top \in Item \cup {NoNode}, pos \in Positions, bound \in Bounds :
          Sound(top, pos, bound) /\ Placed(top, pos, bound)

\* The steps of balancing.
Working == Adding \cup Removing

\* A step that only moves pointers.
LEMMA SoundKept ==
    ASSUME NEW top, NEW pos, NEW bound, Sound(top, pos, bound),
           UNCHANGED <<items, fieldVars, dead>>,
           step \notin Working, step' \notin Working, step # "unlink"
    PROVE  Sound(top, pos, bound)'
<1>1. KeysGrow(items \ Unordered, pos)'
  BY DEF KeysGrow, Sound, Unordered, fieldVars
<1> QED
  BY <1>1 DEF Sound, fieldVars, Spared, Low, LowSide, Working

\* The places and keys of nodes are numbers.
LEMMA Numbers ==
    ASSUME TreeTypeOK, NEW pos \in Positions, NEW bound \in Bounds
    PROVE  /\ NoNode \notin items
           /\ \A n \in items : /\ n \in Item /\ n # NoNode /\ pos[n] \in Int /\ KeyOf(n) \in Int
                               /\ bound["left"][n] \in Int /\ bound["right"][n] \in Int
BY TreeAssumption DEF TreeTypeOK, Positions, Bounds, Sides

\* The children of a node and their bounds, in the present tree.
Branches(top, pos, bound) ==
    /\ Below(child, parent, items, top, pos, bound)
    /\ \A n \in items : bound["left"][n] < pos[n] /\ pos[n] < bound["right"][n]

\* They are what they should be.
LEMMA BranchesOK ==
    ASSUME TreeTypeOK, NEW top, NEW pos \in Positions, NEW bound \in Bounds,
           Sound(top, pos, bound)
    PROVE  Branches(top, pos, bound)
<1>1. Shape(child, parent, items, top, pos, bound)
  BY DEF Sound
<1>2. Below(child, parent, items, top, pos, bound)
  BY <1>1, ChildFacts DEF TreeTypeOK
<1> QED
  BY <1>1, <1>2 DEF Branches, Shape, Ranged

\* One lemma for each action: it keeps the invariant.  These leave the tree alone
\* and move the pointers of Insert and Delete.
LEMMA InvInsert == ASSUME TreeInv, NEW i \in Item, Insert(i) PROVE TreeInv'
<1>1. PICK top \in Item \cup {NoNode}, pos \in Positions, bound \in Bounds :
         Sound(top, pos, bound) /\ Placed(top, pos, bound)
  BY DEF TreeInv
<1>2. TreeTypeOK'
  BY DEF TreeInv, TreeTypeOK, Insert, fieldVars, headerVars
<1>3. Sound(top, pos, bound)'
  BY <1>1, SoundKept DEF Insert, Working, Adding, Removing
<1>4. Placed(top, pos, bound)'
  <2>1. Header(top, bound)'
    BY <1>1 DEF Placed, Header, Insert, Still, Removing, Ends, fieldVars, headerVars
  <2>2. Inserting(pos, bound)'
    <3>1. \A m \in items : bound["left"][root] < pos[m] /\ pos[m] < bound["right"][root]
      BY <1>1 DEF Insert, Sound, Placed, Shape, Filled, Header, Still
    <3>2. /\ NoNode \notin items
          /\ \A m \in items, n \in items : pos[m] \in Int /\ bound["left"][n] \in Int
                                           /\ bound["right"][n] \in Int
      BY TreeAssumption DEF TreeInv, TreeTypeOK, Positions, Bounds, Sides
    <3> QED
      BY <3>1, <3>2 DEF TreeInv, TreeTypeOK, Insert, Inserting, Adding, fieldVars, headerVars
  <2>3. Deleting(pos, bound)'
    BY <1>1 DEF Deleting, Insert, Removing
  <2>4. Iterating(pos, bound)'
    BY <1>1 DEF Placed, Iterating, Insert
  <2> QED
    BY <2>1, <2>2, <2>3, <2>4 DEF Placed
<1> QED
  BY <1>2, <1>3, <1>4 DEF TreeInv
LEMMA InvDescend == ASSUME TreeInv, Descend PROVE TreeInv'
<1>1. PICK top \in Item \cup {NoNode}, pos \in Positions, bound \in Bounds :
         Sound(top, pos, bound) /\ Placed(top, pos, bound)
  BY DEF TreeInv
<1>2. TreeTypeOK
  BY DEF TreeInv
<1>3. Branches(top, pos, bound)
  BY <1>1, <1>2, BranchesOK
<1>4. /\ NoNode \notin items
      /\ \A n \in items : /\ n \in Item /\ n # NoNode /\ pos[n] \in Int /\ KeyOf(n) \in Int
                          /\ bound["left"][n] \in Int /\ bound["right"][n] \in Int
  BY <1>2, Numbers
<1>5. TreeTypeOK'
  BY <1>2, <1>3, <1>4 DEF TreeTypeOK, Descend, fieldVars, headerVars, Branches, Below, Sides
<1>6. Sound(top, pos, bound)'
  BY <1>1, SoundKept DEF Descend, Working, Adding, Removing
<1>7. Placed(top, pos, bound)'
  <2>1. Header(top, bound)'
    BY <1>1 DEF Placed, Header, Descend, Still, Removing, Ends, fieldVars, headerVars
  <2>2. Inserting(pos, bound)'
    <3>1. PICK side \in Sides : /\ side = IF KeyOf(at) > KeyOf(node) THEN "left" ELSE "right"
                                /\ at \in items /\ child[side][at] # NoNode
                                /\ at' = child[side][at]
      BY <1>2 DEF Descend, Sides, TreeTypeOK
    <3>2. /\ at' \in items /\ bound[side][at'] = bound[side][at]
          /\ bound[Other(side)][at'] = pos[at]
      BY <3>1, <1>3 DEF Branches, Below
    <3>3. /\ node \in Item \ items /\ KeyOf(node) \in Int
          /\ \A m \in items : /\ pos[m] <= bound["left"][at] => KeyOf(m) <= KeyOf(node)
                              /\ bound["right"][at] <= pos[m] => KeyOf(m) > KeyOf(node)
      BY <3>1, <1>1, <1>4, TreeAssumption DEF Placed, Inserting, Descend
    <3>4. \A m \in items : /\ pos[m] < pos[at] => KeyOf(m) <= KeyOf(at)
                           /\ pos[at] < pos[m] => KeyOf(at) <= KeyOf(m)
                           /\ pos[m] = pos[at] => m = at
      BY <3>1, <1>1 DEF Sound, KeysGrow, Unordered, Descend, Shape, Ranged
    <3>5. ASSUME NEW m \in items
          PROVE  /\ pos[m] <= bound["left"][at'] => KeyOf(m) <= KeyOf(node)
                 /\ bound["right"][at'] <= pos[m] => KeyOf(m) > KeyOf(node)
      BY <3>1, <3>2, <3>3, <3>4, <1>4 DEF Sides, Other
    <3> QED
      BY <3>2, <3>3, <3>5, <1>4 DEF Inserting, Descend, Adding, fieldVars, headerVars
  <2>3. Deleting(pos, bound)'
    BY <1>1 DEF Deleting, Descend, Removing
  <2>4. Iterating(pos, bound)'
    BY <1>1 DEF Placed, Iterating, Descend, fieldVars, headerVars
  <2> QED
    BY <2>1, <2>2, <2>3, <2>4 DEF Placed
<1> QED
  BY <1>5, <1>6, <1>7 DEF TreeInv

LEMMA InvDelete == ASSUME TreeInv, NEW k \in Key, Delete(k) PROVE TreeInv'
<1>1. PICK top \in Item \cup {NoNode}, pos \in Positions, bound \in Bounds :
         Sound(top, pos, bound) /\ Placed(top, pos, bound)
  BY DEF TreeInv
<1>2. TreeTypeOK
  BY DEF TreeInv
<1>3. Branches(top, pos, bound)
  BY <1>1, <1>2, BranchesOK
<1>4. /\ NoNode \notin items
      /\ \A n \in items : /\ n \in Item /\ n # NoNode /\ pos[n] \in Int /\ KeyOf(n) \in Int
                          /\ bound["left"][n] \in Int /\ bound["right"][n] \in Int
  BY <1>2, Numbers
<1>5. TreeTypeOK'
  BY <1>2 DEF TreeTypeOK, Delete, fieldVars, headerVars
<1>6. Sound(top, pos, bound)'
  BY <1>1, SoundKept DEF Delete, Working, Adding, Removing
<1>7. Placed(top, pos, bound)'
  <2>1. Header(top, bound)'
    BY <1>1 DEF Placed, Header, Delete, Still, Removing, Ends, fieldVars, headerVars
  <2>2. Inserting(pos, bound)'
    BY <1>1 DEF Inserting, Delete, Adding
  <2>3. Deleting(pos, bound)'
    <3>1. \A m \in items : bound["left"][root] < pos[m] /\ pos[m] < bound["right"][root]
      BY <1>1 DEF Delete, Sound, Placed, Shape, Filled, Header, Still
    <3>2. items # {} => root # NoNode
      BY <1>2, <1>4 DEF TreeTypeOK
    <3> QED
      BY <3>1, <3>2 DEF Deleting, Delete, Removing, fieldVars, headerVars
  <2>4. Iterating(pos, bound)'
    BY <1>1 DEF Placed, Iterating, Delete, fieldVars, headerVars
  <2> QED
    BY <2>1, <2>2, <2>3, <2>4 DEF Placed
<1> QED
  BY <1>5, <1>6, <1>7 DEF TreeInv

LEMMA InvSearch == ASSUME TreeInv, Search PROVE TreeInv'
<1>1. PICK top \in Item \cup {NoNode}, pos \in Positions, bound \in Bounds :
         Sound(top, pos, bound) /\ Placed(top, pos, bound)
  BY DEF TreeInv
<1>2. TreeTypeOK
  BY DEF TreeInv
<1>3. Branches(top, pos, bound)
  BY <1>1, <1>2, BranchesOK
<1>4. /\ NoNode \notin items
      /\ \A n \in items : /\ n \in Item /\ n # NoNode /\ pos[n] \in Int /\ KeyOf(n) \in Int
                          /\ bound["left"][n] \in Int /\ bound["right"][n] \in Int
  BY <1>2, Numbers
<1>5. TreeTypeOK'
  <2>1. at \in items
    BY <1>2 DEF Search, TreeTypeOK
  <2>2. \A d \in Sides : child[d][at] \in items \cup {NoNode}
    BY <2>1, <1>3 DEF Branches, Below
  <2> QED
    BY <2>2, <1>2 DEF TreeTypeOK, Search, fieldVars, headerVars, Sides
<1>6. Sound(top, pos, bound)'
  BY <1>1, SoundKept DEF Search, Working, Adding, Removing
<1>7. Placed(top, pos, bound)'
  <2>1. Header(top, bound)'
    BY <1>1 DEF Placed, Header, Search, Still, Removing, Ends, fieldVars, headerVars
  <2>2. Inserting(pos, bound)'
    BY <1>1 DEF Inserting, Search, Adding
  <2>3. Deleting(pos, bound)'
    <3>1. PICK side \in Sides : /\ side = IF KeyOf(at) > key THEN "left" ELSE "right"
                                /\ at \in items /\ KeyOf(at) # key /\ at' = child[side][at]
      BY <1>2 DEF Search, Sides, TreeTypeOK
    <3>2. at' # NoNode => /\ bound[side][at'] = bound[side][at]
                          /\ bound[Other(side)][at'] = pos[at]
      BY <3>1, <1>3 DEF Branches, Below
    <3>3. ASSUME NEW m \in items, KeyOf(m) = key
          PROVE  at' # NoNode /\ bound["left"][at'] < pos[m] /\ pos[m] < bound["right"][at']
      <4>1. bound["left"][at] < pos[m] /\ pos[m] < bound["right"][at]
        BY <3>3, <1>1 DEF Placed, Deleting, Search
      <4>2. /\ pos[m] < pos[at] => KeyOf(m) <= KeyOf(at)
            /\ pos[at] < pos[m] => KeyOf(at) <= KeyOf(m)
            /\ pos[m] = pos[at] => m = at
        BY <3>1, <1>1 DEF Sound, KeysGrow, Unordered, Search, Shape, Ranged
      <4>3. Lies(side, bound[side][at], pos[m]) /\ Lies(side, pos[m], pos[at])
        BY <4>1, <4>2, <3>1, <3>3, <1>4 DEF Lies, Sides
      <4>4. at' # NoNode
        BY <4>3, <3>1, <1>1 DEF Sound, Shape, Filled
      <4> QED
        BY <4>1, <4>3, <4>4, <3>1, <3>2 DEF Lies, Sides, Other
    <3> QED
      BY <3>3 DEF Deleting, Search, Removing, fieldVars, headerVars
  <2>4. Iterating(pos, bound)'
    BY <1>1 DEF Placed, Iterating, Search, fieldVars, headerVars
  <2> QED
    BY <2>1, <2>2, <2>3, <2>4 DEF Placed
<1> QED
  BY <1>5, <1>6, <1>7 DEF TreeInv

LEMMA InvSearchFails == ASSUME TreeInv, SearchFails PROVE TreeInv'
<1>1. PICK top \in Item \cup {NoNode}, pos \in Positions, bound \in Bounds :
         Sound(top, pos, bound) /\ Placed(top, pos, bound)
  BY DEF TreeInv
<1>2. TreeTypeOK
  BY DEF TreeInv
<1>3. Branches(top, pos, bound)
  BY <1>1, <1>2, BranchesOK
<1>4. /\ NoNode \notin items
      /\ \A n \in items : /\ n \in Item /\ n # NoNode /\ pos[n] \in Int /\ KeyOf(n) \in Int
                          /\ bound["left"][n] \in Int /\ bound["right"][n] \in Int
  BY <1>2, Numbers
<1>5. TreeTypeOK'
  BY <1>2 DEF TreeTypeOK, SearchFails, fieldVars, headerVars
<1>6. Sound(top, pos, bound)'
  BY <1>1, SoundKept DEF SearchFails, Working, Adding, Removing
<1>7. Placed(top, pos, bound)'
  <2>1. Header(top, bound)'
    BY <1>1 DEF Placed, Header, SearchFails, Still, Removing, Ends, fieldVars, headerVars
  <2>2. Inserting(pos, bound)'
    BY <1>1 DEF Inserting, SearchFails, Adding
  <2>3. Deleting(pos, bound)'
    BY <1>1 DEF Deleting, SearchFails, Removing
  <2>4. Iterating(pos, bound)'
    BY <1>1 DEF Placed, Iterating, SearchFails, fieldVars, headerVars
  <2> QED
    BY <2>1, <2>2, <2>3, <2>4 DEF Placed
<1> QED
  BY <1>5, <1>6, <1>7 DEF TreeInv

LEMMA InvSearchFinds == ASSUME TreeInv, SearchFinds PROVE TreeInv'
<1>1. PICK top \in Item \cup {NoNode}, pos \in Positions, bound \in Bounds :
         Sound(top, pos, bound) /\ Placed(top, pos, bound)
  BY DEF TreeInv
<1>2. TreeTypeOK
  BY DEF TreeInv
<1>3. Branches(top, pos, bound)
  BY <1>1, <1>2, BranchesOK
<1>4. /\ NoNode \notin items
      /\ \A n \in items : /\ n \in Item /\ n # NoNode /\ pos[n] \in Int /\ KeyOf(n) \in Int
                          /\ bound["left"][n] \in Int /\ bound["right"][n] \in Int
  BY <1>2, Numbers
<1>5. TreeTypeOK'
  <2>1. at \in items
    BY <1>2 DEF SearchFinds, TreeTypeOK
  <2>2. \A d \in Sides : child[d][at] \in items \cup {NoNode}
    BY <2>1, <1>3 DEF Branches, Below
  <2> QED
    BY <2>1, <2>2, <1>2 DEF TreeTypeOK, SearchFinds, fieldVars, headerVars, Sides
<1>6. Sound(top, pos, bound)'
  BY <1>1, SoundKept DEF SearchFinds, Working, Adding, Removing
<1>7. Placed(top, pos, bound)'
  <2>1. Header(top, bound)'
    BY <1>1 DEF Placed, Header, SearchFinds, Still, Removing, Ends, fieldVars, headerVars
  <2>2. Inserting(pos, bound)'
    BY <1>1 DEF Inserting, SearchFinds, Adding
  <2>3. Deleting(pos, bound)'
    <3>1. at \in items /\ node' = at /\ KeyOf(at) = key
      BY <1>2 DEF SearchFinds, TreeTypeOK
    <3>2. \A d \in Sides : child[d][at] # NoNode => bound[Other(d)][child[d][at]] = pos[at]
      BY <3>1, <1>3 DEF Branches, Below
    <3>3. step' = "unlink" => child["left"][at] = NoNode
      BY DEF SearchFinds
    <3>4. step' \in {"min", "max"} =>
             at' # NoNode /\ bound[IF step' = "min" THEN "left" ELSE "right"][at'] = pos[at]
      BY <3>2 DEF SearchFinds, Sides, Other
    <3>5. step' \in {"unlink", "min", "max"}
      BY DEF SearchFinds
    <3> QED
      BY <3>1, <3>3, <3>4, <3>5
      DEF Deleting, SearchFinds, Removing, Sides, Inwards, fieldVars, headerVars
  <2>4. Iterating(pos, bound)'
    BY <1>1 DEF Placed, Iterating, SearchFinds, fieldVars, headerVars
  <2> QED
    BY <2>1, <2>2, <2>3, <2>4 DEF Placed
<1> QED
  BY <1>5, <1>6, <1>7 DEF TreeInv

LEMMA InvNeighbour == ASSUME TreeInv, Neighbour PROVE TreeInv'
<1>1. PICK top \in Item \cup {NoNode}, pos \in Positions, bound \in Bounds :
         Sound(top, pos, bound) /\ Placed(top, pos, bound)
  BY DEF TreeInv
<1>2. TreeTypeOK
  BY DEF TreeInv
<1>3. Branches(top, pos, bound)
  BY <1>1, <1>2, BranchesOK
<1>4. /\ NoNode \notin items
      /\ \A n \in items : /\ n \in Item /\ n # NoNode /\ pos[n] \in Int /\ KeyOf(n) \in Int
                          /\ bound["left"][n] \in Int /\ bound["right"][n] \in Int
  BY <1>2, Numbers
<1>5. TreeTypeOK'
  <2>1. at \in items /\ Inwards \in Sides
    BY <1>1, <1>2 DEF Neighbour, TreeTypeOK, Placed, Deleting, Inwards, Sides
  <2>2. child[Inwards][at] \in items
    BY <2>1, <1>3 DEF Branches, Below, Neighbour
  <2> QED
    BY <2>2, <1>2 DEF TreeTypeOK, Neighbour, fieldVars, headerVars
<1>6. Sound(top, pos, bound)'
  BY <1>1, SoundKept DEF Neighbour, Working, Adding, Removing
<1>7. Placed(top, pos, bound)'
  <2>1. Header(top, bound)'
    BY <1>1 DEF Placed, Header, Neighbour, Still, Removing, Ends, fieldVars, headerVars
  <2>2. Inserting(pos, bound)'
    BY <1>1 DEF Inserting, Neighbour, Adding
  <2>3. Deleting(pos, bound)'
    <3>1. /\ at \in items /\ Inwards \in Sides /\ node \in items /\ KeyOf(node) = key
          /\ bound[Inwards][at] = pos[node]
      BY <1>1, <1>2 DEF Neighbour, TreeTypeOK, Placed, Deleting, Inwards, Sides
    <3>2. bound[Inwards][at'] = bound[Inwards][at]
      BY <3>1, <1>3 DEF Branches, Below, Neighbour
    <3> QED
      BY <3>1, <3>2 DEF Deleting, Neighbour, Removing, Inwards, fieldVars, headerVars
  <2>4. Iterating(pos, bound)'
    BY <1>1 DEF Placed, Iterating, Neighbour, fieldVars, headerVars
  <2> QED
    BY <2>1, <2>2, <2>3, <2>4 DEF Placed
<1> QED
  BY <1>5, <1>6, <1>7 DEF TreeInv

\* The walks to the root and to the first and last node, and the iterator's.
LEMMA InvUpdateRoot == ASSUME TreeInv, UpdateRoot PROVE TreeInv'
<1>1. PICK top \in Item \cup {NoNode}, pos \in Positions, bound \in Bounds :
         Sound(top, pos, bound) /\ Placed(top, pos, bound)
  BY DEF TreeInv
<1>2. TreeTypeOK
  BY DEF TreeInv
<1>3. Branches(top, pos, bound)
  BY <1>1, <1>2, BranchesOK
<1>4. /\ NoNode \notin items
      /\ \A n \in items : /\ n \in Item /\ n # NoNode /\ pos[n] \in Int /\ KeyOf(n) \in Int
                          /\ bound["left"][n] \in Int /\ bound["right"][n] \in Int
  BY <1>2, Numbers
<1>8. at # NoNode => at \in items /\ (parent[at] = NoNode <=> at = top)
  BY <1>1, <1>2 DEF TreeTypeOK, Sound, Shape, Wired
<1>9. /\ at # NoNode /\ parent[at] # NoNode => parent[at] \in items
      /\ at = NoNode => items = {}
  BY <1>1, <1>8 DEF UpdateRoot, Placed, Header, Sound, Shape, Wired
<1>5. TreeTypeOK'
  BY <1>2, <1>8, <1>9 DEF TreeTypeOK, UpdateRoot, fieldVars, headerVars
<1>6. Sound(top, pos, bound)'
  BY <1>1, SoundKept DEF UpdateRoot, Working, Adding, Removing
<1>7. Placed(top, pos, bound)'
  <2>1. Header(top, bound)'
    <3>1. ~(at # NoNode /\ parent[at] # NoNode) => root' = top
      BY <1>1, <1>2, <1>8, <1>9 DEF UpdateRoot, TreeTypeOK, Sound, Shape, Wired
    <3> QED
      BY <3>1, <1>1, <1>2, <1>4, <1>8, <1>9
      DEF Placed, Header, UpdateRoot, TreeTypeOK, Still, Removing, Ends, fieldVars, headerVars
  <2>2. Inserting(pos, bound)'
    BY <1>1 DEF Inserting, UpdateRoot, Adding
  <2>3. Deleting(pos, bound)'
    BY <1>1 DEF Deleting, UpdateRoot, Removing
  <2>4. Iterating(pos, bound)'
    BY <1>1 DEF Placed, Iterating, UpdateRoot, fieldVars, headerVars
  <2> QED
    BY <2>1, <2>2, <2>3, <2>4 DEF Placed
<1> QED
  BY <1>5, <1>6, <1>7 DEF TreeInv

LEMMA InvUpdateMostLeft == ASSUME TreeInv, UpdateMostLeft PROVE TreeInv'
<1>1. PICK top \in Item \cup {NoNode}, pos \in Positions, bound \in Bounds :
         Sound(top, pos, bound) /\ Placed(top, pos, bound)
  BY DEF TreeInv
<1>2. TreeTypeOK
  BY DEF TreeInv
<1>3. Branches(top, pos, bound)
  BY <1>1, <1>2, BranchesOK
<1>4. /\ NoNode \notin items
      /\ \A n \in items : /\ n \in Item /\ n # NoNode /\ pos[n] \in Int /\ KeyOf(n) \in Int
                          /\ bound["left"][n] \in Int /\ bound["right"][n] \in Int
  BY <1>2, Numbers
<1>8. /\ at # NoNode => at \in items
      /\ at # NoNode /\ child["left"][at] # NoNode =>
            child["left"][at] \in items /\ bound["left"][child["left"][at]] = bound["left"][at]
  BY <1>2, <1>3 DEF TreeTypeOK, Branches, Below, Sides
<1>5. TreeTypeOK'
  BY <1>2, <1>8 DEF TreeTypeOK, UpdateMostLeft, fieldVars, headerVars
<1>6. Sound(top, pos, bound)'
  BY <1>1, SoundKept DEF UpdateMostLeft, Working, Adding, Removing
<1>7. Placed(top, pos, bound)'
  <2>1. Header(top, bound)'
    <3>1. at = NoNode <=> items = {}
      BY <1>1, <1>2, <1>4, <1>8 DEF UpdateMostLeft, Placed, Header, TreeTypeOK
    <3>2. root = top /\ dead = NoNode /\ (root = NoNode <=> items = {})
      BY <1>1, <1>2, <1>4 DEF UpdateMostLeft, Placed, Header, Removing, TreeTypeOK
    <3>3. at # NoNode => bound["left"][at] = bound["left"][top]
      BY <1>1 DEF UpdateMostLeft, Placed, Header
    <3> QED
      BY <3>1, <3>2, <3>3, <1>8
      DEF Header, UpdateMostLeft, Still, Removing, Ends, fieldVars, headerVars
  <2>2. Inserting(pos, bound)'
    BY <1>1 DEF Inserting, UpdateMostLeft, Adding
  <2>3. Deleting(pos, bound)'
    BY <1>1 DEF Deleting, UpdateMostLeft, Removing
  <2>4. Iterating(pos, bound)'
    BY <1>1 DEF Placed, Iterating, UpdateMostLeft, fieldVars, headerVars
  <2> QED
    BY <2>1, <2>2, <2>3, <2>4 DEF Placed
<1> QED
  BY <1>5, <1>6, <1>7 DEF TreeInv

LEMMA InvUpdateMostRight == ASSUME TreeInv, UpdateMostRight PROVE TreeInv'
<1>1. PICK top \in Item \cup {NoNode}, pos \in Positions, bound \in Bounds :
         Sound(top, pos, bound) /\ Placed(top, pos, bound)
  BY DEF TreeInv
<1>2. TreeTypeOK
  BY DEF TreeInv
<1>3. Branches(top, pos, bound)
  BY <1>1, <1>2, BranchesOK
<1>4. /\ NoNode \notin items
      /\ \A n \in items : /\ n \in Item /\ n # NoNode /\ pos[n] \in Int /\ KeyOf(n) \in Int
                          /\ bound["left"][n] \in Int /\ bound["right"][n] \in Int
  BY <1>2, Numbers
<1>8. /\ at # NoNode => at \in items
      /\ at # NoNode /\ child["right"][at] # NoNode =>
            child["right"][at] \in items /\ bound["right"][child["right"][at]] = bound["right"][at]
  BY <1>2, <1>3 DEF TreeTypeOK, Branches, Below, Sides
<1>5. TreeTypeOK'
  BY <1>2, <1>8 DEF TreeTypeOK, UpdateMostRight, fieldVars, headerVars
<1>6. Sound(top, pos, bound)'
  BY <1>1, SoundKept DEF UpdateMostRight, Working, Adding, Removing
<1>7. Placed(top, pos, bound)'
  <2>1. Header(top, bound)'
    <3>1. at = NoNode <=> items = {}
      BY <1>1, <1>2, <1>4, <1>8 DEF UpdateMostRight, Placed, Header, TreeTypeOK
    <3>2. root = top /\ dead = NoNode /\ (root = NoNode <=> items = {})
      BY <1>1, <1>2, <1>4 DEF UpdateMostRight, Placed, Header, Removing, TreeTypeOK
    <3>3. /\ at # NoNode => bound["right"][at] = bound["right"][top]
          /\ IF items = {} THEN least = NoNode ELSE Ends("left", least, top, bound)
      BY <1>1 DEF UpdateMostRight, Placed, Header
    <3> QED
      BY <3>1, <3>2, <3>3, <1>8
      DEF Header, UpdateMostRight, Still, Removing, Ends, fieldVars, headerVars
  <2>2. Inserting(pos, bound)'
    BY <1>1 DEF Inserting, UpdateMostRight, Adding
  <2>3. Deleting(pos, bound)'
    BY <1>1 DEF Deleting, UpdateMostRight, Removing
  <2>4. Iterating(pos, bound)'
    BY <1>1 DEF Placed, Iterating, UpdateMostRight, fieldVars, headerVars
  <2> QED
    BY <2>1, <2>2, <2>3, <2>4 DEF Placed
<1> QED
  BY <1>5, <1>6, <1>7 DEF TreeInv

LEMMA InvGetIterator == ASSUME TreeInv, GetIterator PROVE TreeInv'
<1>1. PICK top \in Item \cup {NoNode}, pos \in Positions, bound \in Bounds :
         Sound(top, pos, bound) /\ Placed(top, pos, bound)
  BY DEF TreeInv
<1>2. TreeTypeOK
  BY DEF TreeInv
<1>3. Branches(top, pos, bound)
  BY <1>1, <1>2, BranchesOK
<1>4. /\ NoNode \notin items
      /\ \A n \in items : /\ n \in Item /\ n # NoNode /\ pos[n] \in Int /\ KeyOf(n) \in Int
                          /\ bound["left"][n] \in Int /\ bound["right"][n] \in Int
  BY <1>2, Numbers
<1>5. TreeTypeOK'
  <2>1. least \in items \cup {NoNode}
    BY <1>1 DEF GetIterator, Placed, Header, Still, Ends
  <2> QED
    BY <2>1, <1>2 DEF TreeTypeOK, GetIterator, fieldVars, headerVars
<1>6. Sound(top, pos, bound)'
  BY <1>1, SoundKept DEF GetIterator, Working, Adding, Removing
<1>7. Placed(top, pos, bound)'
  <2>1. Header(top, bound)'
    BY <1>1 DEF Placed, Header, GetIterator, Still, Removing, Ends, fieldVars, headerVars
  <2>2. Inserting(pos, bound)'
    BY <1>1 DEF Inserting, GetIterator, Adding
  <2>3. Deleting(pos, bound)'
    BY <1>1 DEF Deleting, GetIterator, Removing
  <2>4. Iterating(pos, bound)'
    <3>1. given = {}
      BY <1>1 DEF GetIterator, Placed, Iterating
    <3>2. IF items = {} THEN least = NoNode ELSE Ends("left", least, top, bound)
      BY <1>1 DEF GetIterator, Placed, Header, Still
    <3>3. CASE items = {}
      <4>1. root = NoNode /\ NoNode \notin Item /\ NoNode # Garbage
        BY <3>3, <1>2, TreeAssumption DEF TreeTypeOK
      <4> QED
        BY <4>1, <3>1, <3>2, <3>3 DEF Iterating, GetIterator, fieldVars, headerVars
    <3>4. CASE items # {}
      <4>1. least \in items /\ bound["left"][least] = bound["left"][top]
            /\ child["left"][least] = NoNode
        BY <3>2, <3>4 DEF Ends
      <4>2. ASSUME NEW m \in items PROVE ~(pos[m] < pos[least])
        <5>1. bound["left"][top] < pos[m]
              /\ ~(Lies("left", bound["left"][least], pos[m]) /\ Lies("left", pos[m], pos[least]))
          BY <4>1, <1>1 DEF Sound, Shape, Filled, Sides
        <5> QED
          BY <5>1, <4>1 DEF Lies
      <4>3. given = {m \in items : pos[m] < pos[least]}
        BY <4>2, <3>1
      <4> QED
        BY <4>1, <4>3, <1>4 DEF Iterating, GetIterator, fieldVars, headerVars
    <3> QED
      BY <3>3, <3>4
  <2> QED
    BY <2>1, <2>2, <2>3, <2>4 DEF Placed
<1> QED
  BY <1>5, <1>6, <1>7 DEF TreeInv

LEMMA InvLeftmost == ASSUME TreeInv, Leftmost PROVE TreeInv'
<1>1. PICK top \in Item \cup {NoNode}, pos \in Positions, bound \in Bounds :
         Sound(top, pos, bound) /\ Placed(top, pos, bound)
  BY DEF TreeInv
<1>2. TreeTypeOK
  BY DEF TreeInv
<1>3. Branches(top, pos, bound)
  BY <1>1, <1>2, BranchesOK
<1>4. /\ NoNode \notin items
      /\ \A n \in items : /\ n \in Item /\ n # NoNode /\ pos[n] \in Int /\ KeyOf(n) \in Int
                          /\ bound["left"][n] \in Int /\ bound["right"][n] \in Int
  BY <1>2, Numbers
<1>8. /\ at \in items /\ given = {m \in items : pos[m] <= bound["left"][at]}
      /\ child["left"][at] # NoNode =>
            child["left"][at] \in items /\ bound["left"][child["left"][at]] = bound["left"][at]
  BY <1>1, <1>2, <1>3 DEF Leftmost, Placed, Iterating, TreeTypeOK, Branches, Below, Sides
<1>5. TreeTypeOK'
  BY <1>2, <1>8 DEF TreeTypeOK, Leftmost, fieldVars, headerVars
<1>6. Sound(top, pos, bound)'
  BY <1>1, SoundKept DEF Leftmost, Working, Adding, Removing
<1>7. Placed(top, pos, bound)'
  <2>1. Header(top, bound)'
    BY <1>1 DEF Placed, Header, Leftmost, Still, Removing, Ends, fieldVars, headerVars
  <2>2. Inserting(pos, bound)'
    BY <1>1 DEF Inserting, Leftmost, Adding
  <2>3. Deleting(pos, bound)'
    BY <1>1 DEF Deleting, Leftmost, Removing
  <2>4. Iterating(pos, bound)'
    <3>1. CASE child["left"][at] # NoNode
      <4>1. /\ step' = "leftmost" /\ at' = child["left"][at] /\ at' # NoNode
            /\ bound["left"][at'] = bound["left"][at]
        BY <3>1, <1>8 DEF Leftmost
      <4> QED
        BY <4>1, <1>8 DEF Leftmost, Iterating, fieldVars, headerVars
    <3>2. CASE child["left"][at] = NoNode
      <4>1. ASSUME NEW m \in items PROVE pos[m] <= bound["left"][at] <=> pos[m] < pos[at]
        <5>1. /\ bound["left"][at] < pos[at]
              /\ ~(Lies("left", bound["left"][at], pos[m]) /\ Lies("left", pos[m], pos[at]))
          BY <3>2, <1>1, <1>3, <1>8 DEF Sound, Shape, Filled, Sides, Branches
        <5> QED
          BY <5>1, <1>4, <1>8 DEF Lies
      <4>2. given = {m \in items : pos[m] < pos[at]}
        BY <4>1, <1>8
      <4> QED
        BY <3>2, <4>2, <1>4, <1>8 DEF Leftmost, Iterating, fieldVars, headerVars
    <3> QED
      BY <3>1, <3>2
  <2> QED
    BY <2>1, <2>2, <2>3, <2>4 DEF Placed
<1> QED
  BY <1>5, <1>6, <1>7 DEF TreeInv

LEMMA InvClimb == ASSUME TreeInv, Climb PROVE TreeInv'
<1>1. PICK top \in Item \cup {NoNode}, pos \in Positions, bound \in Bounds :
         Sound(top, pos, bound) /\ Placed(top, pos, bound)
  BY DEF TreeInv
<1>2. TreeTypeOK
  BY DEF TreeInv
<1>3. Branches(top, pos, bound)
  BY <1>1, <1>2, BranchesOK
<1>4. /\ NoNode \notin items
      /\ \A n \in items : /\ n \in Item /\ n # NoNode /\ pos[n] \in Int /\ KeyOf(n) \in Int
                          /\ bound["left"][n] \in Int /\ bound["right"][n] \in Int
  BY <1>2, Numbers
<1>8. /\ at \in items /\ given = {m \in items : pos[m] < bound["right"][at]}
      /\ child["right"][at] # NoNode
  BY <1>1, <1>2 DEF Climb, Placed, Iterating, TreeTypeOK
<1>9. parent[at] \in items \cup {NoNode}
  BY <1>1, <1>8 DEF Sound, Shape, Wired
<1>5. TreeTypeOK'
  BY <1>2, <1>8, <1>9 DEF TreeTypeOK, Climb, fieldVars, headerVars
<1>6. Sound(top, pos, bound)'
  BY <1>1, SoundKept DEF Climb, Working, Adding, Removing
<1>7. Placed(top, pos, bound)'
  <2>1. Header(top, bound)'
    BY <1>1 DEF Placed, Header, Climb, Still, Removing, Ends, fieldVars, headerVars
  <2>2. Inserting(pos, bound)'
    BY <1>1 DEF Inserting, Climb, Adding
  <2>3. Deleting(pos, bound)'
    BY <1>1 DEF Deleting, Climb, Removing
  <2>4. Iterating(pos, bound)'
    <3>1. CASE at = top
      <4>1. parent[at] = NoNode /\ root = top /\ \A m \in items : pos[m] < bound["right"][top]
        BY <3>1, <1>1, <1>8 DEF Climb, Sound, Shape, Wired, Filled, Placed, Header, Still
      <4>2. given = items
        BY <4>1, <3>1, <1>8
      <4>3. NoNode \notin Item /\ NoNode # Garbage
        BY TreeAssumption
      <4> QED
        BY <3>1, <4>1, <4>2, <4>3, <1>8 DEF Climb, Iterating, fieldVars, headerVars
    <3>2. CASE at # top
      <4>1. PICK d \in Sides : parent[at] \in items /\ child[d][parent[at]] = at
        BY <3>2, <1>1, <1>8 DEF Sound, Shape, Wired
      <4>2. /\ bound[d][at] = bound[d][parent[at]] /\ bound[Other(d)][at] = pos[parent[at]]
            /\ at # NoNode /\ child[Other(d)][parent[at]] # at
        BY <4>1, <1>3, <1>4, <1>8 DEF Branches, Below
      <4>3. CASE d = "right"
        BY <4>1, <4>2, <4>3, <1>4, <1>8 DEF Climb, Iterating, fieldVars, headerVars
      <4>4. CASE d = "left"
        BY <4>1, <4>2, <4>4, <1>4, <1>8 DEF Climb, Iterating, Other, fieldVars, headerVars
      <4> QED
        BY <4>3, <4>4 DEF Sides
    <3> QED
      BY <3>1, <3>2
  <2> QED
    BY <2>1, <2>2, <2>3, <2>4 DEF Placed
<1> QED
  BY <1>5, <1>6, <1>7 DEF TreeInv

LEMMA InvIteratorEnds == ASSUME TreeInv, IteratorEnds PROVE TreeInv'
<1>1. PICK top \in Item \cup {NoNode}, pos \in Positions, bound \in Bounds :
         Sound(top, pos, bound) /\ Placed(top, pos, bound)
  BY DEF TreeInv
<1>2. TreeTypeOK
  BY DEF TreeInv
<1>3. Branches(top, pos, bound)
  BY <1>1, <1>2, BranchesOK
<1>4. /\ NoNode \notin items
      /\ \A n \in items : /\ n \in Item /\ n # NoNode /\ pos[n] \in Int /\ KeyOf(n) \in Int
                          /\ bound["left"][n] \in Int /\ bound["right"][n] \in Int
  BY <1>2, Numbers
<1>5. TreeTypeOK'
  BY <1>2 DEF TreeTypeOK, IteratorEnds, fieldVars, headerVars
<1>6. Sound(top, pos, bound)'
  BY <1>1, SoundKept DEF IteratorEnds, Working, Adding, Removing
<1>7. Placed(top, pos, bound)'
  <2>1. Header(top, bound)'
    BY <1>1 DEF Placed, Header, IteratorEnds, Still, Removing, Ends, fieldVars, headerVars
  <2>2. Inserting(pos, bound)'
    BY <1>1 DEF Inserting, IteratorEnds, Adding
  <2>3. Deleting(pos, bound)'
    BY <1>1 DEF Deleting, IteratorEnds, Removing
  <2>4. Iterating(pos, bound)'
    BY <1>1 DEF Placed, Iterating, IteratorEnds, fieldVars, headerVars
  <2> QED
    BY <2>1, <2>2, <2>3, <2>4 DEF Placed
<1> QED
  BY <1>5, <1>6, <1>7 DEF TreeInv

\* The next item is right of the current one, or above where it is on the left.
LEMMA InvNextItem == ASSUME TreeInv, NextItem PROVE TreeInv'
<1>1. PICK top \in Item \cup {NoNode}, pos \in Positions, bound \in Bounds :
         Sound(top, pos, bound) /\ Placed(top, pos, bound)
  BY DEF TreeInv
<1>2. TreeTypeOK
  BY DEF TreeInv
<1>3. Branches(top, pos, bound)
  BY <1>1, <1>2, BranchesOK
<1>4. /\ NoNode \notin items
      /\ \A n \in items : /\ n \in Item /\ n # NoNode /\ pos[n] \in Int /\ KeyOf(n) \in Int
                          /\ bound["left"][n] \in Int /\ bound["right"][n] \in Int
  BY <1>2, Numbers
<1>8. node \in items /\ given = {m \in items : pos[m] < pos[node]}
  BY <1>1, <1>2 DEF NextItem, Placed, Iterating, TreeTypeOK
<1>9. /\ child["right"][node] \in items \cup {NoNode}
      /\ parent[node] \in items \cup {NoNode} /\ parent[node] \in Item \cup {NoNode}
  BY <1>1, <1>2, <1>3, <1>8 DEF Sound, Shape, Wired, Branches, Below, Sides, TreeTypeOK
<1>5. TreeTypeOK'
  <2>1. given' \in SUBSET items
    BY <1>2, <1>8 DEF TreeTypeOK, NextItem
  <2>2. node' \in Item \cup {NoNode, Garbage} /\ at' \in items \cup {NoNode}
    BY <1>2, <1>8, <1>9 DEF TreeTypeOK, NextItem, fieldVars, headerVars
  <2> QED
    BY <2>1, <2>2, <1>2 DEF TreeTypeOK, NextItem, fieldVars, headerVars
<1>6. Sound(top, pos, bound)'
  BY <1>1, SoundKept DEF NextItem, Working, Adding, Removing
<1>7. Placed(top, pos, bound)'
  <2>1. Header(top, bound)'
    BY <1>1 DEF Placed, Header, NextItem, Still, Removing, Ends, fieldVars, headerVars
  <2>2. Inserting(pos, bound)'
    BY <1>1 DEF Inserting, NextItem, Adding
  <2>3. Deleting(pos, bound)'
    BY <1>1 DEF Deleting, NextItem, Removing
  <2>4. Iterating(pos, bound)'
    <3>1. given' = {m \in items : pos[m] <= pos[node]}
      <4>1. \A m \in items : pos[m] <= pos[node] <=> pos[m] < pos[node] \/ m = node
        BY <1>1, <1>4, <1>8 DEF Sound, Shape, Ranged
      <4> QED
        BY <4>1, <1>8 DEF NextItem
    <3>2. CASE child["right"][node] # NoNode
      <4>1. step' = "leftmost" /\ at' = child["right"][node] /\ at' # NoNode
            /\ bound["left"][at'] = pos[node]
        BY <3>2, <1>3, <1>8 DEF NextItem, Branches, Below, Sides, Other
      <4> QED
        BY <4>1, <3>1 DEF Iterating, fieldVars, headerVars, NextItem
    <3>3. CASE child["right"][node] = NoNode
      <4>0. ASSUME NEW m \in items PROVE pos[m] <= pos[node] <=> pos[m] < bound["right"][node]
        <5>1. /\ pos[node] < bound["right"][node]
              /\ ~(Lies("right", bound["right"][node], pos[m]) /\ Lies("right", pos[m], pos[node]))
          BY <3>3, <1>1, <1>3, <1>8 DEF Sound, Shape, Filled, Sides, Branches
        <5> QED
          BY <5>1, <1>4, <1>8 DEF Lies
      <4>1. given' = {m \in items : pos[m] < bound["right"][node]}
        BY <3>1, <4>0
      <4>2. CASE node = top
        <5>1. /\ parent[node] = NoNode /\ root = top
              /\ \A m \in items : pos[m] < bound["right"][top]
          BY <4>2, <1>1, <1>8 DEF NextItem, Sound, Shape, Wired, Filled, Placed, Header, Still
        <5>2. given' = items
          BY <4>1, <4>2, <5>1
        <5>3. Garbage \notin Item /\ root # NoNode /\ child["right"][root] = NoNode
          BY <3>3, <4>2, <5>1, <1>4, <1>8, TreeAssumption
        <5>4. step' = "next" /\ node' = Garbage
          BY <3>3, <5>1 DEF NextItem
        <5> QED
          BY <5>2, <5>3, <5>4 DEF Iterating, NextItem, fieldVars, headerVars
      <4>3. CASE node # top
        <5>1. PICK d \in Sides : parent[node] \in items /\ child[d][parent[node]] = node
          BY <4>3, <1>1, <1>8 DEF Sound, Shape, Wired
        <5>2. /\ bound[d][node] = bound[d][parent[node]]
              /\ bound[Other(d)][node] = pos[parent[node]]
              /\ node # NoNode /\ child[Other(d)][parent[node]] # node
              /\ parent[node] # NoNode /\ parent[node] \in Item
          BY <5>1, <1>3, <1>4, <1>8 DEF Branches, Below
        <5>3. CASE d = "right"
          <6>1. step' = "climb" /\ at' = parent[node]
            BY <3>3, <5>1, <5>2, <5>3 DEF NextItem, Other
          <6> QED
            BY <6>1, <4>1, <5>1, <5>2, <5>3 DEF Iterating, NextItem, fieldVars, headerVars
        <5>4. CASE d = "left"
          <6>1. step' = "next" /\ node' = parent[node]
            BY <3>3, <5>1, <5>2, <5>4 DEF NextItem, Other
          <6> QED
            BY <6>1, <4>1, <5>1, <5>2, <5>4 DEF Iterating, NextItem, Other, fieldVars, headerVars
        <5> QED
          BY <5>3, <5>4 DEF Sides
      <4> QED
        BY <4>2, <4>3
    <3> QED
      BY <3>2, <3>3
  <2> QED
    BY <2>1, <2>2, <2>3, <2>4 DEF Placed
<1> QED
  BY <1>5, <1>6, <1>7 DEF TreeInv

\* At the root, all ways down have become shorter: the tree is level.
LEMMA InvShorterTree == ASSUME TreeInv, ShorterTree PROVE TreeInv'
<1>1. PICK top \in Item \cup {NoNode}, pos \in Positions, bound \in Bounds :
         Sound(top, pos, bound) /\ Placed(top, pos, bound)
  BY DEF TreeInv
<1>2. TreeTypeOK
  BY DEF TreeInv
<1>4. NoNode \notin items
  BY <1>2, TreeAssumption DEF TreeTypeOK
<1>5. TreeTypeOK'
  BY <1>2 DEF TreeTypeOK, ShorterTree, Balanced, fieldVars, headerVars
<1>6. Sound(top, pos, bound)'
  <2>1. Low = NoNode /\ Low' = NoNode
    BY DEF Low, ShorterTree, Balanced, Removing
  <2>2. Level(child, color, items, NoNode, LowSide)
    BY <1>1, <2>1 DEF Sound
  <2>3. Level(child, color, items, NoNode, LowSide)'
    BY <2>2, <1>4 DEF Even, Level, ShorterTree, fieldVars, headerVars
  <2>4. Unordered = {} /\ Unordered' = {} /\ Spared = NoNode /\ Spared' = NoNode
    BY DEF Unordered, Spared, ShorterTree, Balanced, Adding
  <2> QED
    BY <1>1, <2>1, <2>3, <2>4 DEF Sound, ShorterTree, fieldVars, headerVars
<1>7. Placed(top, pos, bound)'
  <2>1. Header(top, bound)'
    BY <1>1 DEF Placed, Header, ShorterTree, Balanced, Still, Removing, fieldVars, headerVars
  <2>2. Inserting(pos, bound)'
    BY DEF Inserting, ShorterTree, Balanced, Adding
  <2>3. Deleting(pos, bound)'
    BY DEF Deleting, ShorterTree, Balanced, Removing
  <2>4. Iterating(pos, bound)'
    BY <1>1 DEF Placed, Iterating, ShorterTree, Balanced, fieldVars, headerVars
  <2> QED
    BY <2>1, <2>2, <2>3, <2>4 DEF Placed
<1> QED
  BY <1>5, <1>6, <1>7 DEF TreeInv

------------------------------------------------------------------------------
(* The steps of Insert                                                      *)

\* The first node is the root.
LEMMA LinkFirst == ASSUME TreeInv, LinkNode, at = NoNode PROVE TreeInv'
<1>1. PICK top \in Item \cup {NoNode}, pos \in Positions, bound \in Bounds :
         Sound(top, pos, bound) /\ Placed(top, pos, bound)
  BY DEF TreeInv
<1>2. TreeTypeOK
  BY DEF TreeInv
<1>3. /\ items = {} /\ node \in Item /\ node # NoNode /\ dead = NoNode /\ given = {}
  BY <1>1, TreeAssumption DEF Placed, Header, Inserting, Iterating, LinkNode, Removing
<1>4. /\ items' = {node} /\ root' = node /\ node' = node /\ at' = NoNode /\ dead' = dead
      /\ given' = given /\ child' = child /\ parent' = parent /\ color' = color
      /\ step' = "adjust"
  BY <1>3 DEF LinkNode
<1>5. TreeTypeOK'
  BY <1>2, <1>3, <1>4 DEF TreeTypeOK
<1>6. /\ parent[node] = NoNode /\ color[node] = "RED" /\ \A d \in Sides : child[d][node] = NoNode
      /\ Blanks(child, parent, color, items, NoNode)
  BY <1>1, <1>3 DEF Sound, Blanks
<1> DEFINE pos2 == [n \in Item |-> 0]
           bound2 == [d \in Sides |-> [n \in Item |-> IF d = "left" THEN 0 - 1 ELSE 1]]
           bh2 == [n \in Item |-> 1]
<1>7. /\ pos2 \in Positions /\ bound2 \in Bounds /\ bh2 \in Heights
      /\ pos2[node] = 0 /\ bound2["left"][node] = 0 - 1 /\ bound2["right"][node] = 1
      /\ bh2[node] = 1
  BY <1>3 DEF Positions, Bounds, Heights, Sides
<1> HIDE DEF pos2, bound2, bh2
<1>n. PICK n : n = node
  OBVIOUS
<1>8. Sound(n, pos2, bound2)'
  <2>1. Shape(child, parent, {node}, node, pos2, bound2)
    BY <1>3, <1>6, <1>7 DEF Shape, Wired, Ranged, Filled, Lies, Sides
  <2>2. KeysGrow({node}, pos2)
    BY <1>7 DEF KeysGrow
  <2>3. Blanks(child, parent, color, {node}, NoNode)
    BY <1>3, <1>6 DEF Blanks
  <2>4. Reds(parent, color, {node}, node)
    BY DEF Reds
  <2>5. Level(child, color, {node}, NoNode, "left")
    BY <1>3, <1>6, <1>7 DEF Even, Level, Height, Ink
  <2>6. Spared' = node /\ Low' = NoNode /\ LowSide' = "left" /\ Unordered' = {}
    BY <1>4 DEF Spared, Low, LowSide, Unordered, Adding, Removing
  <2>7. {node} \ {} = {node}
    OBVIOUS
  <2> QED
    BY <1>n, <1>3, <1>4, <2>1, <2>2, <2>3, <2>4, <2>5, <2>6, <2>7 DEF Sound
<1>9. Placed(n, pos2, bound2)'
  BY <1>n, <1>3, <1>4, <1>6 DEF Placed, Header, Inserting, Deleting, Iterating, Still, Adding, Removing
<1> QED
  BY <1>n, <1>3, <1>5, <1>7, <1>8, <1>9 DEF TreeInv

\* Any other gets the place between the bounds that the walk has found; every
\* position is doubled to make room for it.
LEMMA LinkLater == ASSUME TreeInv, LinkNode, at # NoNode PROVE TreeInv'
<1>1. PICK top \in Item \cup {NoNode}, pos \in Positions, bound \in Bounds :
         Sound(top, pos, bound) /\ Placed(top, pos, bound)
  BY DEF TreeInv
<1>2. TreeTypeOK
  BY DEF TreeInv
<1>3. /\ at \in items /\ node \in Item /\ node \notin items /\ node # NoNode /\ dead = NoNode
      /\ given = {} /\ at # node /\ at \in Item
  BY <1>1, <1>2, TreeAssumption
  DEF TreeTypeOK, Placed, Header, Inserting, Iterating, LinkNode, Removing
<1>4. PICK side \in Sides : side = IF KeyOf(at) > KeyOf(node) THEN "left" ELSE "right"
  BY DEF Sides
<1>5. /\ items' = items \cup {node} /\ root' = root /\ node' = node /\ at' = NoNode
      /\ dead' = dead /\ given' = given /\ color' = color /\ step' = "adjust"
      /\ child[side][at] = NoNode /\ child' = Put(child, side, at, node)
      /\ parent' = [parent EXCEPT ![node] = at]
  BY <1>4 DEF LinkNode, Put
<1>6. IsPut(child, side, at, node, child')
  BY <1>2, <1>3, <1>5, PutLink DEF TreeTypeOK
<1>7. /\ child' \in Links
      /\ \A d \in Sides, m \in Item :
            child'[d][m] = IF d = side /\ m = at THEN node ELSE child[d][m]
  BY <1>6 DEF IsPut
<1>8. parent' \in Parents /\ \A m \in Item : parent'[m] = IF m = node THEN at ELSE parent[m]
  BY <1>2, <1>3, <1>5 DEF Parents, TreeTypeOK
<1>9. TreeTypeOK'
  BY <1>2, <1>3, <1>5, <1>7, <1>8 DEF TreeTypeOK
<1>10. /\ parent[node] = NoNode /\ color[node] = "RED" /\ \A d \in Sides : child[d][node] = NoNode
       /\ Blanks(child, parent, color, items, NoNode)
  BY <1>1, <1>3 DEF Sound, Blanks
<1>11. Below(child, parent, items, top, pos, bound)
  BY <1>1, <1>2, BranchesOK DEF Branches
<1>12. Ordered(child', parent', items \cup {node}, top)
  <2>1. /\ Shape(child, parent, items, top, pos, bound) /\ KeysGrow(items, pos)
        /\ Fits(items, pos, bound, at, node)
    BY <1>1, <1>3 DEF Sound, Placed, Inserting, LinkNode, KeysGrow, Unordered, Fits
  <2>3. IsSet(parent, node, at, parent')
    BY <1>8 DEF IsSet
  <2>2. items \in SUBSET Item /\ child \in Links /\ parent \in Parents
    BY <1>2 DEF TreeTypeOK
  <2> HIDE DEF LinkNode, TreeInv
  <2> QED
    BY <2>1, <2>2, <2>3, <1>3, <1>4, <1>5, <1>6, <1>10, LinkShape
<1> PICK pos2 \in Positions, b2 \in Bounds :
          /\ Shape(child', parent', items \cup {node}, top, pos2, b2)
          /\ KeysGrow(items \cup {node}, pos2)
  BY <1>12 DEF Ordered
<1> PICK bh \in Heights : Even(child, color, items, bh, NoNode, "left")
  BY <1>1 DEF Sound, Low, LowSide, LinkNode, Removing, Level
<1>13. PICK bh2 \in Heights : \A m \in Item : bh2[m] = IF m = node THEN 1 ELSE bh[m]
  <2>1. [m \in Item |-> IF m = node THEN 1 ELSE bh[m]] \in Heights
    BY DEF Heights
  <2> QED
    BY <2>1
<1>14. Level(child', color, items \cup {node}, NoNode, "left")
  <2>1. Even(child, color, items, bh, NoNode, "left")
    OBVIOUS
  <2>2. ASSUME NEW m \in items \cup {node}
        PROVE  /\ bh2[m] >= 1
               /\ \A d \in Sides : Height(bh2, child'[d][m]) = bh2[m] - Ink(color, m) - 0
    <3>1. CASE m = node
      BY <3>1, <1>3, <1>7, <1>10, <1>13 DEF Height, Ink
    <3>2. CASE m \in items
      <4>1. /\ m # node /\ m # NoNode /\ m \in Item /\ bh2[m] = bh[m] /\ bh[m] >= 1
            /\ \A d \in Sides : Height(bh, child[d][m]) = bh[m] - Ink(color, m) - 0
        BY <3>2, <2>1, <1>2, <1>3, <1>13, TreeAssumption DEF Even, TreeTypeOK
      <4>2. ASSUME NEW d \in Sides PROVE Height(bh2, child'[d][m]) = Height(bh, child[d][m])
        <5>1. child[d][m] # NoNode => child[d][m] \in items /\ child[d][m] \in Item
          BY <3>2, <1>2, <1>11 DEF Below, TreeTypeOK
        <5> QED
          BY <5>1, <4>1, <1>3, <1>5, <1>7, <1>13 DEF Height
      <4> QED
        BY <4>1, <4>2
    <3> QED
      BY <3>1, <3>2
  <2>3. NoNode \notin items \cup {node}
    BY <1>2, <1>3, TreeAssumption DEF TreeTypeOK
  <2> QED
    BY <2>2, <2>3, <1>13 DEF Even, Level
<1>15. Reds(parent', color, items \cup {node}, node)
  <2>1. Reds(parent, color, items, NoNode)
    BY <1>1 DEF Sound, Spared, LinkNode, Adding
  <2>2. \A m \in items : m \in Item /\ m # NoNode
    BY <1>2, TreeAssumption DEF TreeTypeOK
  <2> QED
    BY <2>1, <2>2, <1>8 DEF Reds
<1>16. Blanks(child', parent', color, items \cup {node}, NoNode)
  BY <1>3, <1>7, <1>8, <1>10 DEF Blanks
<1>17. Sound(top, pos2, b2)'
  <2>1. Spared' = node /\ Low' = NoNode /\ LowSide' = "left" /\ Unordered' = {}
    BY <1>5 DEF Spared, Low, LowSide, Unordered, Adding, Removing
  <2>2. (items \cup {node}) \ {} = items \cup {node}
    OBVIOUS
  <2> QED
    BY <1>3, <1>5, <1>12, <1>14, <1>15, <1>16, <2>1, <2>2 DEF Sound
<1>18. Placed(top, pos2, b2)'
  BY <1>3, <1>5, <1>10 DEF Placed, Header, Inserting, Deleting, Iterating, Still, Adding, Removing
<1> QED
  BY <1>9, <1>17, <1>18 DEF TreeInv

\* The two cases of LinkNode.
LEMMA InvLinkNode == ASSUME TreeInv, LinkNode PROVE TreeInv'
BY LinkFirst, LinkLater

\* A red root may turn black.
LEMMA BlackTop ==
    ASSUME NEW S \in SUBSET Item, NEW c \in Links, NEW par \in Parents, NEW top,
           NEW pos \in Positions, NEW bound \in Bounds, Shape(c, par, S, top, pos, bound),
           top \in S, NEW col \in Colors, col[top] = "RED",
           NEW col2 \in Colors, Blackened(col, top, col2),
           NEW e \in Sides, Level(c, col, S, NoNode, e)
    PROVE  Level(c, col2, S, NoNode, e)
<1> PICK bh \in Heights : Even(c, col, S, bh, NoNode, e)
  BY DEF Level
<1> DEFINE bh2 == [m \in Item |-> IF m = top THEN bh[m] + 1 ELSE bh[m]]
<1>1. bh2 \in Heights /\ \A m \in Item : bh2[m] = IF m = top THEN bh[m] + 1 ELSE bh[m]
  BY DEF Heights
<1> HIDE DEF bh2
<1>2. Below(c, par, S, top, pos, bound)
  BY ChildFacts
<1>3. ASSUME NEW m \in S
      PROVE  /\ bh2[m] >= 1
             /\ \A d \in Sides : Height(bh2, c[d][m]) = bh2[m] - Ink(col2, m)
                                     - (IF m = NoNode /\ d = e THEN 1 ELSE 0)
  <2>1. /\ m \in Item /\ m # NoNode /\ bh[m] \in Int /\ bh[m] >= 1
        /\ \A d \in Sides : Height(bh, c[d][m]) = bh[m] - Ink(col, m) - 0
    BY TreeAssumption DEF Even, Heights
  <2>2. \A d \in Sides : Height(bh2, c[d][m]) = Height(bh, c[d][m])
    BY <1>1, <1>2 DEF Height, Below
  <2>3. bh2[m] >= 1 /\ bh2[m] - Ink(col2, m) = bh[m] - Ink(col, m)
    BY <2>1, <1>1 DEF Ink, Blackened
  <2>4. bh2[m] \in Int /\ Ink(col, m) \in {0, 1} /\ Ink(col2, m) \in {0, 1}
    BY <1>1, <2>1 DEF Ink, Heights
  <2> QED
    BY <2>1, <2>2, <2>3, <2>4
<1> QED
  BY <1>1, <1>3 DEF Even, Level

\* The colour of a black node passes to its two red children.
Passed(col, g, p, u, col2) ==
    \A m \in Item : col2[m] = IF m = g THEN "RED"
                              ELSE IF m = p \/ m = u THEN "BLACK" ELSE col[m]

\* That keeps the heights.
LEMMA PassEven ==
    ASSUME NEW S \in SUBSET Item, NEW c \in Links, NEW par \in Parents, NEW top,
           NEW pos \in Positions, NEW bound \in Bounds, Shape(c, par, S, top, pos, bound),
           NEW g \in S, NEW d \in Sides, NEW p, p = c[d][g], NEW u, u = c[Other(d)][g],
           p # NoNode, u # NoNode,
           NEW col \in Colors, col[g] = "BLACK", col[p] = "RED", col[u] = "RED",
           NEW col2 \in Colors, Passed(col, g, p, u, col2),
           NEW e \in Sides, Level(c, col, S, NoNode, e)
    PROVE  Level(c, col2, S, NoNode, e)
<1> PICK bh \in Heights : Even(c, col, S, bh, NoNode, e)
  BY DEF Level
<1> DEFINE bh2 == [m \in Item |-> IF m = p \/ m = u THEN bh[m] + 1 ELSE bh[m]]
<1>1. bh2 \in Heights /\ \A m \in Item : bh2[m] = IF m = p \/ m = u THEN bh[m] + 1 ELSE bh[m]
  BY DEF Heights
<1> HIDE DEF bh2
<1>2. Below(c, par, S, top, pos, bound)
  BY ChildFacts
<1>o. Other(d) \in Sides /\ \A b \in Sides : b = d \/ b = Other(d)
  BY DEF Sides, Other
<1>3. /\ p \in S /\ u \in S /\ p # g /\ u # g /\ p # u /\ par[p] = g /\ par[u] = g
  BY <1>2, <1>o DEF Below
<1>4. ASSUME NEW m \in S
      PROVE  /\ bh2[m] >= 1
             /\ \A b \in Sides : Height(bh2, c[b][m]) = bh2[m] - Ink(col2, m)
                                     - (IF m = NoNode /\ b = e THEN 1 ELSE 0)
  <2>1. /\ m \in Item /\ m # NoNode /\ bh[m] \in Int /\ bh[m] >= 1
        /\ \A b \in Sides : Height(bh, c[b][m]) = bh[m] - Ink(col, m) - 0
    BY TreeAssumption DEF Even, Heights
  <2>2. CASE m = g
    <3>1. Ink(col, m) = 1 /\ Ink(col2, m) = 0 /\ bh2[m] = bh[m]
      BY <2>1, <2>2, <1>1, <1>3 DEF Ink, Passed
    <3>2. ASSUME NEW b \in Sides PROVE Height(bh2, c[b][m]) = Height(bh, c[b][m]) + 1
      BY <2>2, <1>1, <1>3, <1>o DEF Height
    <3> QED
      BY <2>1, <3>1, <3>2
  <2>3. CASE m # g
    <3>1. bh2[m] >= 1 /\ bh2[m] - Ink(col2, m) = bh[m] - Ink(col, m)
      BY <2>1, <2>3, <1>1 DEF Ink, Passed
    <3>2. \A b \in Sides : Height(bh2, c[b][m]) = Height(bh, c[b][m])
      BY <2>3, <1>1, <1>2, <1>3 DEF Height, Below
    <3>3. bh2[m] \in Int /\ Ink(col, m) \in {0, 1} /\ Ink(col2, m) \in {0, 1}
      BY <1>1, <2>1 DEF Ink, Heights
    <3> QED
      BY <2>1, <3>1, <3>2, <3>3
  <2> QED
    BY <2>2, <2>3
<1> QED
  BY <1>1, <1>4 DEF Even, Level

\* The sibling of a subtree that lost a black node.
LEMMA SiblingThere ==
    ASSUME NEW S \in SUBSET Item, NEW c \in Links, NEW par \in Parents, NEW top,
           NEW pos \in Positions, NEW bound \in Bounds, Shape(c, par, S, top, pos, bound),
           NEW col \in Colors, NEW n \in S, NEW e \in Sides, Level(c, col, S, n, e)
    PROVE  c[Other(e)][n] # NoNode
<1> PICK bh \in Heights : Even(c, col, S, bh, n, e)
  BY DEF Level
<1>1. Below(c, par, S, top, pos, bound)
  BY ChildFacts
<1>2. Other(e) \in Sides /\ Other(e) # e
  BY DEF Sides, Other
<1>3. /\ Height(bh, c[e][n]) = bh[n] - Ink(col, n) - 1
      /\ Height(bh, c[Other(e)][n]) = bh[n] - Ink(col, n) - 0
  BY <1>2 DEF Even
<1>4. Height(bh, c[e][n]) >= 1 /\ Height(bh, c[e][n]) \in Int /\ bh[n] \in Int
      /\ Ink(col, n) \in {0, 1}
  BY <1>1 DEF Height, Even, Below, Heights, Ink
<1> QED
  BY <1>3, <1>4 DEF Height

\* Where a side of n lacks a black node, its black sibling turns red, and n black.
Faded(col, n, s, col2) ==
    \A m \in Item : col2[m] = IF m = s THEN "RED" ELSE IF m = n THEN "BLACK" ELSE col[m]

\* Then all below n is level, and n is one black node short if it was black itself.
LEMMA FadeEven ==
    ASSUME NEW S \in SUBSET Item, NEW c \in Links, NEW par \in Parents, NEW top,
           NEW pos \in Positions, NEW bound \in Bounds, Shape(c, par, S, top, pos, bound),
           NEW n \in S, NEW e \in Sides, NEW s, s = c[Other(e)][n], s # NoNode,
           NEW col \in Colors, col[s] = "BLACK",
           NEW col2 \in Colors, Faded(col, n, s, col2),
           Level(c, col, S, n, e),
           NEW low, low = IF col[n] = "BLACK" THEN par[n] ELSE NoNode,
           NEW e2 \in Sides, low # NoNode => c[e2][low] = n
    PROVE  Level(c, col2, S, low, e2)
<1> PICK bh \in Heights : Even(c, col, S, bh, n, e)
  BY DEF Level
<1> DEFINE bh2 == [m \in Item |-> IF m = s \/ (m = n /\ col[n] = "BLACK")
                                  THEN bh[m] - 1 ELSE bh[m]]
<1>1. /\ bh2 \in Heights
      /\ \A m \in Item : bh2[m] = IF m = s \/ (m = n /\ col[n] = "BLACK")
                                  THEN bh[m] - 1 ELSE bh[m]
  BY DEF Heights
<1> HIDE DEF bh2
<1>2. Below(c, par, S, top, pos, bound)
  BY ChildFacts
<1>o. Other(e) \in Sides /\ Other(e) # e /\ \A b \in Sides : b = e \/ b = Other(e)
  BY DEF Sides, Other
<1>3. /\ s \in S /\ s # n /\ par[s] = n /\ c[e][n] # s /\ s # par[n] /\ s \in Item /\ n \in Item
  BY <1>2, <1>o DEF Below
<1>n. \A m \in S : m \in Item /\ m # NoNode /\ bh[m] \in Int /\ bh[m] >= 1
  BY TreeAssumption DEF Even, Heights
<1>4. /\ Height(bh, c[e][n]) = bh[n] - Ink(col, n) - 1
      /\ Height(bh, s) = bh[n] - Ink(col, n) - 0
      /\ \A m \in S : m # n => \A b \in Sides : Height(bh, c[b][m]) = bh[m] - Ink(col, m) - 0
  BY <1>o DEF Even
<1>5. /\ bh[s] = bh[n] - Ink(col, n) /\ bh[s] >= 2
      /\ Height(bh, c[e][n]) = bh[s] - 1
  <2>1. Height(bh, c[e][n]) >= 1 /\ Height(bh, c[e][n]) \in Int
    BY <1>2, <1>n DEF Height, Below
  <2>2. Height(bh, s) = bh[s] /\ Ink(col, n) \in {0, 1}
    BY DEF Height, Ink
  <2> QED
    BY <1>4, <1>n, <2>1, <2>2
<1>6. col[n] = "BLACK" \/ col[n] = "RED"
  BY <1>3 DEF Colors
<1>7. low # NoNode => col[n] = "BLACK" /\ low = par[n]
  BY <1>6
<1>8. ASSUME NEW m \in S
      PROVE  /\ bh2[m] >= 1
             /\ \A b \in Sides : Height(bh2, c[b][m]) = bh2[m] - Ink(col2, m)
                                     - (IF m = low /\ b = e2 THEN 1 ELSE 0)
  <2>1. CASE m = n
    <3>1. Ink(col2, m) = 1 /\ bh2[m] = bh[s] /\ bh2[m] >= 1
      BY <2>1, <1>1, <1>3, <1>5, <1>6, <1>n DEF Ink, Faded
    <3>2. m # low
      BY <2>1, <1>7, <1>n, <1>2 DEF Below
    <3>3. Height(bh2, c[e][m]) = Height(bh, c[e][n]) /\ Height(bh2, s) = bh[s] - 1
      BY <2>1, <1>1, <1>2, <1>3 DEF Height, Below
    <3>4. ASSUME NEW b \in Sides PROVE Height(bh2, c[b][m]) = bh2[m] - 1
      <4>1. b = e \/ b = Other(e)
        BY <1>o
      <4>2. Height(bh2, c[Other(e)][m]) = bh[s] - 1
        BY <2>1, <3>3
      <4>3. Height(bh2, c[e][m]) = bh[s] - 1
        BY <2>1, <3>3, <1>5
      <4> QED
        BY <4>1, <4>2, <4>3, <3>1
    <3>5. bh2[m] \in Int
      BY <3>1, <1>3, <1>n
    <3> QED
      BY <3>1, <3>2, <3>4, <3>5
  <2>2. CASE m = s
    <3>1. Ink(col, m) = 1 /\ Ink(col2, m) = 0 /\ bh2[m] = bh[m] - 1 /\ bh2[m] >= 1 /\ m # low
      BY <2>2, <1>1, <1>3, <1>5, <1>7, <1>n DEF Ink, Faded
    <3>2. \A b \in Sides : Height(bh2, c[b][m]) = Height(bh, c[b][m])
      BY <2>2, <1>1, <1>2, <1>3 DEF Height, Below
    <3> QED
      BY <2>2, <3>1, <3>2, <1>3, <1>4, <1>n
  <2>3. CASE m # n /\ m # s
    <3>1. bh2[m] = bh[m] /\ Ink(col2, m) = Ink(col, m) /\ Ink(col, m) \in {0, 1}
      BY <2>3, <1>1, <1>n DEF Ink, Faded
    <3>2. ASSUME NEW b \in Sides
          PROVE  Height(bh2, c[b][m]) = Height(bh, c[b][m])
                                        - (IF m = low /\ b = e2 THEN 1 ELSE 0)
      <4>1. c[b][m] # s /\ (c[b][m] # NoNode => c[b][m] \in S /\ c[b][m] \in Item)
        BY <2>3, <1>2, <1>3 DEF Below
      <4>2. CASE c[b][m] = n
        <5>1. par[n] = m /\ n # NoNode
          BY <4>2, <1>2, <1>n DEF Below
        <5>2. m = low /\ b = e2 <=> col[n] = "BLACK"
          <6>1. CASE col[n] = "BLACK"
            <7>1. m = low /\ c[e2][m] = n
              BY <6>1, <5>1, <1>n
            <7>2. b = e2
              BY <7>1, <4>2, <5>1, <1>2 DEF Below, Sides, Other
            <7> QED
              BY <6>1, <7>1, <7>2
          <6>2. CASE col[n] # "BLACK"
            BY <6>2, <1>7, <1>n
          <6> QED
            BY <6>1, <6>2
        <5> QED
          BY <4>2, <5>1, <5>2, <1>1, <1>3, <1>n DEF Height
      <4>3. CASE c[b][m] # n
        <5>1. ~(m = low /\ b = e2)
          BY <4>3, <1>n
        <5> QED
          BY <5>1, <4>1, <4>3, <1>1, <1>n DEF Height
      <4> QED
        BY <4>2, <4>3
    <3>3. \A b \in Sides : Height(bh, c[b][m]) = bh[m] - Ink(col, m) - 0
      BY <1>4, <2>3
    <3>4. bh[m] \in Int /\ bh[m] >= 1
      BY <1>n
    <3> QED
      BY <3>1, <3>2, <3>3, <3>4
  <2> QED
    BY <2>1, <2>2, <2>3
<1> QED
  BY <1>1, <1>8 DEF Even, Level

\* What a rotation of the present tree keeps, whatever the colours.
LEMMA RotateKeeps ==
    ASSUME TreeTypeOK, NEW top, NEW pos \in Positions, NEW bound \in Bounds,
           Shape(child, parent, items, top, pos, bound),
           NEW d, Blanks(child, parent, color, items, d),
           NEW n \in items, NEW side \in Sides, child[Other(side)][n] # NoNode,
           Rotate(n, side)
    PROVE  /\ child' \in Links /\ parent' \in Parents
           /\ Turned(child, parent, n, side, child', parent')
           /\ Hangs(child', parent', items,
                    IF n = top THEN child[Other(side)][n] ELSE top, pos)
           /\ Blanks(child', parent', color, items, d)
<1>1. items \in SUBSET Item /\ child \in Links /\ parent \in Parents
  BY DEF TreeTypeOK
<1>2. /\ child' \in Links /\ parent' \in Parents
      /\ Turned(child, parent, n, side, child', parent')
  BY <1>1, RotateDoes
<1>3. Hangs(child', parent', items, IF n = top THEN child[Other(side)][n] ELSE top, pos)
  BY <1>1, <1>2, TurnShape
<1>4. Below(child, parent, items, top, pos, bound)
  BY <1>1, ChildFacts
<1>5. /\ child[Other(side)][n] \in items /\ Other(side) \in Sides
      /\ parent[n] = NoNode \/ parent[n] \in items
      /\ child[side][child[Other(side)][n]] \in items \cup {NoNode}
  BY <1>4 DEF Below, Sides, Other, Shape, Wired
<1>6. Blanks(child', parent', color, items, d)
  <2> SUFFICES ASSUME NEW m \in Item \ items
               PROVE  parent'[m] = parent[m] /\ \A e \in Sides : child'[e][m] = child[e][m]
    BY DEF Blanks
  <2>1. /\ m # n /\ m # child[Other(side)][n] /\ m # child[side][child[Other(side)][n]]
        /\ m # parent[n] /\ m \in Item
    BY <1>5, TreeAssumption
  <2> QED
    BY <2>1, <1>2 DEF Turned
<1> QED
  BY <1>2, <1>3, <1>6

\* A red root turns black, or a black parent ends the adjusting.
LEMMA InvAdjustNothing == ASSUME TreeInv, AdjustNothing PROVE TreeInv'
<1>1. PICK top \in Item \cup {NoNode}, pos \in Positions, bound \in Bounds :
         Sound(top, pos, bound) /\ Placed(top, pos, bound)
  BY DEF TreeInv
<1>2. TreeTypeOK
  BY DEF TreeInv
<1>3. /\ node \in items /\ color[node] = "RED" /\ dead = NoNode /\ given = {}
      /\ Reds(parent, color, items, node) /\ Level(child, color, items, NoNode, "left")
      /\ KeysGrow(items \ {}, pos) /\ Blanks(child, parent, color, items, NoNode)
      /\ Shape(child, parent, items, top, pos, bound)
  BY <1>1 DEF AdjustNothing, Sound, Placed, Header, Inserting, Iterating, Adding, Removing,
              Spared, Low, LowSide, Unordered
<1>4. /\ items' = items /\ child' = child /\ parent' = parent /\ root' = root
      /\ dead' = dead /\ given' = given /\ step' = "root" /\ at' = root /\ node' = NoNode
  BY DEF AdjustNothing, Changed, headerVars
<1>n. /\ items \in SUBSET Item /\ child \in Links /\ parent \in Parents /\ color \in Colors
      /\ "left" \in Sides /\ NoNode \notin Item /\ node \in Item
  BY <1>2, <1>3, TreeAssumption DEF TreeTypeOK, Sides
<1>5. /\ color' \in Colors /\ \A m \in Item \ items : color'[m] = color[m]
      /\ Reds(parent, color', items, NoNode) /\ Level(child, color', items, NoNode, "left")
  <2>1. CASE parent[node] = NoNode
    <3>1. color' = [color EXCEPT ![node] = "BLACK"]
      BY <2>1 DEF AdjustNothing
    <3>2. color' \in Colors /\ \A m \in Item : color'[m] = IF m = node THEN "BLACK" ELSE color[m]
      BY <3>1, <1>n DEF Colors
    <3>3. node = top
      BY <2>1, <1>3 DEF Shape, Wired
    <3>4. Blackened(color, top, color')
      BY <3>2, <3>3 DEF Blackened
    <3>5. Level(child, color', items, NoNode, "left")
      BY <1>3, <1>n, <3>2, <3>3, <3>4, BlackTop
    <3>6. Reds(parent, color', items, NoNode)
      BY <1>3, <1>n, <3>2 DEF Reds, Parents
    <3> QED
      BY <3>2, <3>5, <3>6, <1>3
  <2>2. CASE parent[node] # NoNode
    <3>1. color' = color /\ color[parent[node]] = "BLACK"
      BY <2>2 DEF AdjustNothing
    <3>2. Reds(parent, color', items, NoNode)
      BY <1>3, <2>2, <3>1 DEF Reds
    <3> QED
      BY <3>1, <3>2, <1>3, <1>n
  <2> QED
    BY <2>1, <2>2
<1>6. TreeTypeOK'
  BY <1>2, <1>4, <1>5 DEF TreeTypeOK
<1>7. Sound(top, pos, bound)'
  <2>1. Spared' = NoNode /\ Low' = NoNode /\ LowSide' = "left" /\ Unordered' = {}
    BY <1>4 DEF Spared, Low, LowSide, Unordered, Adding, Removing
  <2>2. Blanks(child, parent, color', items, NoNode)
    BY <1>3, <1>5 DEF Blanks
  <2> QED
    BY <2>1, <2>2, <1>3, <1>4, <1>5 DEF Sound
<1>8. Placed(top, pos, bound)'
  BY <1>2, <1>3, <1>4, <1>n
  DEF TreeTypeOK, Placed, Header, Inserting, Deleting, Iterating, Still, Adding, Removing
<1> QED
  BY <1>6, <1>7, <1>8 DEF TreeInv

\* Around a red node with a red parent.
RedPair(n, p, g) ==
    /\ n \in items /\ p \in items /\ g \in items
    /\ p = parent[n] /\ g = parent[p] /\ n # p /\ n # g /\ p # g
    /\ color[n] = "RED" /\ color[p] = "RED" /\ color[g] = "BLACK"
    /\ \E d \in Sides : child[d][p] = n /\ child[Other(d)][p] # n
    /\ \E d \in Sides : d = SideOf(g, p) /\ child[d][g] = p /\ child[Other(d)][g] # p

\* There is such a grandparent, and it is black.
LEMMA RedPairs ==
    ASSUME TreeTypeOK, NEW top, NEW pos \in Positions, NEW bound \in Bounds,
           Shape(child, parent, items, top, pos, bound),
           NEW n \in items, Reds(parent, color, items, n), color[n] = "RED",
           parent[n] # NoNode, color[parent[n]] # "BLACK"
    PROVE  RedPair(n, parent[n], parent[parent[n]])
<1>1. items \in SUBSET Item /\ child \in Links /\ parent \in Parents /\ color \in Colors
  BY DEF TreeTypeOK
<1>2. Below(child, parent, items, top, pos, bound)
  BY <1>1, ChildFacts
<1>3. ASSUME NEW m \in items, parent[m] # NoNode
      PROVE  /\ parent[m] \in items /\ parent[m] # m
             /\ \E d \in Sides : child[d][parent[m]] = m /\ child[Other(d)][parent[m]] # m
  <2>1. parent[m] \in items /\ \E d \in Sides : child[d][parent[m]] = m
    BY <1>3 DEF Shape, Wired
  <2>2. m # NoNode
    BY <1>1, TreeAssumption
  <2> QED
    BY <2>1, <2>2, <1>2 DEF Below
<1> DEFINE p == parent[n]
           g == parent[p]
<1>4. /\ p \in items /\ p # n /\ color[p] = "RED" /\ p # NoNode
      /\ \E d \in Sides : child[d][p] = n /\ child[Other(d)][p] # n
  <2>1. p \in Item
    BY <1>1, <1>3
  <2> QED
    BY <1>1, <1>3, <2>1 DEF Colors
<1>5. g # NoNode /\ color[g] = "BLACK"
  BY <1>4 DEF Reds
<1>6. g \in items /\ p # g
  BY <1>3, <1>4, <1>5
<1>7. PICK d \in Sides : child[d][g] = p /\ child[Other(d)][g] # p
  BY <1>3, <1>4, <1>5
<1>8. d = SideOf(g, p)
  BY <1>7 DEF Sides, Other, SideOf
<1> QED
  BY <1>4, <1>5, <1>6, <1>7, <1>8 DEF RedPair

\* What an Adjust step starts from.
LEMMA AdjustStart ==
    ASSUME TreeTypeOK, NEW top, NEW pos, NEW bound,
           Sound(top, pos, bound), Placed(top, pos, bound), step \in Adding
    PROVE  /\ node \in items /\ color[node] = "RED" /\ dead = NoNode /\ given = {}
           /\ Reds(parent, color, items, node) /\ Level(child, color, items, NoNode, "left")
           /\ KeysGrow(items \ {}, pos) /\ Blanks(child, parent, color, items, NoNode)
           /\ Shape(child, parent, items, top, pos, bound)
           /\ items \in SUBSET Item /\ child \in Links /\ parent \in Parents
           /\ color \in Colors
           /\ "left" \in Sides /\ NoNode \notin Item /\ node \in Item
<1>1. step \notin Removing \cup {"delete", "unlink", "next", "leftmost", "climb"}
  BY DEF Adding, Removing
<1>2. dead = NoNode /\ given = {} /\ node \in items /\ color[node] = "RED"
  BY <1>1 DEF Placed, Header, Inserting, Iterating
<1> QED
  BY <1>1, <1>2, TreeAssumption DEF Sound, TreeTypeOK, Spared, Low, LowSide, Unordered, Sides

\* The two red nodes are parent and uncle; now the grandparent may be red below red.
LEMMA InvAdjustUncle == ASSUME TreeInv, AdjustUncle PROVE TreeInv'
<1>1. PICK top \in Item \cup {NoNode}, pos \in Positions, bound \in Bounds :
         Sound(top, pos, bound) /\ Placed(top, pos, bound)
  BY DEF TreeInv
<1>2. TreeTypeOK
  BY DEF TreeInv
<1>3. /\ node \in items /\ color[node] = "RED" /\ dead = NoNode /\ given = {}
      /\ Reds(parent, color, items, node) /\ Level(child, color, items, NoNode, "left")
      /\ KeysGrow(items \ {}, pos) /\ Blanks(child, parent, color, items, NoNode)
      /\ Shape(child, parent, items, top, pos, bound)
      /\ items \in SUBSET Item /\ child \in Links /\ parent \in Parents /\ color \in Colors
      /\ "left" \in Sides /\ NoNode \notin Item /\ node \in Item
  <2>1. step \in Adding
    BY DEF AdjustUncle, RedParent, Adding
  <2> QED
    BY <2>1, <1>1, <1>2, AdjustStart
<1> DEFINE p == parent[node]
           g == parent[p]
<1>4. RedPair(node, p, g)
  <2>1. parent[node] # NoNode /\ color[parent[node]] # "BLACK"
    BY DEF AdjustUncle, RedParent
  <2> QED
    BY <2>1, <1>2, <1>3, RedPairs
<1>5. PICK d \in Sides : d = SideOf(g, p) /\ child[d][g] = p /\ child[Other(d)][g] # p
  BY <1>4 DEF RedPair
<1>6. PICK u : u = Uncle(node)
  OBVIOUS
<1>7. u = child[Other(d)][g] /\ u # NoNode /\ color[u] = "RED"
  BY <1>5, <1>6 DEF Uncle, Grand, AdjustUncle, IsRed
<1>8. /\ items' = items /\ child' = child /\ parent' = parent /\ root' = root
      /\ dead' = dead /\ given' = given /\ step' = "adjust" /\ at' = at /\ node' = g
      /\ color' = [color EXCEPT ![p] = "BLACK", ![u] = "BLACK", ![g] = "RED"]
  BY <1>6 DEF AdjustUncle, RedParent, Grand, headerVars
<1>9. /\ p \in items /\ g \in items /\ p # g /\ color[p] = "RED" /\ color[g] = "BLACK"
      /\ p # NoNode /\ g # NoNode /\ node # p
  BY <1>3, <1>4 DEF RedPair
<1> HIDE DEF p, g
<1>10. color' \in Colors /\ Passed(color, g, p, u, color')
  <2>1. u \in items /\ u \in Item /\ p \in Item /\ g \in Item
    <3>1. Other(d) \in Sides
      BY DEF Sides, Other
    <3> QED
      BY <3>1, <1>3, <1>7, <1>9 DEF Shape, Wired
  <2> QED
    BY <2>1, <1>3, <1>8 DEF Colors, Passed
<1>11. Level(child, color', items, NoNode, "left")
  BY <1>3, <1>5, <1>7, <1>9, <1>10, PassEven
<1>12. Reds(parent, color', items, g)
  <2> SUFFICES ASSUME NEW m \in items, m # g, color'[m] = "RED"
               PROVE  parent[m] # NoNode /\ color'[parent[m]] = "BLACK"
    BY DEF Reds
  <2>1. m \in Item /\ m # p /\ m # u /\ color[m] = "RED"
    BY <1>3, <1>10 DEF Passed
  <2>2. CASE m = node
    BY <2>2, <1>3, <1>9, <1>10 DEF p, Passed
  <2>3. CASE m # node
    <3>1. parent[m] # NoNode /\ color[parent[m]] = "BLACK" /\ parent[m] \in Item
      BY <2>1, <2>3, <1>3 DEF Reds, Parents
    <3>2. parent[m] # g
      <4> SUFFICES ASSUME parent[m] = g PROVE FALSE
        OBVIOUS
      <4>1. PICK b \in Sides : child[b][g] = m
        BY <3>1, <1>3 DEF Shape, Wired
      <4> QED
        BY <4>1, <2>1, <1>5, <1>7 DEF Sides, Other
    <3> QED
      BY <3>1, <3>2, <1>10 DEF Passed
  <2> QED
    BY <2>2, <2>3
<1>13. TreeTypeOK'
  BY <1>2, <1>3, <1>8, <1>9, <1>10 DEF TreeTypeOK
<1>n. PICK n : n = g
  OBVIOUS
<1>14. Sound(top, pos, bound)'
  <2>1. Spared' = g /\ Low' = NoNode /\ LowSide' = "left" /\ Unordered' = {}
    BY <1>8 DEF Spared, Low, LowSide, Unordered, Adding, Removing
  <2>2. Blanks(child, parent, color', items, NoNode)
    <3>1. \A m \in Item \ items : color'[m] = color[m]
      <4>1. u \in items
        <5>1. Other(d) \in Sides
          BY DEF Sides, Other
        <5> QED
          BY <5>1, <1>3, <1>7, <1>9 DEF Shape, Wired
      <4> QED
        BY <4>1, <1>9, <1>10 DEF Passed
    <3> QED
      BY <3>1, <1>3 DEF Blanks
  <2> QED
    BY <2>1, <2>2, <1>3, <1>8, <1>11, <1>12 DEF Sound
<1>15. Placed(top, pos, bound)'
  <2>1. color'[g] = "RED"
    BY <1>3, <1>9, <1>10 DEF Passed
  <2> QED
    BY <2>1, <1>3, <1>8, <1>9
    DEF Placed, Header, Inserting, Deleting, Iterating, Still, Adding, Removing
<1> QED
  BY <1>13, <1>14, <1>15 DEF TreeInv

\* A red node with a red parent, both on the outer side.
OuterPair(c, par, col, n, d) ==
    LET p == par[n]
        g == par[p]
    IN  /\ p # NoNode /\ g # NoNode /\ col[p] = "RED" /\ col[g] = "BLACK"
        /\ c[d][g] = p /\ c[Other(d)][g] # p /\ c[d][p] = n
        /\ c[Other(d)][g] # NoNode => col[c[Other(d)][g]] # "RED"

\* The first rotation of adjust_case4 makes it one.
LEMMA TurnInner ==
    ASSUME TreeTypeOK, NEW top, NEW pos \in Positions, NEW bound \in Bounds,
           Shape(child, parent, items, top, pos, bound),
           NEW n \in items, NEW p, NEW g, RedPair(n, p, g), Reds(parent, color, items, n),
           Level(child, color, items, NoNode, "left"),
           Blanks(child, parent, color, items, NoNode),
           NEW d \in Sides, child[d][g] = p, child[Other(d)][g] # p, child[Other(d)][p] = n,
           child[Other(d)][g] # NoNode => color[child[Other(d)][g]] # "RED",
           Rotate(p, d)
    PROVE  /\ child' \in Links /\ parent' \in Parents
           /\ child'[d][n] = p /\ OuterPair(child', parent', color, p, d)
           /\ Hangs(child', parent', items, IF p = top THEN n ELSE top, pos)
           /\ Reds(parent', color, items, p) /\ Level(child', color, items, NoNode, "left")
           /\ Blanks(child', parent', color, items, NoNode)
<1>1. /\ n \in items /\ p \in items /\ g \in items
      /\ p = parent[n] /\ g = parent[p] /\ n # p /\ n # g /\ p # g
      /\ color[n] = "RED" /\ color[p] = "RED" /\ color[g] = "BLACK"
  BY DEF RedPair
<1>2. /\ items \in SUBSET Item /\ child \in Links /\ parent \in Parents /\ color \in Colors
      /\ "left" \in Sides /\ NoNode \notin items
      /\ Other(d) \in Sides /\ Other(d) # d /\ \A b \in Sides : b = d \/ b = Other(d)
  BY TreeAssumption DEF TreeTypeOK, Sides, Other
<1>3. /\ child' \in Links /\ parent' \in Parents
      /\ Turned(child, parent, p, d, child', parent')
      /\ Hangs(child', parent', items, IF p = top THEN n ELSE top, pos)
      /\ Blanks(child', parent', color, items, NoNode)
  <2>1. child[Other(d)][p] # NoNode
    BY <1>1, <1>2
  <2> QED
    BY <1>1, <2>1, RotateKeeps
<1>4. Below(child, parent, items, top, pos, bound)
  BY <1>2, ChildFacts
<1>5. Level(child', color, items, NoNode, "left")
  <2>1. Exchanged(color, items, p, n, color)
    BY <1>1 DEF Exchanged
  <2>2. n # NoNode /\ NoNode # p
    BY <1>1, <1>2
  <2> QED
    BY <1>1, <1>2, <1>3, <2>1, <2>2, TurnEven
<1> PICK inner : inner = child[d][n]
  OBVIOUS
<1>6. /\ \A e \in Sides, m \in Item :
            child'[e][m] = IF m = p /\ e # d THEN inner
                           ELSE IF m = n /\ e = d THEN p
                           ELSE IF m = g /\ child[e][m] = p THEN n
                           ELSE child[e][m]
      /\ \A m \in Item :
            parent'[m] = IF m = n THEN g ELSE IF m = p THEN n
                         ELSE IF m = inner THEN p ELSE parent[m]
  BY <1>1, <1>3 DEF Turned
<1>7. OuterPair(child', parent', color, p, d)
  <2>1. /\ parent'[p] = n /\ parent'[n] = g /\ n # NoNode /\ g # NoNode
        /\ child'[d][g] = n /\ child'[Other(d)][g] = child[Other(d)][g] /\ child'[d][n] = p
    BY <1>1, <1>2, <1>6
  <2>2. child[Other(d)][g] # n
    BY <1>1, <1>2, <1>4 DEF Below
  <2> QED
    BY <2>1, <2>2, <1>1 DEF OuterPair
<1>8. Reds(parent', color, items, p)
  <2> SUFFICES ASSUME NEW m \in items, m # p, color[m] = "RED"
               PROVE  parent'[m] # NoNode /\ color[parent'[m]] = "BLACK"
    BY DEF Reds
  <2>1. CASE m = n
    BY <2>1, <1>1, <1>2, <1>6
  <2>2. CASE m # n
    <3>1. parent[m] # NoNode /\ color[parent[m]] = "BLACK" /\ m \in Item
      BY <2>2, <1>2 DEF Reds
    <3>2. m # inner
      <4>1. inner # NoNode => parent[inner] = n
        BY <1>1, <1>4 DEF Below
      <4> QED
        BY <4>1, <3>1, <1>1, <1>2
    <3> QED
      BY <2>2, <3>1, <3>2, <1>6
  <2> QED
    BY <2>1, <2>2
<1>9. child'[d][n] = p
  BY <1>1, <1>2, <1>6
<1> QED
  BY <1>3, <1>5, <1>7, <1>8, <1>9

\* The first half of adjust_case4.
LEMMA InvAdjustInner == ASSUME TreeInv, AdjustInner PROVE TreeInv'
<1>1. PICK top \in Item \cup {NoNode}, pos \in Positions, bound \in Bounds :
         Sound(top, pos, bound) /\ Placed(top, pos, bound)
  BY DEF TreeInv
<1>2. TreeTypeOK
  BY DEF TreeInv
<1>3. /\ node \in items /\ color[node] = "RED" /\ dead = NoNode /\ given = {}
      /\ Reds(parent, color, items, node) /\ Level(child, color, items, NoNode, "left")
      /\ KeysGrow(items \ {}, pos) /\ Blanks(child, parent, color, items, NoNode)
      /\ Shape(child, parent, items, top, pos, bound)
      /\ items \in SUBSET Item /\ child \in Links /\ parent \in Parents /\ color \in Colors
      /\ "left" \in Sides /\ NoNode \notin Item /\ node \in Item
  <2>1. step \in Adding
    BY DEF AdjustInner, RedParent, Adding
  <2> QED
    BY <2>1, <1>1, <1>2, AdjustStart
<1> DEFINE p == parent[node]
           g == parent[p]
<1>4. RedPair(node, p, g)
  <2>1. parent[node] # NoNode /\ color[parent[node]] # "BLACK"
    BY DEF AdjustInner, RedParent
  <2> QED
    BY <2>1, <1>2, <1>3, RedPairs
<1>5. PICK d \in Sides : d = SideOf(g, p) /\ child[d][g] = p /\ child[Other(d)][g] # p
  BY <1>4 DEF RedPair
<1>6. child[Other(d)][g] # NoNode => color[child[Other(d)][g]] # "RED"
  BY <1>5 DEF AdjustInner, Uncle, Grand, IsRed
<1>7. /\ items' = items /\ color' = color /\ root' = root /\ at' = at
      /\ dead' = dead /\ given' = given /\ step' = "outer"
      /\ IF child[Other(d)][p] = node THEN Rotate(p, d) /\ node' = child'[d][node]
         ELSE child' = child /\ parent' = parent /\ node' = node
  BY <1>5 DEF AdjustInner, Grand, headerVars
<1>8. /\ p \in items /\ g \in items /\ p # g /\ color[p] = "RED" /\ color[g] = "BLACK"
      /\ p # NoNode /\ g # NoNode /\ node # p
      /\ \E b \in Sides : child[b][p] = node /\ child[Other(b)][p] # node
  BY <1>3, <1>4 DEF RedPair
<1>9. \E n \in items, top2 \in Item \cup {NoNode} :
         /\ node' = n /\ color[n] = "RED"
         /\ child' \in Links /\ parent' \in Parents
         /\ OuterPair(child', parent', color, n, d) /\ Hangs(child', parent', items, top2, pos)
         /\ Reds(parent', color, items, n) /\ Level(child', color, items, NoNode, "left")
         /\ Blanks(child', parent', color, items, NoNode)
  <2>1. CASE child[Other(d)][p] = node
    <3>1. Rotate(p, d) /\ node' = child'[d][node]
      BY <2>1, <1>7
    <3>n. PICK n : n = node
      OBVIOUS
    <3>2. /\ child' \in Links /\ parent' \in Parents
          /\ child'[d][n] = p /\ OuterPair(child', parent', color, p, d)
          /\ Hangs(child', parent', items, IF p = top THEN n ELSE top, pos)
          /\ Reds(parent', color, items, p) /\ Level(child', color, items, NoNode, "left")
          /\ Blanks(child', parent', color, items, NoNode)
      <4> HIDE DEF p, g
      <4> QED
        BY <3>n, <3>1, <2>1, <1>2, <1>3, <1>4, <1>5, <1>6, TurnInner
    <3>3. child'[d][node] = p
      BY <3>n, <3>2
    <3> QED
      BY <3>1, <3>2, <3>3, <3>n, <1>3, <1>8
  <2>2. CASE child[Other(d)][p] # node
    <3>1. child' = child /\ parent' = parent /\ node' = node
      BY <2>2, <1>7
    <3>2. child[d][p] = node
      BY <2>2, <1>8 DEF Sides, Other
    <3>3. OuterPair(child, parent, color, node, d)
      BY <3>2, <1>5, <1>6, <1>8 DEF OuterPair
    <3>4. Hangs(child, parent, items, top, pos)
      BY <1>3 DEF Hangs
    <3>n. PICK n : n = node
      OBVIOUS
    <3> QED
      BY <3>n, <3>1, <3>3, <3>4, <1>3
  <2> QED
    BY <2>1, <2>2
<1>10. PICK n \in items, top2 \in Item \cup {NoNode} :
         /\ node' = n /\ color[n] = "RED"
         /\ child' \in Links /\ parent' \in Parents
         /\ OuterPair(child', parent', color, n, d) /\ Hangs(child', parent', items, top2, pos)
         /\ Reds(parent', color, items, n) /\ Level(child', color, items, NoNode, "left")
         /\ Blanks(child', parent', color, items, NoNode)
  BY <1>9
<1>11. PICK b2 \in Bounds : Shape(child', parent', items, top2, pos, b2)
  BY <1>10 DEF Hangs
<1>12. TreeTypeOK'
  BY <1>2, <1>3, <1>7, <1>10 DEF TreeTypeOK
<1>13. Sound(top2, pos, b2)'
  <2>1. Spared' = n /\ Low' = NoNode /\ LowSide' = "left" /\ Unordered' = {}
    BY <1>7, <1>10 DEF Spared, Low, LowSide, Unordered, Adding, Removing
  <2> QED
    BY <2>1, <1>3, <1>7, <1>10, <1>11 DEF Sound
<1>14. Placed(top2, pos, b2)'
  <2>1. Inserting(pos, b2)'
    <3> PICK q : q = parent'[n]
      OBVIOUS
    <3> PICK h : h = parent'[q]
      OBVIOUS
    <3>1. /\ q # NoNode /\ h # NoNode /\ color[q] = "RED" /\ color[h] = "BLACK"
          /\ child'[d][h] = q /\ child'[Other(d)][h] # q /\ child'[d][q] = n
          /\ child'[Other(d)][h] # NoNode => color[child'[Other(d)][h]] # "RED"
      BY <1>10 DEF OuterPair
    <3>2. SideOf(h, q)' = d
      BY <3>1 DEF SideOf, Sides, Other
    <3> QED
      BY <3>1, <3>2, <1>7, <1>10 DEF Inserting, Adding, IsRed
  <2> QED
    BY <2>1, <1>3, <1>7, <1>10
    DEF Placed, Header, Deleting, Iterating, Still, Adding, Removing
<1> QED
  BY <1>12, <1>13, <1>14 DEF TreeInv

\* The colours of a black node and its red child change places.
Darkened(col, p, g, col2) ==
    /\ col2 \in Colors
    /\ \A m \in Item : col2[m] = IF m = g THEN "RED" ELSE IF m = p THEN "BLACK" ELSE col[m]

\* The second rotation ends with no red node below a red one.
LEMMA TurnOuter ==
    ASSUME TreeTypeOK, NEW top, NEW pos \in Positions, NEW bound \in Bounds,
           Shape(child, parent, items, top, pos, bound),
           NEW n \in items, NEW p, NEW g, RedPair(n, p, g), Reds(parent, color, items, n),
           Level(child, color, items, NoNode, "left"),
           Blanks(child, parent, color, items, NoNode),
           NEW d \in Sides, child[d][g] = p, child[d][p] = n,
           child[Other(d)][g] # NoNode => color[child[Other(d)][g]] # "RED",
           Rotate(g, Other(d)), Darkened(color, p, g, color')
    PROVE  /\ child' \in Links /\ parent' \in Parents /\ color' \in Colors
           /\ Hangs(child', parent', items, IF g = top THEN p ELSE top, pos)
           /\ Reds(parent', color', items, NoNode)
           /\ Level(child', color', items, NoNode, "left")
           /\ Blanks(child', parent', color', items, NoNode)
<1>1. /\ n \in items /\ p \in items /\ g \in items
      /\ p = parent[n] /\ g = parent[p] /\ n # p /\ n # g /\ p # g
      /\ color[n] = "RED" /\ color[p] = "RED" /\ color[g] = "BLACK"
  BY DEF RedPair
<1>2. /\ items \in SUBSET Item /\ child \in Links /\ parent \in Parents /\ color \in Colors
      /\ "left" \in Sides /\ NoNode \notin items /\ NoNode \notin Item
      /\ Other(d) \in Sides /\ Other(d) # d /\ \A b \in Sides : b = d \/ b = Other(d)
      /\ Other(Other(d)) = d
  BY TreeAssumption DEF TreeTypeOK, Sides, Other
<1>a. PICK o : o = Other(d)
  OBVIOUS
<1>3. /\ child' \in Links /\ parent' \in Parents
      /\ Turned(child, parent, g, o, child', parent')
      /\ Hangs(child', parent', items, IF g = top THEN child[Other(o)][g] ELSE top, pos)
      /\ Blanks(child', parent', color, items, NoNode)
  <2>1. o \in Sides /\ child[Other(o)][g] # NoNode /\ Rotate(g, o)
    BY <1>1, <1>2, <1>a
  <2> QED
    BY <1>1, <2>1, RotateKeeps
<1>4. Below(child, parent, items, top, pos, bound)
  BY <1>2, ChildFacts
<1>5. color' \in Colors /\ \A m \in Item : color'[m] = IF m = g THEN "RED"
                                              ELSE IF m = p THEN "BLACK" ELSE color[m]
  BY DEF Darkened
<1>c. color' \in Colors
  BY <1>5
<1>6. Level(child', color', items, NoNode, "left")
  <2>1. Exchanged(color, items, g, p, color')
    BY <1>1, <1>2, <1>5 DEF Exchanged
  <2>2. p # NoNode /\ NoNode # g /\ p = child[Other(o)][g] /\ o \in Sides
    BY <1>1, <1>2, <1>a
  <2>3. NoNode # p /\ (NoNode = g => "left" = o)
    BY <2>2
  <2>4. /\ items \in SUBSET Item /\ child \in Links /\ parent \in Parents /\ color \in Colors
        /\ "left" \in Sides
    BY <1>2
  <2> HIDE DEF Darkened
  <2> QED
    BY <1>1, <2>4, <1>3, <1>c, <2>1, <2>2, <2>3, TurnEven
<1> PICK inner : inner = child[o][p]
  OBVIOUS
<1>7. \A m \in Item : parent'[m] = IF m = p THEN parent[g] ELSE IF m = g THEN p
                                   ELSE IF m = inner THEN g ELSE parent[m]
  BY <1>1, <1>2, <1>3, <1>a DEF Turned
<1>8. Reds(parent', color', items, NoNode)
  <2> SUFFICES ASSUME NEW m \in items, color'[m] = "RED"
               PROVE  parent'[m] # NoNode /\ color'[parent'[m]] = "BLACK"
    BY DEF Reds
  <2>0. m \in Item /\ m # p /\ p \in Item
    BY <1>1, <1>2, <1>5
  <2>1. CASE m = g
    BY <2>0, <2>1, <1>1, <1>2, <1>5, <1>7
  <2>2. CASE m = n
    <3>1. inner # n
      BY <1>1, <1>2, <1>4, <1>a DEF Below
    <3>2. parent'[m] = p
      BY <2>0, <2>2, <3>1, <1>1, <1>7
    <3> QED
      BY <2>0, <3>2, <1>1, <1>2, <1>5
  <2>3. CASE m # n /\ m # g
    <3>1. color[m] = "RED"
      BY <2>0, <2>3, <1>5
    <3>2. parent[m] # NoNode /\ color[parent[m]] = "BLACK" /\ parent[m] \in Item
      BY <2>0, <2>3, <3>1, <1>2 DEF Reds, Parents
    <3>3. m # inner
      <4>1. inner # NoNode => parent[inner] = p
        BY <1>1, <1>2, <1>4, <1>a DEF Below
      <4> QED
        BY <4>1, <3>2, <2>0, <1>1, <1>2
    <3>4. parent[m] # g
      <4> SUFFICES ASSUME parent[m] = g PROVE FALSE
        OBVIOUS
      <4>1. PICK b \in Sides : child[b][g] = m
        BY <3>2 DEF Shape, Wired
      <4> QED
        BY <4>1, <2>0, <3>1, <1>1, <1>2
    <3>5. parent'[m] = parent[m] /\ parent[m] # p
      BY <2>0, <2>3, <3>2, <3>3, <1>1, <1>7
    <3> QED
      BY <3>2, <3>4, <3>5, <1>5
  <2> QED
    BY <2>1, <2>2, <2>3
<1>9. Blanks(child', parent', color', items, NoNode)
  <2>1. \A m \in Item \ items : color'[m] = color[m]
    BY <1>1, <1>5
  <2> QED
    BY <1>3, <2>1 DEF Blanks
<1>10. Hangs(child', parent', items, IF g = top THEN p ELSE top, pos)
  BY <1>1, <1>2, <1>3, <1>a
<1> QED
  BY <1>3, <1>5, <1>6, <1>8, <1>9, <1>10

\* The second half of adjust_case4.
LEMMA InvAdjustOuter == ASSUME TreeInv, AdjustOuter PROVE TreeInv'
<1>1. PICK top \in Item \cup {NoNode}, pos \in Positions, bound \in Bounds :
         Sound(top, pos, bound) /\ Placed(top, pos, bound)
  BY DEF TreeInv
<1>2. TreeTypeOK
  BY DEF TreeInv
<1>3. /\ node \in items /\ color[node] = "RED" /\ dead = NoNode /\ given = {}
      /\ Reds(parent, color, items, node) /\ Level(child, color, items, NoNode, "left")
      /\ KeysGrow(items \ {}, pos) /\ Blanks(child, parent, color, items, NoNode)
      /\ Shape(child, parent, items, top, pos, bound)
      /\ items \in SUBSET Item /\ child \in Links /\ parent \in Parents /\ color \in Colors
      /\ "left" \in Sides /\ NoNode \notin Item /\ node \in Item
  <2>1. step \in Adding
    BY DEF AdjustOuter, Adding
  <2> QED
    BY <2>1, <1>1, <1>2, AdjustStart
<1>n. PICK n : n = node
  OBVIOUS
<1> PICK p : p = parent[n]
  OBVIOUS
<1> PICK g : g = parent[p]
  OBVIOUS
<1>4. /\ p # NoNode /\ g # NoNode /\ color[p] = "RED" /\ color[g] = "BLACK"
      /\ child[SideOf(g, p)][p] = n /\ ~IsRed(child[Other(SideOf(g, p))][g])
  BY <1>1, <1>n DEF AdjustOuter, Placed, Inserting
<1>5. RedPair(n, p, g)
  BY <1>2, <1>3, <1>4, <1>n, RedPairs
<1>6. PICK d \in Sides : d = SideOf(g, p) /\ child[d][g] = p /\ child[Other(d)][g] # p
  BY <1>5 DEF RedPair
<1>7. d = SideOf(p, n)
  <2>1. PICK b \in Sides : child[b][p] = n /\ child[Other(b)][p] # n
    BY <1>5 DEF RedPair
  <2> QED
    BY <2>1, <1>4, <1>6 DEF Sides, Other, SideOf
<1>8. /\ items' = items /\ root' = root /\ dead' = dead /\ given' = given
      /\ step' = "root" /\ at' = root /\ node' = NoNode
      /\ Rotate(g, Other(d)) /\ color' = [color EXCEPT ![p] = "BLACK", ![g] = "RED"]
  BY <1>7, <1>n DEF AdjustOuter, Changed, headerVars
<1>d. Darkened(color, p, g, color')
  <2>1. p \in Item /\ g \in Item /\ p # g
    BY <1>3, <1>5 DEF RedPair
  <2> QED
    BY <2>1, <1>3, <1>8 DEF Darkened, Colors
<1>r. Rotate(g, Other(d))
  BY <1>8
<1>9. /\ child' \in Links /\ parent' \in Parents /\ color' \in Colors
      /\ Hangs(child', parent', items, IF g = top THEN p ELSE top, pos)
      /\ Reds(parent', color', items, NoNode)
      /\ Level(child', color', items, NoNode, "left")
      /\ Blanks(child', parent', color', items, NoNode)
  <2>1. child[Other(d)][g] # NoNode => color[child[Other(d)][g]] # "RED"
    BY <1>4, <1>6 DEF IsRed
  <2>2. n \in items /\ Reds(parent, color, items, n) /\ child[d][p] = n /\ child[d][g] = p
    BY <1>3, <1>4, <1>6, <1>n
  <2> QED
    BY <1>2, <1>3, <1>5, <1>6, <1>d, <1>r, <2>1, <2>2, TurnOuter
<1>10. PICK top2 \in Item \cup {NoNode} : top2 = IF g = top THEN p ELSE top
  BY <1>3, <1>5 DEF RedPair
<1>11. PICK b2 \in Bounds : Shape(child', parent', items, top2, pos, b2)
  BY <1>9, <1>10 DEF Hangs
<1>12. TreeTypeOK'
  BY <1>2, <1>3, <1>8, <1>9 DEF TreeTypeOK
<1>13. Sound(top2, pos, b2)'
  <2>1. Spared' = NoNode /\ Low' = NoNode /\ LowSide' = "left" /\ Unordered' = {}
    BY <1>8 DEF Spared, Low, LowSide, Unordered, Adding, Removing
  <2> QED
    BY <2>1, <1>3, <1>8, <1>9, <1>11 DEF Sound
<1>14. Placed(top2, pos, b2)'
  BY <1>2, <1>3, <1>8
  DEF TreeTypeOK, Placed, Header, Inserting, Deleting, Iterating, Still, Adding, Removing
<1> QED
  BY <1>12, <1>13, <1>14 DEF TreeInv

------------------------------------------------------------------------------
(* The steps of Delete                                                      *)

\* The swapped items are neighbours, so that the keys are in order without the one
\* that is deleted.
LEMMA InvSwap == ASSUME TreeInv, Swap PROVE TreeInv'
<1>1. PICK top \in Item \cup {NoNode}, pos \in Positions, bound \in Bounds :
         Sound(top, pos, bound) /\ Placed(top, pos, bound)
  BY DEF TreeInv
<1>2. TreeTypeOK
  BY DEF TreeInv
<1>a. step \in {"min", "max"}
  BY DEF Swap
<1>3. /\ at \in items /\ node \in items /\ KeyOf(node) = key /\ bound[Inwards][at] = pos[node]
      /\ dead = NoNode /\ given = {} /\ root = top
  BY <1>1, <1>2, <1>a
  DEF Placed, Deleting, Header, Iterating, Removing, Still, TreeTypeOK
<1>4. /\ KeysGrow(items, pos) /\ Shape(child, parent, items, top, pos, bound)
      /\ Blanks(child, parent, color, items, NoNode) /\ Reds(parent, color, items, NoNode)
      /\ Level(child, color, items, NoNode, "left")
  <2>1. Unordered = {} /\ Spared = NoNode /\ Low = NoNode /\ LowSide = "left"
    BY <1>a DEF Unordered, Spared, Low, LowSide, Adding, Removing
  <2>2. items \ {} = items
    OBVIOUS
  <2> QED
    BY <2>1, <2>2, <1>1, <1>3 DEF Sound
<1>n. /\ items \in SUBSET Item /\ child \in Links /\ parent \in Parents /\ color \in Colors
      /\ "left" \in Sides
  BY <1>2 DEF TreeTypeOK, Sides
<1>5. PICK a \in items, b \in items : a = at /\ b = node
  BY <1>3
<1>6. PICK d \in Sides : d = Inwards /\ child[d][a] = NoNode
  BY <1>5 DEF Inwards, Sides, Swap
<1>7. Exchanges(items, a, b)
  BY <1>n, RenameTwice
<1>8. /\ items' = items /\ dead' = dead /\ given' = given /\ key' = key
      /\ step' = "unlink" /\ at' = NoNode /\ node' = node /\ root' = Renamed(a, b, root)
      /\ child' = [s \in Sides |-> [i \in Item |-> Renamed(a, b, child[s][Renamed(a, b, i)])]]
      /\ parent' = [i \in Item |-> Renamed(a, b, parent[Renamed(a, b, i)])]
      /\ color' = [i \in Item |-> color[Renamed(a, b, i)]]
  BY <1>5 DEF Swap, Renamed
<1>9. /\ child' \in Links /\ parent' \in Parents /\ color' \in Colors
      /\ Swapped(a, b, child, parent, color, child', parent', color')
  <2>1. \A i \in Item : Renamed(a, b, i) \in Item
    BY <1>7 DEF Exchanges
  <2>2. \A i \in Item \cup {NoNode} : Renamed(a, b, i) \in Item \cup {NoNode}
    BY <1>7, <2>1 DEF Exchanges
  <2>3. /\ \A s \in Sides, i \in Item : child[s][Renamed(a, b, i)] \in Item \cup {NoNode}
        /\ \A i \in Item : parent[Renamed(a, b, i)] \in Item \cup {NoNode}
        /\ \A i \in Item : color[Renamed(a, b, i)] \in {"RED", "BLACK"}
    BY <2>1, <1>n DEF Links, Parents, Colors
  <2>4. child' \in Links
    BY <1>8, <2>2, <2>3 DEF Links
  <2>5. parent' \in Parents /\ color' \in Colors
    BY <1>8, <2>2, <2>3 DEF Parents, Colors
  <2>6. Swapped(a, b, child, parent, color, child', parent', color')
    BY <1>8 DEF Swapped
  <2> QED
    BY <2>4, <2>5, <2>6
<1>10. PICK pos2 \in Positions : Moved(a, b, pos, pos2)
  <2>1. [m \in Item |-> pos[Renamed(a, b, m)]] \in Positions
    BY <1>7 DEF Positions, Exchanges
  <2>2. Moved(a, b, pos, [m \in Item |-> pos[Renamed(a, b, m)]])
    BY DEF Moved
  <2> QED
    BY <2>1, <2>2
<1>11. PICK top2 \in Item \cup {NoNode} : top2 = Renamed(a, b, top)
  BY <1>7 DEF Exchanges
<1>12. PICK b2 \in Bounds : Shape(child', parent', items, top2, pos2, b2)
  <2>1. Hangs(child', parent', items, Renamed(a, b, top), pos2)
    BY <1>4, <1>n, <1>9, <1>10, RenameShape
  <2> QED
    BY <2>1, <1>11 DEF Hangs
<1>13. /\ Reds(parent', color', items, NoNode) /\ Blanks(child', parent', color', items, NoNode)
       /\ Level(child', color', items, NoNode, "left")
  BY <1>4, <1>n, <1>9, RenameColors
<1>14. KeysGrow(items \ {b}, pos2)
  <2>1. \A m, n \in items : pos[m] = pos[n] => m = n
    BY <1>4 DEF Shape, Ranged
  <2>2. Lies(d, pos[b], pos[a])
    BY <1>3, <1>4, <1>5, <1>6 DEF Lies, Shape, Ranged, Sides
  <2>3. \A m \in items : ~(Lies(d, pos[b], pos[m]) /\ Lies(d, pos[m], pos[a]))
    BY <1>3, <1>4, <1>5, <1>6 DEF Shape, Filled
  <2> QED
    BY <1>4, <1>n, <1>10, <2>1, <2>2, <2>3, RenameKeys
<1>15. TreeTypeOK'
  <2>1. root' \in items
    <3>1. root \in items
      BY <1>2, <1>3 DEF TreeTypeOK
    <3> QED
      BY <3>1, <1>7, <1>8 DEF Exchanges
  <2> QED
    BY <2>1, <1>2, <1>8, <1>9 DEF TreeTypeOK
<1>16. Sound(top2, pos2, b2)'
  <2>1. Spared' = NoNode /\ Low' = NoNode /\ LowSide' = "left" /\ Unordered' = {b}
    BY <1>5, <1>8 DEF Spared, Low, LowSide, Unordered, Adding, Removing
  <2> QED
    BY <2>1, <1>3, <1>8, <1>12, <1>13, <1>14 DEF Sound
<1>17. Placed(top2, pos2, b2)'
  <2>1. child'[d][node] = NoNode
    BY <1>5, <1>6, <1>7, <1>9, <1>n DEF Swapped, Exchanges, Renamed
  <2>2. root' = top2
    BY <1>3, <1>8, <1>11
  <2>3. Deleting(pos2, b2)'
    BY <2>1, <1>3, <1>8 DEF Deleting, Removing
  <2> QED
    BY <2>2, <2>3, <1>3, <1>8
    DEF Placed, Header, Inserting, Iterating, Still, Adding, Removing
<1> QED
  BY <1>15, <1>16, <1>17 DEF TreeInv

\* A black node that is a child has a sibling.
LEMMA BlackSibling ==
    ASSUME NEW S \in SUBSET Item, NEW c \in Links, NEW par \in Parents, NEW top,
           NEW pos \in Positions, NEW bound \in Bounds, Shape(c, par, S, top, pos, bound),
           NEW col \in Colors, NEW e, Level(c, col, S, NoNode, e),
           NEW x \in S, col[x] = "BLACK", NEW p \in S, NEW d \in Sides, c[d][p] = x
    PROVE  c[Other(d)][p] # NoNode
<1> PICK bh \in Heights : Even(c, col, S, bh, NoNode, e)
  BY DEF Level
<1>1. Below(c, par, S, top, pos, bound)
  BY ChildFacts
<1>2. Other(d) \in Sides /\ x # NoNode /\ p # NoNode /\ x \in Item /\ p \in Item
  BY TreeAssumption DEF Sides, Other
<1>3. /\ Height(bh, c[d][x]) = bh[x] - Ink(col, x) - 0
      /\ Height(bh, c[d][p]) = bh[p] - Ink(col, p) - 0
      /\ Height(bh, c[Other(d)][p]) = bh[p] - Ink(col, p) - 0
  BY <1>2 DEF Even
<1>4. Height(bh, c[d][x]) >= 1 /\ Height(bh, c[d][x]) \in Int /\ Ink(col, x) = 1
  BY <1>1 DEF Height, Even, Below, Heights, Ink
<1>5. Height(bh, c[d][p]) = bh[x] /\ bh[x] \in Int
  BY <1>2 DEF Height, Heights
<1> QED
  BY <1>3, <1>4, <1>5 DEF Height

\* The node is taken out, and one child turns black or a black node is missing.
LEMMA InvUnlink == ASSUME TreeInv, Unlink PROVE TreeInv'
<1>1. PICK top \in Item \cup {NoNode}, pos \in Positions, bound \in Bounds :
         Sound(top, pos, bound) /\ Placed(top, pos, bound)
  BY DEF TreeInv
<1>2. TreeTypeOK
  BY DEF TreeInv
<1>a. step = "unlink"
  BY DEF Unlink
<1>3. /\ node \in items /\ dead = NoNode /\ given = {} /\ root = top
      /\ \E b \in Sides : child[b][node] = NoNode
  BY <1>1, <1>a DEF Placed, Deleting, Header, Iterating, Removing
<1>n. /\ items \in SUBSET Item /\ child \in Links /\ parent \in Parents /\ color \in Colors
      /\ "left" \in Sides /\ NoNode \notin Item
  BY <1>2, TreeAssumption DEF TreeTypeOK, Sides
<1>4. /\ KeysGrow(items \ {node}, pos) /\ Shape(child, parent, items, top, pos, bound)
      /\ Blanks(child, parent, color, items, NoNode) /\ Reds(parent, color, items, NoNode)
      /\ Level(child, color, items, NoNode, "left")
  <2>1. Unordered = {node} /\ Spared = NoNode /\ Low = NoNode /\ LowSide = "left"
    BY <1>a DEF Unordered, Spared, Low, LowSide, Adding, Removing
  <2> QED
    BY <2>1, <1>1, <1>3 DEF Sound
<1>5. PICK x \in items : x = node
  BY <1>3
<1>6. PICK d \in Sides : /\ d = IF child["right"][x] # NoNode THEN "right" ELSE "left"
                         /\ child[Other(d)][x] = NoNode
  BY <1>3, <1>5 DEF Sides, Other
<1>7. PICK y \in Item \cup {NoNode} : y = child[d][x]
  BY <1>n DEF Links
<1>8. PICK p \in Item \cup {NoNode} : p = parent[x]
  BY <1>n DEF Parents
<1>9. /\ items' = items \ {x} /\ dead' = x /\ given' = given
      /\ parent' = IF y = NoNode THEN parent ELSE [parent EXCEPT ![y] = p]
      /\ IF p = NoNode THEN root' = y /\ child' = child
         ELSE root' = root /\ child' = Put(child, SideOf(p, x), p, y)
      /\ color' = IF color[x] = "BLACK" /\ IsRed(y) THEN [color EXCEPT ![y] = "BLACK"]
                  ELSE color
      /\ IF color[x] = "BLACK" /\ ~IsRed(y) THEN step' = "shorter" /\ node' = y /\ at' = p
         ELSE step' = "delete" /\ node' = NoNode /\ at' = NoNode
  BY <1>5, <1>6, <1>7, <1>8 DEF Unlink, Put
<1>10. Below(child, parent, items, top, pos, bound)
  BY <1>4, <1>n, ChildFacts
<1>11. /\ p # NoNode => /\ p \in items /\ p # x
                        /\ \A b \in Sides : child[b][p] = x <=> b = SideOf(p, x)
       /\ p = NoNode <=> x = top
  <2>1. ASSUME p # NoNode
        PROVE  p \in items /\ p # x /\ \A b \in Sides : child[b][p] = x <=> b = SideOf(p, x)
    <3>1. PICK b \in Sides : p \in items /\ child[b][p] = x
      BY <2>1, <1>4, <1>8 DEF Shape, Wired
    <3>2. x # NoNode
      BY <1>n
    <3> QED
      BY <3>1, <3>2, <1>10 DEF Below, Sides, Other, SideOf
  <2> QED
    BY <2>1, <1>4, <1>8 DEF Shape, Wired
<1>12. SideOf(p, x) \in Sides
  BY DEF SideOf, Sides
<1>13. y # NoNode => /\ y \in items /\ color[y] = "RED" /\ color[x] = "BLACK"
                     /\ \A b \in Sides : child[b][y] = NoNode
  <2>1. PICK bh \in Heights : Even(child, color, items, bh, NoNode, "left")
    BY <1>4 DEF Level
  <2>2. SingleChild(child, color, items, bh)
    BY <2>1, <1>4, <1>n, OnlyChild
  <2> QED
    BY <2>2, <1>6, <1>7 DEF SingleChild
<1>14. child' \in Links /\ parent' \in Parents /\ color' \in Colors
  <2>1. child' \in Links
    <3>1. CASE p = NoNode
      BY <3>1, <1>9, <1>n
    <3>2. CASE p # NoNode
      <4>1. IsPut(child, SideOf(p, x), p, y, child')
        BY <3>2, <1>9, <1>12, <1>n, PutLink
      <4> QED
        BY <4>1 DEF IsPut
    <3> QED
      BY <3>1, <3>2
  <2>2. parent' \in Parents
    BY <1>9, <1>n DEF Parents
  <2>3. color' \in Colors
    BY <1>9, <1>n DEF Colors
  <2> QED
    BY <2>1, <2>2, <2>3
<1>15. Replaced(child, parent, x, y, child', parent')
  <2>1. \A e \in Sides, m \in Item :
           child'[e][m] = IF m = p /\ child[e][m] = x THEN y ELSE child[e][m]
    <3>1. CASE p = NoNode
      BY <3>1, <1>9, <1>n
    <3>2. CASE p # NoNode
      <4>1. IsPut(child, SideOf(p, x), p, y, child')
        BY <3>2, <1>9, <1>12, <1>n, PutLink
      <4> QED
        BY <4>1, <3>2, <1>11 DEF IsPut
    <3> QED
      BY <3>1, <3>2
  <2>2. \A m \in Item : parent'[m] = IF m = y THEN p ELSE parent[m]
    BY <1>9, <1>n DEF Parents
  <2> QED
    BY <2>1, <2>2, <1>8 DEF Replaced
<1>16. Blackened(color, y, color')
  <2>1. CASE y = NoNode
    BY <2>1, <1>9, <1>n DEF Blackened, IsRed
  <2>2. CASE y # NoNode
    BY <2>2, <1>9, <1>13, <1>n DEF Blackened, IsRed, Colors
  <2> QED
    BY <2>1, <2>2
<1>17. PICK top2 \in Item \cup {NoNode} : top2 = IF x = top THEN y ELSE top
  OBVIOUS
<1>18. PICK b2 \in Bounds : Shape(child', parent', items \ {x}, top2, pos, b2)
  <2>1. Hangs(child', parent', items \ {x}, IF x = top THEN y ELSE top, pos)
    <3>1. y # NoNode => \A e \in Sides : child[e][y] = NoNode
      BY <1>13
    <3>2. y = child[d][x] /\ child[Other(d)][x] = NoNode
      BY <1>6, <1>7
    <3> QED
      BY <1>4, <1>14, <1>15, <1>n, <3>1, <3>2, UnlinkShape
  <2> QED
    BY <2>1, <1>17 DEF Hangs
<1>19. PICK low : low = IF y = NoNode /\ color[x] = "BLACK" THEN p ELSE NoNode
  OBVIOUS
<1>20. step' = "shorter" <=> y = NoNode /\ color[x] = "BLACK"
  BY <1>9, <1>13 DEF IsRed
<1>21. Low' = low /\ Spared' = NoNode /\ Unordered' = {}
  BY <1>9, <1>19, <1>20 DEF Low, Spared, Unordered, Adding, Removing, IsRed
<1>22. PICK e2 \in Sides : e2 = LowSide'
  BY DEF LowSide, Side, SideOf, Sides
<1>23. step' = "shorter" => node' = NoNode /\ at' = p /\ e2 = SideOf(p, NoNode)'
  BY <1>9, <1>20, <1>22 DEF LowSide, Side, Removing
<1>24. y = NoNode /\ color[x] = "BLACK" /\ x # top => child[e2][p] = x
  <2> SUFFICES ASSUME y = NoNode, color[x] = "BLACK", x # top PROVE child[e2][p] = x
    OBVIOUS
  <2>1. p \in items /\ p \in Item /\ p # NoNode /\ e2 = SideOf(p, NoNode)'
    BY <1>11, <1>20, <1>23, <1>n
  <2>2. PICK s \in Sides : s = SideOf(p, x) /\ child[s][p] = x
    BY <2>1, <1>11, <1>12
  <2>3. child[Other(s)][p] # NoNode
    BY <2>1, <2>2, <1>4, <1>n, BlackSibling
  <2>4. child'[s][p] = NoNode /\ child'[Other(s)][p] # NoNode
    <3>1. \A e \in Sides : child'[e][p] = IF child[e][p] = x THEN y ELSE child[e][p]
      BY <2>1, <1>8, <1>15 DEF Replaced
    <3>2. child[Other(s)][p] # x /\ Other(s) \in Sides
      BY <2>1, <2>2, <1>11 DEF Sides, Other
    <3> QED
      BY <3>1, <3>2, <2>2, <2>3
  <2>5. e2 = s
    BY <2>1, <2>4 DEF SideOf, Sides, Other
  <2> QED
    BY <2>2, <2>5
<1>25. Level(child', color', items \ {x}, low, e2) /\ Reds(parent', color', items \ {x}, NoNode)
  <2>1. Lacks(child, parent, color, top, x, y, low, e2)
    BY <1>8, <1>19, <1>24 DEF Lacks
  <2> QED
    <3>2. y = child[d][x] /\ child[Other(d)][x] = NoNode
      BY <1>6, <1>7
    <3> QED
      BY <2>1, <1>4, <1>14, <1>15, <1>16, <1>n, <3>2, UnlinkEven
<1>26. Blanks(child', parent', color', items \ {x}, x)
  <2> SUFFICES ASSUME NEW m \in Item \ items
               PROVE  /\ parent'[m] = parent[m] /\ color'[m] = color[m]
                      /\ \A e \in Sides : child'[e][m] = child[e][m]
    BY <1>4, <1>n DEF Blanks
  <2>1. m \in Item /\ m # y /\ m # p
    BY <1>11, <1>13, <1>n
  <2> QED
    BY <2>1, <1>8, <1>15, <1>16 DEF Replaced, Blackened
<1>27. root' = top2
  BY <1>3, <1>9, <1>11, <1>17
<1>28. TreeTypeOK'
  <2>1. root' \in items' \/ (root' = NoNode /\ items' = {})
    BY <1>9, <1>18, <1>27 DEF Shape, Wired
  <2>2. at' \in items' \cup {NoNode} /\ node' \in Item \cup {NoNode, Garbage}
    BY <1>9, <1>11
  <2>3. given' \in SUBSET items' /\ items' \in SUBSET Item /\ dead' \in Item /\ dead' \notin items'
    BY <1>3, <1>9, <1>n
  <2> QED
    BY <2>1, <2>2, <2>3, <1>14 DEF TreeTypeOK
<1>29. Sound(top2, pos, b2)'
  <2>1. (items \ {x}) \ {} = items \ {x}
    OBVIOUS
  <2> QED
    BY <2>1, <1>4, <1>5, <1>9, <1>18, <1>21, <1>22, <1>25, <1>26 DEF Sound
<1>30. Placed(top2, pos, b2)'
  <2>1. Deleting(pos, b2)'
    <3>1. CASE step' = "shorter"
      <4>1. node' = NoNode /\ at' = p /\ y = NoNode /\ color[x] = "BLACK"
        BY <3>1, <1>20, <1>23
      <4>2. p # NoNode => child'[SideOf(p, NoNode)'][p] = NoNode
        <5> SUFFICES ASSUME p # NoNode PROVE child'[e2][p] = NoNode
          BY <3>1, <1>23
        <5>1. child[e2][p] = x /\ p \in Item
          BY <4>1, <1>11, <1>24
        <5> QED
          BY <4>1, <5>1, <1>8, <1>15 DEF Replaced
      <4> QED
        BY <3>1, <4>1, <4>2 DEF Deleting, Side, IsRed
    <3>2. CASE step' = "delete"
      BY <3>2 DEF Deleting, Removing
    <3> QED
      BY <3>1, <3>2, <1>9
  <2>2. step' \in {"shorter", "delete"} /\ given' = {}
    BY <1>3, <1>9
  <2> QED
    BY <2>1, <2>2 DEF Placed, Header, Inserting, Iterating, Still, Adding, Removing
<1> QED
  BY <1>28, <1>29, <1>30 DEF TreeInv

\* Below at, on side e, n has lost a black node; s is its sibling.
Lacking(e, s, n) ==
    /\ at \in items /\ at # NoNode /\ s \in items /\ s # NoNode /\ s # at /\ s # n /\ n # at
    /\ child[e][at] = n /\ child[Other(e)][at] = s /\ parent[s] = at
    /\ s # parent[at] /\ ~IsRed(n)
    /\ \A m \in items : parent[m] = at => m = n \/ m = s
    /\ e = Side /\ s = Sibling /\ node = n

\* What each function of the balancing starts from.
LEMMA RemovalStart ==
    ASSUME TreeTypeOK, NEW top, NEW pos \in Positions, NEW bound \in Bounds,
           Sound(top, pos, bound), Placed(top, pos, bound), step \in Removing, at # NoNode,
           NEW e, e = Side, NEW s, s = Sibling, NEW n, n = node
    PROVE  /\ Lacking(e, s, n) /\ e \in Sides /\ given = {}
           /\ Reds(parent, color, items, NoNode) /\ Level(child, color, items, at, e)
           /\ KeysGrow(items \ {}, pos) /\ Blanks(child, parent, color, items, dead)
           /\ Shape(child, parent, items, top, pos, bound)
           /\ items \in SUBSET Item /\ child \in Links /\ parent \in Parents
           /\ color \in Colors /\ NoNode \notin Item
<1>1. step \notin Adding \cup {"unlink", "next", "leftmost", "climb"}
  BY DEF Adding, Removing
<1>2. /\ given = {} /\ child[e][at] = n /\ at \in items /\ ~IsRed(n) /\ e \in Sides
      /\ s = child[Other(e)][at]
  BY <1>1 DEF Placed, Deleting, Iterating, TreeTypeOK, Side, SideOf, Sibling, Sides, Other
<1>3. /\ Reds(parent, color, items, NoNode) /\ Level(child, color, items, at, e)
      /\ KeysGrow(items \ {}, pos) /\ Blanks(child, parent, color, items, dead)
      /\ Shape(child, parent, items, top, pos, bound)
      /\ items \in SUBSET Item /\ child \in Links /\ parent \in Parents
      /\ color \in Colors /\ NoNode \notin Item
  BY <1>1, TreeAssumption DEF Sound, TreeTypeOK, Spared, Low, LowSide, Unordered
<1>4. s # NoNode
  BY <1>2, <1>3, SiblingThere
<1>5. Below(child, parent, items, top, pos, bound)
  BY <1>3, ChildFacts
<1>6. /\ s \in items /\ s # at /\ parent[s] = at /\ s # parent[at] /\ n # at /\ s # n
  BY <1>2, <1>4, <1>5 DEF Below, Sides, Other
<1>7. ASSUME NEW m \in items, parent[m] = at PROVE m = n \/ m = s
  <2>1. PICK b \in Sides : child[b][at] = m
    BY <1>7 DEF Shape, Wired, Sound
  <2> QED
    BY <2>1, <1>2 DEF Sides, Other
<1>8. Lacking(e, s, n)
  BY <1>2, <1>4, <1>6, <1>7 DEF Lacking
<1> QED
  BY <1>2, <1>3, <1>8

\* The sibling without red children turns red, and at black.
LEMMA FadeReds ==
    ASSUME TreeTypeOK, NEW e \in Sides, NEW s, NEW n, Lacking(e, s, n), PaleSibling,
           NEW top, NEW pos \in Positions, NEW bound \in Bounds,
           Shape(child, parent, items, top, pos, bound),
           Reds(parent, color, items, NoNode), Blanks(child, parent, color, items, dead),
           color' = [color EXCEPT ![s] = "RED", ![at] = "BLACK"]
    PROVE  /\ color' \in Colors /\ Faded(color, at, s, color')
           /\ Reds(parent, color', items, NoNode) /\ Blanks(child, parent, color', items, dead)
           /\ color[s] = "BLACK"
<1>1. /\ items \in SUBSET Item /\ child \in Links /\ parent \in Parents /\ color \in Colors
      /\ NoNode \notin Item /\ at \in items /\ s \in items /\ s # at /\ parent[s] = at
      /\ color[s] = "BLACK" /\ \A b \in Sides : ~IsRed(child[b][s])
  BY TreeAssumption DEF TreeTypeOK, Lacking, PaleSibling
<1>2. color' \in Colors /\ \A m \in Item : color'[m] = IF m = s THEN "RED" ELSE IF m = at THEN "BLACK"
                                               ELSE color[m]
  BY <1>1 DEF Colors
<1>3. Reds(parent, color', items, NoNode)
  <2> SUFFICES ASSUME NEW m \in items, color'[m] = "RED"
               PROVE  parent[m] # NoNode /\ color'[parent[m]] = "BLACK"
    BY DEF Reds
  <2>1. CASE m = s
    BY <2>1, <1>1, <1>2
  <2>2. CASE m # s
    <3>1. color[m] = "RED" /\ m \in Item /\ m # NoNode
      BY <2>2, <1>1, <1>2
    <3>2. parent[m] # NoNode /\ color[parent[m]] = "BLACK" /\ parent[m] \in Item
      BY <3>1, <1>1 DEF Reds, Parents
    <3>3. parent[m] # s
      <4> SUFFICES ASSUME parent[m] = s PROVE FALSE
        OBVIOUS
      <4>1. PICK b \in Sides : child[b][s] = m
        BY <3>2 DEF Shape, Wired
      <4> QED
        BY <4>1, <3>1, <1>1 DEF IsRed
    <3> QED
      BY <3>2, <3>3, <1>2
  <2> QED
    BY <2>1, <2>2
<1>4. Blanks(child, parent, color', items, dead)
  BY <1>1, <1>2 DEF Blanks
<1> QED
  BY <1>1, <1>2, <1>3, <1>4 DEF Faded

\* The subtree of at is level now, and shorter by a black node unless at was red.
LEMMA InvShortenSibling == ASSUME TreeInv, ShortenSibling PROVE TreeInv'
<1>1. PICK top \in Item \cup {NoNode}, pos \in Positions, bound \in Bounds :
         Sound(top, pos, bound) /\ Placed(top, pos, bound)
  BY DEF TreeInv
<1>2. TreeTypeOK
  BY DEF TreeInv
<1>e. PICK e : e = Side
  OBVIOUS
<1>s. PICK s : s = Sibling
  OBVIOUS
<1>n. PICK n : n = node
  OBVIOUS
<1>3. /\ Lacking(e, s, n) /\ e \in Sides /\ given = {}
      /\ Reds(parent, color, items, NoNode) /\ Level(child, color, items, at, e)
      /\ KeysGrow(items \ {}, pos) /\ Blanks(child, parent, color, items, dead)
      /\ Shape(child, parent, items, top, pos, bound)
      /\ items \in SUBSET Item /\ child \in Links /\ parent \in Parents
      /\ color \in Colors /\ NoNode \notin Item
  <2>1. step \in Removing /\ at # NoNode
    BY <1>1 DEF ShortenSibling, Removing, Placed, Deleting
  <2> QED
    BY <2>1, <1>1, <1>2, <1>e, <1>s, <1>n, RemovalStart
<1>4. PICK a \in items : a = at
  BY <1>3 DEF Lacking
<1>5. /\ items' = items /\ child' = child /\ parent' = parent /\ root' = root
      /\ dead' = dead /\ given' = given /\ step' = "shorter" /\ node' = a /\ at' = parent[a]
      /\ color[a] = "BLACK" /\ PaleSibling /\ color' = [color EXCEPT ![s] = "RED"]
  BY <1>4, <1>s DEF ShortenSibling, headerVars
<1>6. /\ color' \in Colors /\ Faded(color, at, s, color')
      /\ Reds(parent, color', items, NoNode) /\ Blanks(child, parent, color', items, dead)
      /\ color[s] = "BLACK"
  <2>1. color' = [color EXCEPT ![s] = "RED", ![at] = "BLACK"]
    BY <1>3, <1>4, <1>5 DEF Colors, Lacking
  <2>2. PaleSibling
    BY <1>5
  <2> QED
    BY <2>1, <2>2, <1>2, <1>3, FadeReds
<1>7. PICK p \in items \cup {NoNode} : p = parent[a]
  BY <1>3 DEF Shape, Wired
<1>8. PICK e2 \in Sides : e2 = SideOf(p, a)
  BY DEF SideOf, Sides
<1>9. p # NoNode => child[e2][p] = a
  <2> SUFFICES ASSUME p # NoNode PROVE child[e2][p] = a
    OBVIOUS
  <2>1. PICK b \in Sides : child[b][p] = a
    BY <1>3, <1>7 DEF Shape, Wired
  <2> QED
    BY <2>1, <1>8 DEF SideOf, Sides
<1>10. Level(child, color', items, p, e2)
  <2>1. s = child[Other(e)][a] /\ s # NoNode
    BY <1>3, <1>4 DEF Lacking
  <2>2. Level(child, color, items, a, e) /\ Faded(color, a, s, color')
    BY <1>3, <1>4, <1>6
  <2>3. p = IF color[a] = "BLACK" THEN parent[a] ELSE NoNode
    BY <1>5, <1>7
  <2> QED
    BY <2>1, <2>2, <2>3, <1>3, <1>6, <1>9, FadeEven
<1>11. TreeTypeOK'
  BY <1>2, <1>3, <1>4, <1>5, <1>6, <1>7 DEF TreeTypeOK
<1>12. Sound(top, pos, bound)'
  <2>1. Spared' = NoNode /\ Low' = p /\ LowSide' = e2 /\ Unordered' = {}
    BY <1>5, <1>7, <1>8 DEF Spared, Low, LowSide, Unordered, Adding, Removing, Side, SideOf
  <2> QED
    BY <2>1, <1>3, <1>5, <1>6, <1>10 DEF Sound
<1>13. Placed(top, pos, bound)'
  <2>1. color'[a] = "BLACK"
    BY <1>3, <1>4, <1>5, <1>6 DEF Faded, Lacking
  <2>2. Side' = e2
    BY <1>5, <1>7, <1>8 DEF Side, SideOf
  <2>3. Deleting(pos, bound)'
    BY <2>1, <2>2, <1>5, <1>7, <1>9 DEF Deleting, IsRed
  <2> QED
    BY <2>3, <1>3, <1>5 DEF Placed, Header, Inserting, Iterating, Still, Adding, Removing
<1> QED
  BY <1>11, <1>12, <1>13 DEF TreeInv

\* With at turning black, nothing is missing any more.
LEMMA InvSwapColors == ASSUME TreeInv, SwapColors PROVE TreeInv'
<1>1. PICK top \in Item \cup {NoNode}, pos \in Positions, bound \in Bounds :
         Sound(top, pos, bound) /\ Placed(top, pos, bound)
  BY DEF TreeInv
<1>2. TreeTypeOK
  BY DEF TreeInv
<1>e. PICK e : e = Side
  OBVIOUS
<1>s. PICK s : s = Sibling
  OBVIOUS
<1>n. PICK n : n = node
  OBVIOUS
<1>3. /\ Lacking(e, s, n) /\ e \in Sides /\ given = {}
      /\ Reds(parent, color, items, NoNode) /\ Level(child, color, items, at, e)
      /\ KeysGrow(items \ {}, pos) /\ Blanks(child, parent, color, items, dead)
      /\ Shape(child, parent, items, top, pos, bound)
      /\ items \in SUBSET Item /\ child \in Links /\ parent \in Parents
      /\ color \in Colors /\ NoNode \notin Item
  <2>1. step \in Removing /\ at # NoNode
    BY <1>1 DEF SwapColors, Removing, Placed, Deleting
  <2> QED
    BY <2>1, <1>1, <1>2, <1>e, <1>s, <1>n, RemovalStart
<1>4. PICK a \in items : a = at
  BY <1>3 DEF Lacking
<1>5. /\ items' = items /\ child' = child /\ parent' = parent /\ root' = root
      /\ dead' = dead /\ given' = given /\ step' = "delete" /\ node' = NoNode /\ at' = NoNode
      /\ color[a] = "RED"
  BY <1>4 DEF SwapColors, Balanced, headerVars
<1>6. /\ color' \in Colors /\ Faded(color, at, s, color')
      /\ Reds(parent, color', items, NoNode) /\ Blanks(child, parent, color', items, dead)
      /\ color[s] = "BLACK"
  <2>1. color' = [color EXCEPT ![s] = "RED", ![at] = "BLACK"]
    BY <1>s DEF SwapColors
  <2>2. PaleSibling
    BY DEF SwapColors
  <2> QED
    BY <2>1, <2>2, <1>2, <1>3, FadeReds
<1>10. Level(child, color', items, NoNode, "left")
  <2>1. s = child[Other(e)][a] /\ s # NoNode
    BY <1>3, <1>4 DEF Lacking
  <2>2. Level(child, color, items, a, e) /\ Faded(color, a, s, color')
    BY <1>3, <1>4, <1>6
  <2>3. NoNode = IF color[a] = "BLACK" THEN parent[a] ELSE NoNode
    BY <1>5
  <2>4. "left" \in Sides /\ (NoNode # NoNode => child["left"][NoNode] = a)
    BY DEF Sides
  <2> QED
    BY <2>1, <2>2, <2>3, <2>4, <1>3, <1>6, FadeEven
<1>11. TreeTypeOK'
  BY <1>2, <1>3, <1>5, <1>6 DEF TreeTypeOK
<1>12. Sound(top, pos, bound)'
  <2>1. Spared' = NoNode /\ Low' = NoNode /\ LowSide' = "left" /\ Unordered' = {}
    BY <1>5 DEF Spared, Low, LowSide, Unordered, Adding, Removing
  <2> QED
    BY <2>1, <1>3, <1>5, <1>6, <1>10 DEF Sound
<1>13. Placed(top, pos, bound)'
  BY <1>3, <1>5
  DEF Placed, Header, Inserting, Deleting, Iterating, Still, Adding, Removing
<1> QED
  BY <1>11, <1>12, <1>13 DEF TreeInv

\* A red sibling rises, and the black child it loses is the sibling now.
LEMMA TurnRedSibling ==
    ASSUME TreeTypeOK, NEW e \in Sides, NEW s, NEW n, NEW a, a = at, Lacking(e, s, n),
           NEW top, NEW pos \in Positions, NEW bound \in Bounds,
           Shape(child, parent, items, top, pos, bound),
           Reds(parent, color, items, NoNode), Blanks(child, parent, color, items, dead),
           Level(child, color, items, a, e), color[s] = "RED",
           Rotate(a, e), Darkened(color, s, a, color')
    PROVE  /\ child' \in Links /\ parent' \in Parents /\ color' \in Colors
           /\ Hangs(child', parent', items, IF a = top THEN s ELSE top, pos)
           /\ Reds(parent', color', items, NoNode) /\ Level(child', color', items, a, e)
           /\ Blanks(child', parent', color', items, dead)
           /\ child'[e][a] = n /\ child'[Other(e)][a] # n
           /\ color'[child'[Other(e)][a]] = "BLACK"
           /\ n # NoNode => color'[n] # "RED"
<1>1. /\ a \in items /\ a # NoNode /\ s \in items /\ s # NoNode /\ s # a /\ s # n /\ n # a
      /\ child[e][a] = n /\ child[Other(e)][a] = s /\ parent[s] = a
      /\ s # parent[a] /\ ~IsRed(n)
      /\ \A m \in items : parent[m] = a => m = n \/ m = s
  BY DEF Lacking
<1>2. /\ items \in SUBSET Item /\ child \in Links /\ parent \in Parents /\ color \in Colors
      /\ NoNode \notin Item
      /\ Other(e) \in Sides /\ Other(e) # e /\ \A b \in Sides : b = e \/ b = Other(e)
  BY TreeAssumption DEF TreeTypeOK, Sides, Other
<1>3. /\ child' \in Links /\ parent' \in Parents
      /\ Turned(child, parent, a, e, child', parent')
      /\ Hangs(child', parent', items, IF a = top THEN child[Other(e)][a] ELSE top, pos)
      /\ Blanks(child', parent', color, items, dead)
  <2>1. child[Other(e)][a] # NoNode
    BY <1>1
  <2> QED
    BY <1>1, <2>1, RotateKeeps
<1>4. Below(child, parent, items, top, pos, bound)
  BY <1>2, ChildFacts
<1>5. color' \in Colors /\ \A m \in Item : color'[m] = IF m = a THEN "RED"
                                              ELSE IF m = s THEN "BLACK" ELSE color[m]
  BY DEF Darkened
<1>c. color' \in Colors
  BY <1>5
<1>6. color[a] = "BLACK"
  BY <1>1 DEF Reds
<1>7. Level(child', color', items, a, e)
  <2>1. Exchanged(color, items, a, s, color')
    BY <1>1, <1>2, <1>5, <1>6 DEF Exchanged
  <2>2. s = child[Other(e)][a]
    BY <1>1
  <2>3. a # s /\ (a = a => e = e)
    BY <1>1
  <2>4. s # NoNode
    BY <1>1
  <2>5. a \in items
    BY <1>1
  <2>6. items \in SUBSET Item /\ child \in Links /\ parent \in Parents /\ color \in Colors
    BY <1>2
  <2> QED
    BY <2>1, <2>2, <2>3, <2>4, <2>5, <2>6, <1>3, <1>c, TurnEven
<1> PICK inner : inner = child[e][s]
  OBVIOUS
<1>8. /\ \A b \in Sides, m \in Item :
            child'[b][m] = IF m = a /\ b # e THEN inner
                           ELSE IF m = s /\ b = e THEN a
                           ELSE IF m = parent[a] /\ child[b][m] = a THEN s
                           ELSE child[b][m]
      /\ \A m \in Item :
            parent'[m] = IF m = s THEN parent[a] ELSE IF m = a THEN s
                         ELSE IF m = inner THEN a ELSE parent[m]
  BY <1>1, <1>3 DEF Turned
<1>9. inner # NoNode => inner \in items /\ parent[inner] = s /\ inner # n /\ inner # s /\ inner # a
                        /\ color[inner] = "BLACK" /\ inner \in Item
  <2> SUFFICES ASSUME inner # NoNode
               PROVE  inner \in items /\ parent[inner] = s /\ inner # n /\ inner # s /\ inner # a
                      /\ color[inner] = "BLACK" /\ inner \in Item
    OBVIOUS
  <2>1. inner \in items /\ parent[inner] = s /\ inner # s /\ inner # parent[s]
    BY <1>1, <1>4 DEF Below
  <2>2. n # NoNode => parent[n] = a
    BY <1>1, <1>4 DEF Below
  <2>3. color[inner] # "RED"
    BY <2>1, <1>1 DEF Reds
  <2> QED
    BY <2>1, <2>2, <2>3, <1>1, <1>2 DEF Colors
<1>10. child'[e][a] = n /\ child'[Other(e)][a] = inner
  <2>1. a \in Item /\ a # parent[a]
    <3>1. parent[a] # a
      BY <1>1, <1>4 DEF Below, Shape, Wired
    <3> QED
      BY <3>1, <1>1, <1>2
  <2> QED
    BY <2>1, <1>1, <1>2, <1>8
<1>11. inner # NoNode
  <2> PICK top2 : top2 = IF a = top THEN child[Other(e)][a] ELSE top
    OBVIOUS
  <2>1. PICK b2 \in Bounds : Shape(child', parent', items, top2, pos, b2)
    BY <1>3 DEF Hangs
  <2>2. a \in items
    BY <1>1
  <2>3. items \in SUBSET Item
    BY <1>2
  <2>4. child'[Other(e)][a] # NoNode
    BY <2>1, <2>2, <2>3, <1>3, <1>7, <1>c, SiblingThere
  <2> QED
    BY <2>4, <1>10
<1>12. Reds(parent', color', items, NoNode)
  <2> SUFFICES ASSUME NEW m \in items, color'[m] = "RED"
               PROVE  parent'[m] # NoNode /\ color'[parent'[m]] = "BLACK"
    BY DEF Reds
  <2>0. m \in Item /\ m # s /\ s \in Item
    BY <1>1, <1>2, <1>5
  <2>1. CASE m = a
    BY <2>0, <2>1, <1>1, <1>2, <1>5, <1>8
  <2>2. CASE m # a
    <3>1. color[m] = "RED"
      BY <2>0, <2>2, <1>5
    <3>2. parent[m] # NoNode /\ color[parent[m]] = "BLACK" /\ parent[m] \in Item
      BY <2>0, <3>1, <1>2 DEF Reds, Parents
    <3>3. m # inner /\ m # n
      BY <3>1, <2>0, <1>1, <1>2, <1>9 DEF IsRed
    <3>4. parent[m] # a /\ parent[m] # s
      BY <3>2, <3>3, <2>0, <1>1
    <3> QED
      BY <3>2, <3>3, <3>4, <2>0, <2>2, <1>5, <1>8
  <2> QED
    BY <2>1, <2>2
<1>13. Blanks(child', parent', color', items, dead)
  <2>1. \A m \in Item \ items : color'[m] = color[m]
    BY <1>1, <1>5
  <2> QED
    BY <1>3, <2>1 DEF Blanks
<1>14. /\ color'[inner] = "BLACK" /\ inner # n
       /\ n # NoNode => color'[n] # "RED"
  <2>1. n # NoNode => n \in Item
    BY <1>1, <1>2, <1>4 DEF Below
  <2> QED
    BY <2>1, <1>1, <1>5, <1>9, <1>11 DEF IsRed
<1>15. Hangs(child', parent', items, IF a = top THEN s ELSE top, pos)
  BY <1>1, <1>3
<1> QED
  BY <1>3, <1>c, <1>7, <1>10, <1>12, <1>13, <1>14, <1>15

\* Where the sibling is now.
LEMMA SideAfter ==
    ASSUME at' = at, node' = node, NEW e \in Sides,
           child'[e][at] = node, child'[Other(e)][at] # node
    PROVE  Side' = e /\ Sibling' = child'[Other(e)][at]
BY DEF Side, SideOf, Sibling, Sides, Other

\* delete_node_complex2.
LEMMA InvRedSibling == ASSUME TreeInv, RedSibling PROVE TreeInv'
<1>1. PICK top \in Item \cup {NoNode}, pos \in Positions, bound \in Bounds :
         Sound(top, pos, bound) /\ Placed(top, pos, bound)
  BY DEF TreeInv
<1>2. TreeTypeOK
  BY DEF TreeInv
<1>e. PICK e : e = Side
  OBVIOUS
<1>s. PICK s : s = Sibling
  OBVIOUS
<1>n. PICK n : n = node
  OBVIOUS
<1>3. /\ Lacking(e, s, n) /\ e \in Sides /\ given = {}
      /\ Reds(parent, color, items, NoNode) /\ Level(child, color, items, at, e)
      /\ KeysGrow(items \ {}, pos) /\ Blanks(child, parent, color, items, dead)
      /\ Shape(child, parent, items, top, pos, bound)
      /\ items \in SUBSET Item /\ child \in Links /\ parent \in Parents
      /\ color \in Colors /\ NoNode \notin Item
  <2>1. step \in Removing /\ at # NoNode
    BY DEF RedSibling, Removing
  <2> QED
    BY <2>1, <1>1, <1>2, <1>e, <1>s, <1>n, RemovalStart
<1>4. PICK a \in items : a = at
  BY <1>3 DEF Lacking
<1>5. /\ items' = items /\ root' = root /\ dead' = dead /\ given' = given /\ step' = "pale"
      /\ node' = n /\ at' = a /\ at # NoNode
      /\ IF color[s] = "RED" THEN /\ color' = [color EXCEPT ![a] = "RED", ![s] = "BLACK"]
                                  /\ Rotate(a, e)
         ELSE child' = child /\ parent' = parent /\ color' = color
  BY <1>4, <1>e, <1>s, <1>n DEF RedSibling, headerVars, fieldVars
<1>6. \E top2 \in Item \cup {NoNode} :
         /\ child' \in Links /\ parent' \in Parents /\ color' \in Colors
         /\ Hangs(child', parent', items, top2, pos)
         /\ Reds(parent', color', items, NoNode) /\ Level(child', color', items, a, e)
         /\ Blanks(child', parent', color', items, dead)
         /\ child'[e][a] = n /\ child'[Other(e)][a] # n
         /\ color'[child'[Other(e)][a]] = "BLACK"
         /\ n # NoNode => color'[n] # "RED"
  <2>1. CASE color[s] = "RED"
    <3>1. Rotate(a, e) /\ Darkened(color, s, a, color')
      <4>1. s \in Item /\ a \in Item /\ s # a
        BY <1>3, <1>4 DEF Lacking
      <4> QED
        BY <4>1, <2>1, <1>3, <1>5 DEF Darkened, Colors
    <3>2. PICK top2 \in Item \cup {NoNode} : top2 = IF a = top THEN s ELSE top
      BY <1>3 DEF Lacking
    <3>3. Level(child, color, items, a, e)
      BY <1>3, <1>4
    <3> QED
      BY <2>1, <3>1, <3>2, <3>3, <1>2, <1>3, <1>4, TurnRedSibling
  <2>2. CASE color[s] # "RED"
    <3>1. child' = child /\ parent' = parent /\ color' = color
      BY <2>2, <1>5
    <3>2. Hangs(child, parent, items, top, pos)
      BY <1>3 DEF Hangs
    <3>3. /\ child[e][a] = n /\ child[Other(e)][a] = s /\ s # n /\ s \in Item
          /\ n # NoNode => color[n] # "RED"
      BY <1>3, <1>4 DEF Lacking, IsRed
    <3>4. color[s] = "BLACK"
      BY <2>2, <3>3, <1>3 DEF Colors
    <3> QED
      BY <3>1, <3>2, <3>3, <3>4, <1>3, <1>4
  <2> QED
    BY <2>1, <2>2
<1>7. PICK top2 \in Item \cup {NoNode} :
         /\ child' \in Links /\ parent' \in Parents /\ color' \in Colors
         /\ Hangs(child', parent', items, top2, pos)
         /\ Reds(parent', color', items, NoNode) /\ Level(child', color', items, a, e)
         /\ Blanks(child', parent', color', items, dead)
         /\ child'[e][a] = n /\ child'[Other(e)][a] # n
         /\ color'[child'[Other(e)][a]] = "BLACK"
         /\ n # NoNode => color'[n] # "RED"
  BY <1>6
<1>8. PICK b2 \in Bounds : Shape(child', parent', items, top2, pos, b2)
  BY <1>7 DEF Hangs
<1>9. Side' = e /\ Sibling' = child'[Other(e)][at]
  BY <1>3, <1>4, <1>5, <1>7, <1>n, SideAfter
<1>11. TreeTypeOK'
  BY <1>2, <1>3, <1>4, <1>5, <1>7, <1>n DEF TreeTypeOK
<1>12. Sound(top2, pos, b2)'
  <2>1. Spared' = NoNode /\ Low' = a /\ LowSide' = e /\ Unordered' = {}
    BY <1>5, <1>9 DEF Spared, Low, LowSide, Unordered, Adding, Removing
  <2> QED
    BY <2>1, <1>3, <1>5, <1>7, <1>8 DEF Sound
<1>13. Placed(top2, pos, b2)'
  <2>1. Deleting(pos, b2)'
    BY <1>4, <1>5, <1>7, <1>9 DEF Deleting, IsRed, Removing
  <2> QED
    BY <2>1, <1>3, <1>5 DEF Placed, Header, Inserting, Iterating, Still, Adding, Removing
<1> QED
  BY <1>11, <1>12, <1>13 DEF TreeInv

\* The red inner child of the black sibling rises, and is the sibling now.
LEMMA TurnNear ==
    ASSUME TreeTypeOK, NEW e \in Sides, NEW s, NEW n, NEW a, a = at, Lacking(e, s, n),
           NEW top, NEW pos \in Positions, NEW bound \in Bounds,
           Shape(child, parent, items, top, pos, bound),
           Reds(parent, color, items, NoNode), Blanks(child, parent, color, items, dead),
           Level(child, color, items, a, e), color[s] = "BLACK",
           NEW near, near = child[e][s], near # NoNode, color[near] = "RED",
           ~IsRed(child[Other(e)][s]),
           Rotate(s, Other(e)), Darkened(color, near, s, color')
    PROVE  /\ child' \in Links /\ parent' \in Parents /\ color' \in Colors
           /\ Hangs(child', parent', items, IF s = top THEN near ELSE top, pos)
           /\ Reds(parent', color', items, NoNode) /\ Level(child', color', items, a, e)
           /\ Blanks(child', parent', color', items, dead)
           /\ child'[e][a] = n /\ child'[Other(e)][a] = near /\ near # n
           /\ color'[near] = "BLACK"
           /\ child'[Other(e)][near] = s /\ color'[s] = "RED" /\ s # NoNode
           /\ n # NoNode => color'[n] # "RED"
<1>1. /\ a \in items /\ a # NoNode /\ s \in items /\ s # NoNode /\ s # a /\ s # n /\ n # a
      /\ child[e][a] = n /\ child[Other(e)][a] = s /\ parent[s] = a
      /\ s # parent[a] /\ ~IsRed(n)
      /\ \A m \in items : parent[m] = a => m = n \/ m = s
  BY DEF Lacking
<1>2. /\ items \in SUBSET Item /\ child \in Links /\ parent \in Parents /\ color \in Colors
      /\ NoNode \notin Item
      /\ Other(e) \in Sides /\ Other(e) # e /\ \A b \in Sides : b = e \/ b = Other(e)
      /\ Other(Other(e)) = e
  BY TreeAssumption DEF TreeTypeOK, Sides, Other
<1>o. PICK o : o = Other(e)
  OBVIOUS
<1>3. /\ child' \in Links /\ parent' \in Parents
      /\ Turned(child, parent, s, o, child', parent')
      /\ Hangs(child', parent', items, IF s = top THEN child[Other(o)][s] ELSE top, pos)
      /\ Blanks(child', parent', color, items, dead)
  <2>1. o \in Sides /\ child[Other(o)][s] # NoNode /\ Rotate(s, o)
    BY <1>2, <1>o
  <2> QED
    BY <1>1, <2>1, RotateKeeps
<1>4. Below(child, parent, items, top, pos, bound)
  BY <1>2, ChildFacts
<1>5. color' \in Colors /\ \A m \in Item : color'[m] = IF m = s THEN "RED"
                                              ELSE IF m = near THEN "BLACK" ELSE color[m]
  BY DEF Darkened
<1>c. color' \in Colors
  BY <1>5
<1>6. /\ near \in items /\ near \in Item /\ near # s /\ near # a /\ parent[near] = s
      /\ s \in Item /\ a \in Item
  BY <1>1, <1>2, <1>4 DEF Below
<1>7. Level(child', color', items, a, e)
  <2>1. Exchanged(color, items, s, near, color')
    BY <1>1, <1>2, <1>5, <1>6 DEF Exchanged
  <2>2. near = child[Other(o)][s] /\ o \in Sides
    BY <1>2, <1>o
  <2>3. a # near /\ (a = s => e = o)
    BY <1>1, <1>6
  <2>5. s \in items
    BY <1>1
  <2>6. items \in SUBSET Item /\ child \in Links /\ parent \in Parents /\ color \in Colors
    BY <1>2
  <2> QED
    BY <2>1, <2>2, <2>3, <2>5, <2>6, <1>3, <1>c, TurnEven
<1> PICK inner : inner = child[o][near]
  OBVIOUS
<1>8. /\ \A b \in Sides, m \in Item :
            child'[b][m] = IF m = s /\ b # o THEN inner
                           ELSE IF m = near /\ b = o THEN s
                           ELSE IF m = a /\ child[b][m] = s THEN near
                           ELSE child[b][m]
      /\ \A m \in Item :
            parent'[m] = IF m = near THEN a ELSE IF m = s THEN near
                         ELSE IF m = inner THEN s ELSE parent[m]
  BY <1>1, <1>2, <1>3, <1>o DEF Turned
<1>9. inner # NoNode => color[inner] # "RED"
  <2> SUFFICES ASSUME inner # NoNode PROVE color[inner] # "RED"
    OBVIOUS
  <2>1. inner \in items /\ parent[inner] = near
    BY <1>2, <1>4, <1>6, <1>o DEF Below
  <2> QED
    BY <2>1, <1>1, <1>2 DEF Reds
<1>10. child'[e][a] = n /\ child'[o][a] = near /\ child'[o][near] = s
  BY <1>1, <1>2, <1>6, <1>8, <1>o
<1>11. n # near
  <2>1. n # NoNode => parent[n] = a
    BY <1>1, <1>4 DEF Below
  <2> QED
    BY <2>1, <1>1, <1>6
<1>12. Reds(parent', color', items, NoNode)
  <2> SUFFICES ASSUME NEW m \in items, color'[m] = "RED"
               PROVE  parent'[m] # NoNode /\ color'[parent'[m]] = "BLACK"
    BY DEF Reds
  <2>0. m \in Item /\ m # near
    BY <1>1, <1>2, <1>5, <1>6
  <2>1. CASE m = s
    BY <2>0, <2>1, <1>5, <1>6, <1>8
  <2>2. CASE m # s
    <3>1. color[m] = "RED"
      BY <2>0, <2>2, <1>5
    <3>2. parent[m] # NoNode /\ color[parent[m]] = "BLACK" /\ parent[m] \in Item
      BY <2>0, <3>1, <1>2 DEF Reds, Parents
    <3>3. m # inner
      BY <3>1, <2>0, <1>2, <1>9
    <3>4. parent[m] # s
      <4> SUFFICES ASSUME parent[m] = s PROVE FALSE
        OBVIOUS
      <4>1. PICK b \in Sides : child[b][s] = m
        BY <3>2 DEF Shape, Wired
      <4> QED
        BY <4>1, <3>1, <2>0, <1>2 DEF IsRed
    <3>5. parent[m] # near
      BY <3>2
    <3> QED
      BY <3>2, <3>3, <3>4, <3>5, <2>0, <2>2, <1>5, <1>8
  <2> QED
    BY <2>1, <2>2
<1>13. Blanks(child', parent', color', items, dead)
  <2>1. \A m \in Item \ items : color'[m] = color[m]
    BY <1>1, <1>5, <1>6
  <2> QED
    BY <1>3, <2>1 DEF Blanks
<1>14. color'[near] = "BLACK" /\ color'[s] = "RED" /\ (n # NoNode => color'[n] # "RED")
  <2>1. n # NoNode => n \in Item
    BY <1>1, <1>2, <1>4 DEF Below
  <2> QED
    BY <2>1, <1>1, <1>5, <1>6, <1>11 DEF IsRed
<1>15. Hangs(child', parent', items, IF s = top THEN near ELSE top, pos)
  BY <1>2, <1>3, <1>o
<1> QED
  BY <1>1, <1>3, <1>c, <1>7, <1>10, <1>11, <1>12, <1>13, <1>14, <1>15, <1>o

\* delete_node_complex5.
LEMMA InvBorrowInner == ASSUME TreeInv, BorrowInner PROVE TreeInv'
<1>1. PICK top \in Item \cup {NoNode}, pos \in Positions, bound \in Bounds :
         Sound(top, pos, bound) /\ Placed(top, pos, bound)
  BY DEF TreeInv
<1>2. TreeTypeOK
  BY DEF TreeInv
<1>e. PICK e : e = Side
  OBVIOUS
<1>s. PICK s : s = Sibling
  OBVIOUS
<1>n. PICK n : n = node
  OBVIOUS
<1>t. /\ step \in Removing /\ at # NoNode /\ color[s] = "BLACK"
      /\ step' = "borrow" /\ ~PaleSibling
  BY <1>1, <1>s DEF BorrowInner, Removing, Placed, Deleting
<1>3. /\ Lacking(e, s, n) /\ e \in Sides /\ given = {}
      /\ Reds(parent, color, items, NoNode) /\ Level(child, color, items, at, e)
      /\ KeysGrow(items \ {}, pos) /\ Blanks(child, parent, color, items, dead)
      /\ Shape(child, parent, items, top, pos, bound)
      /\ items \in SUBSET Item /\ child \in Links /\ parent \in Parents
      /\ color \in Colors /\ NoNode \notin Item
  BY <1>t, <1>1, <1>2, <1>e, <1>s, <1>n, RemovalStart
<1>4. PICK a \in items : a = at
  BY <1>3 DEF Lacking
<1> PICK near : near = child[e][s]
  OBVIOUS
<1>5. /\ items' = items /\ root' = root /\ dead' = dead /\ given' = given /\ step' = "borrow"
      /\ node' = n /\ at' = a
      /\ IF ~IsRed(child[Other(e)][s]) /\ IsRed(near)
         THEN /\ color' = [color EXCEPT ![s] = "RED", ![near] = "BLACK"]
              /\ Rotate(s, Other(e))
         ELSE child' = child /\ parent' = parent /\ color' = color
  BY <1>t, <1>4, <1>e, <1>s, <1>n DEF BorrowInner, headerVars, fieldVars
<1>6. \E top2 \in Item \cup {NoNode}, s2 \in Item :
         /\ child' \in Links /\ parent' \in Parents /\ color' \in Colors
         /\ Hangs(child', parent', items, top2, pos)
         /\ Reds(parent', color', items, NoNode) /\ Level(child', color', items, a, e)
         /\ Blanks(child', parent', color', items, dead)
         /\ child'[e][a] = n /\ child'[Other(e)][a] = s2 /\ s2 # n
         /\ color'[s2] = "BLACK" /\ IsRed(child[Other(e)][s2])'
         /\ n # NoNode => color'[n] # "RED"
  <2>1. CASE ~IsRed(child[Other(e)][s]) /\ IsRed(near)
    <3>0. /\ near # NoNode /\ color[near] = "RED" /\ s \in items /\ s \in Item /\ near \in Item
          /\ near # s
      BY <2>1, <1>t, <1>3 DEF IsRed, Lacking, Links
    <3>1. Rotate(s, Other(e)) /\ Darkened(color, near, s, color')
      BY <2>1, <3>0, <1>3, <1>5 DEF Darkened, Colors
    <3>2. PICK top2 \in Item \cup {NoNode} : top2 = IF s = top THEN near ELSE top
      BY <3>0
    <3>3. Level(child, color, items, a, e) /\ ~IsRed(child[Other(e)][s])
      BY <2>1, <1>3, <1>4
    <3>4. /\ child' \in Links /\ parent' \in Parents /\ color' \in Colors
          /\ Hangs(child', parent', items, IF s = top THEN near ELSE top, pos)
          /\ Reds(parent', color', items, NoNode) /\ Level(child', color', items, a, e)
          /\ Blanks(child', parent', color', items, dead)
          /\ child'[e][a] = n /\ child'[Other(e)][a] = near /\ near # n
          /\ color'[near] = "BLACK"
          /\ child'[Other(e)][near] = s /\ color'[s] = "RED" /\ s # NoNode
          /\ n # NoNode => color'[n] # "RED"
      BY <3>0, <3>1, <3>3, <1>2, <1>3, <1>4, <1>t, TurnNear
    <3>5. IsRed(child[Other(e)][near])'
      BY <3>4 DEF IsRed
    <3> QED
      BY <3>0, <3>2, <3>4, <3>5
  <2>2. CASE ~(~IsRed(child[Other(e)][s]) /\ IsRed(near))
    <3>1. child' = child /\ parent' = parent /\ color' = color
      BY <2>2, <1>5
    <3>2. Hangs(child, parent, items, top, pos)
      BY <1>3 DEF Hangs
    <3>3. /\ child[e][a] = n /\ child[Other(e)][a] = s /\ s # n /\ s \in Item
          /\ n # NoNode => color[n] # "RED"
      BY <1>3, <1>4 DEF Lacking, IsRed
    <3>4. IsRed(child[Other(e)][s])
      BY <2>2, <1>t, <1>3, <1>s DEF PaleSibling, Sides, Other
    <3>5. IsRed(child[Other(e)][s])'
      BY <3>1, <3>4 DEF IsRed
    <3> QED
      BY <3>1, <3>2, <3>3, <3>5, <1>3, <1>4, <1>t
  <2> QED
    BY <2>1, <2>2
<1>7. PICK top2 \in Item \cup {NoNode}, s2 \in Item :
         /\ child' \in Links /\ parent' \in Parents /\ color' \in Colors
         /\ Hangs(child', parent', items, top2, pos)
         /\ Reds(parent', color', items, NoNode) /\ Level(child', color', items, a, e)
         /\ Blanks(child', parent', color', items, dead)
         /\ child'[e][a] = n /\ child'[Other(e)][a] = s2 /\ s2 # n
         /\ color'[s2] = "BLACK" /\ IsRed(child[Other(e)][s2])'
         /\ n # NoNode => color'[n] # "RED"
  BY <1>6
<1>8. PICK b2 \in Bounds : Shape(child', parent', items, top2, pos, b2)
  BY <1>7 DEF Hangs
<1>9. Side' = e /\ Sibling' = s2
  <2>1. Side' = e /\ Sibling' = child'[Other(e)][at]
    BY <1>3, <1>4, <1>5, <1>7, <1>n, SideAfter
  <2> QED
    BY <2>1, <1>4, <1>7
<1>11. TreeTypeOK'
  BY <1>2, <1>3, <1>4, <1>5, <1>7, <1>n DEF TreeTypeOK
<1>12. Sound(top2, pos, b2)'
  <2>1. Spared' = NoNode /\ Low' = a /\ LowSide' = e /\ Unordered' = {}
    BY <1>5, <1>9 DEF Spared, Low, LowSide, Unordered, Adding, Removing
  <2> QED
    BY <2>1, <1>3, <1>5, <1>7, <1>8 DEF Sound
<1>13. Placed(top2, pos, b2)'
  <2>1. Deleting(pos, b2)'
    <3>1. IsRed(child[Other(Side)][Sibling])'
      BY <1>7, <1>9
    <3> QED
      BY <3>1, <1>3, <1>4, <1>5, <1>7, <1>9 DEF Deleting, IsRed, Removing
  <2> QED
    BY <2>1, <1>3, <1>5 DEF Placed, Header, Inserting, Iterating, Still, Adding, Removing
<1> QED
  BY <1>11, <1>12, <1>13 DEF TreeInv

\* The sibling takes the place and colour of at, whose subtree gains a black node.
LEMMA TurnFar ==
    ASSUME TreeTypeOK, NEW e \in Sides, NEW s, NEW n, NEW a, a = at, Lacking(e, s, n),
           NEW top, NEW pos \in Positions, NEW bound \in Bounds,
           Shape(child, parent, items, top, pos, bound),
           Reds(parent, color, items, NoNode), Blanks(child, parent, color, items, dead),
           Level(child, color, items, a, e), color[s] = "BLACK",
           NEW far, far = child[Other(e)][s], far # NoNode, color[far] = "RED",
           Rotate(a, e), color' \in Colors, Mended(color, Item, a, s, far, color')
    PROVE  /\ child' \in Links /\ parent' \in Parents
           /\ Hangs(child', parent', items, IF a = top THEN s ELSE top, pos)
           /\ Reds(parent', color', items, NoNode)
           /\ Level(child', color', items, NoNode, "left")
           /\ Blanks(child', parent', color', items, dead)
<1>1. /\ a \in items /\ a # NoNode /\ s \in items /\ s # NoNode /\ s # a /\ s # n /\ n # a
      /\ child[e][a] = n /\ child[Other(e)][a] = s /\ parent[s] = a
      /\ s # parent[a] /\ ~IsRed(n)
      /\ \A m \in items : parent[m] = a => m = n \/ m = s
  BY DEF Lacking
<1>2. /\ items \in SUBSET Item /\ child \in Links /\ parent \in Parents /\ color \in Colors
      /\ NoNode \notin Item /\ "left" \in Sides
      /\ Other(e) \in Sides /\ Other(e) # e /\ \A b \in Sides : b = e \/ b = Other(e)
  BY TreeAssumption DEF TreeTypeOK, Sides, Other
<1>3. /\ child' \in Links /\ parent' \in Parents
      /\ Turned(child, parent, a, e, child', parent')
      /\ Hangs(child', parent', items, IF a = top THEN child[Other(e)][a] ELSE top, pos)
      /\ Blanks(child', parent', color, items, dead)
  <2>1. child[Other(e)][a] # NoNode
    BY <1>1
  <2> QED
    BY <1>1, <2>1, RotateKeeps
<1>4. Below(child, parent, items, top, pos, bound)
  BY <1>2, ChildFacts
<1>5. \A m \in Item : color'[m] = IF m = a THEN "BLACK" ELSE IF m = s THEN color[a]
                                  ELSE IF m = far THEN "BLACK" ELSE color[m]
  BY DEF Mended
<1>6. /\ far \in items /\ far \in Item /\ far # s /\ far # a /\ parent[far] = s
      /\ s \in Item /\ a \in Item
  BY <1>1, <1>2, <1>4 DEF Below
<1>7. Level(child', color', items, NoNode, "left")
  <2>1. Mended(color, items, a, s, far, color')
    BY <1>2, <1>5 DEF Mended
  <2>2. s = child[Other(e)][a] /\ s # NoNode /\ a \in items
    BY <1>1
  <2>3. items \in SUBSET Item /\ child \in Links /\ parent \in Parents /\ color \in Colors
        /\ "left" \in Sides
    BY <1>2
  <2> QED
    BY <2>1, <2>2, <2>3, <1>3, TurnMendsEven
<1> PICK inner : inner = child[e][s]
  OBVIOUS
<1>8. \A m \in Item : parent'[m] = IF m = s THEN parent[a] ELSE IF m = a THEN s
                                   ELSE IF m = inner THEN a ELSE parent[m]
  BY <1>1, <1>3 DEF Turned
<1>9. Reds(parent', color', items, NoNode)
  <2> SUFFICES ASSUME NEW m \in items, color'[m] = "RED"
               PROVE  parent'[m] # NoNode /\ color'[parent'[m]] = "BLACK"
    BY DEF Reds
  <2>0. m \in Item /\ m # far /\ m # a /\ m # NoNode
    BY <1>1, <1>2, <1>5, <1>6
  <2>1. CASE m = s
    <3>1. color[a] = "RED"
      BY <2>0, <2>1, <1>5
    <3>2. parent[a] # NoNode /\ color[parent[a]] = "BLACK" /\ parent[a] \in Item
      BY <3>1, <1>1, <1>2 DEF Reds, Parents
    <3>3. parent[a] # s /\ parent[a] # a
      BY <3>1, <3>2, <1>1
    <3> QED
      BY <2>0, <2>1, <3>2, <3>3, <1>5, <1>8
  <2>2. CASE m # s
    <3>1. color[m] = "RED"
      BY <2>0, <2>2, <1>5
    <3>2. parent[m] # NoNode /\ color[parent[m]] = "BLACK" /\ parent[m] \in Item
      BY <2>0, <3>1, <1>2 DEF Reds, Parents
    <3>3. CASE m = inner
      BY <3>3, <2>0, <2>2, <1>5, <1>6, <1>8, <1>1
    <3>4. CASE m # inner
      <4>1. parent[m] # s
        <5> SUFFICES ASSUME parent[m] = s PROVE FALSE
          OBVIOUS
        <5>1. PICK b \in Sides : child[b][s] = m
          BY <3>2 DEF Shape, Wired
        <5> QED
          BY <5>1, <3>4, <2>0, <1>2
      <4> QED
        BY <4>1, <3>2, <3>4, <2>0, <2>2, <1>5, <1>8
    <3> QED
      BY <3>3, <3>4
  <2> QED
    BY <2>1, <2>2
<1>10. Blanks(child', parent', color', items, dead)
  <2>1. \A m \in Item \ items : color'[m] = color[m]
    BY <1>1, <1>5, <1>6
  <2> QED
    BY <1>3, <2>1 DEF Blanks
<1>11. Hangs(child', parent', items, IF a = top THEN s ELSE top, pos)
  BY <1>1, <1>3
<1> QED
  BY <1>3, <1>7, <1>9, <1>10, <1>11

\* delete_node_complex6.
LEMMA InvBorrowOuter == ASSUME TreeInv, BorrowOuter PROVE TreeInv'
<1>1. PICK top \in Item \cup {NoNode}, pos \in Positions, bound \in Bounds :
         Sound(top, pos, bound) /\ Placed(top, pos, bound)
  BY DEF TreeInv
<1>2. TreeTypeOK
  BY DEF TreeInv
<1>e. PICK e : e = Side
  OBVIOUS
<1>s. PICK s : s = Sibling
  OBVIOUS
<1>n. PICK n : n = node
  OBVIOUS
<1>f. PICK far : far = child[Other(e)][s]
  OBVIOUS
<1>t. /\ step \in Removing /\ at # NoNode /\ color[s] = "BLACK"
      /\ far # NoNode /\ color[far] = "RED"
  BY <1>1, <1>s, <1>e, <1>f DEF BorrowOuter, Removing, Placed, Deleting, IsRed
<1>3. /\ Lacking(e, s, n) /\ e \in Sides /\ given = {}
      /\ Reds(parent, color, items, NoNode) /\ Level(child, color, items, at, e)
      /\ KeysGrow(items \ {}, pos) /\ Blanks(child, parent, color, items, dead)
      /\ Shape(child, parent, items, top, pos, bound)
      /\ items \in SUBSET Item /\ child \in Links /\ parent \in Parents
      /\ color \in Colors /\ NoNode \notin Item
  BY <1>t, <1>1, <1>2, <1>e, <1>s, <1>n, RemovalStart
<1>4. PICK a \in items : a = at
  BY <1>3 DEF Lacking
<1>5. /\ items' = items /\ root' = root /\ dead' = dead /\ given' = given
      /\ step' = "delete" /\ node' = NoNode /\ at' = NoNode
      /\ color' = [color EXCEPT ![s] = color[a], ![a] = "BLACK", ![far] = "BLACK"]
  BY <1>4, <1>e, <1>s, <1>f DEF BorrowOuter, Balanced, headerVars
<1>r. Rotate(a, e)
  BY <1>4, <1>e DEF BorrowOuter
<1>6. color' \in Colors /\ Mended(color, Item, a, s, far, color')
  <2>1. s \in Item /\ a \in Item /\ far \in Item /\ s # a
    <3>1. Other(e) \in Sides
      BY DEF Sides, Other
    <3> QED
      BY <3>1, <1>t, <1>f, <1>3, <1>4 DEF Lacking, Links
  <2>2. far # s /\ far # a
    <3>1. Below(child, parent, items, top, pos, bound)
      BY <1>3, ChildFacts
    <3>2. Other(e) \in Sides /\ s \in items /\ a = parent[s]
      BY <1>3, <1>4 DEF Lacking, Sides, Other
    <3> QED
      BY <3>1, <3>2, <1>t, <1>f DEF Below
  <2> QED
    BY <2>1, <2>2, <1>3, <1>5 DEF Mended, Colors
<1>7. /\ child' \in Links /\ parent' \in Parents
      /\ Hangs(child', parent', items, IF a = top THEN s ELSE top, pos)
      /\ Reds(parent', color', items, NoNode)
      /\ Level(child', color', items, NoNode, "left")
      /\ Blanks(child', parent', color', items, dead)
  <2>1. Level(child, color, items, a, e)
    BY <1>3, <1>4
  <2> QED
    BY <2>1, <1>2, <1>3, <1>4, <1>6, <1>f, <1>r, <1>t, TurnFar
<1>8. PICK top2 \in Item \cup {NoNode} : top2 = IF a = top THEN s ELSE top
  BY <1>3 DEF Lacking
<1>9. PICK b2 \in Bounds : Shape(child', parent', items, top2, pos, b2)
  BY <1>7, <1>8 DEF Hangs
<1>11. TreeTypeOK'
  BY <1>2, <1>3, <1>5, <1>6, <1>7 DEF TreeTypeOK
<1>12. Sound(top2, pos, b2)'
  <2>1. Spared' = NoNode /\ Low' = NoNode /\ LowSide' = "left" /\ Unordered' = {}
    BY <1>5 DEF Spared, Low, LowSide, Unordered, Adding, Removing
  <2> QED
    BY <2>1, <1>3, <1>5, <1>7, <1>9 DEF Sound
<1>13. Placed(top2, pos, b2)'
  BY <1>3, <1>5
  DEF Placed, Header, Inserting, Deleting, Iterating, Still, Adding, Removing
<1> QED
  BY <1>11, <1>12, <1>13 DEF TreeInv

\* Two trees that agree on their nodes.
Agree(S, c, par, col, c2, par2, col2) ==
    \A m \in S : /\ \A e \in Sides : c2[e][m] = c[e][m]
                 /\ par2[m] = par[m] /\ col2[m] = col[m]

\* What holds of the one holds of the other.
LEMMA AgreeKeeps ==
    ASSUME NEW S \in SUBSET Item, NEW c \in Links, NEW par \in Parents, NEW col \in Colors,
           NEW c2, NEW par2, NEW col2, Agree(S, c, par, col, c2, par2, col2),
           NEW top, NEW pos, NEW bound, Shape(c, par, S, top, pos, bound),
           Reds(par, col, S, NoNode), NEW e, Level(c, col, S, NoNode, e)
    PROVE  /\ Shape(c2, par2, S, top, pos, bound) /\ Reds(par2, col2, S, NoNode)
           /\ Level(c2, col2, S, NoNode, e)
<1>1. \A m \in S : /\ \A d \in Sides : c2[d][m] = c[d][m]
                   /\ par2[m] = par[m] /\ col2[m] = col[m]
  BY DEF Agree
<1>2. \A m \in S : par[m] # NoNode => par[m] \in S
  BY DEF Shape, Wired
<1>3. Wired(c2, par2, S, top)
  BY <1>1, <1>2 DEF Shape, Wired
<1>4. Ranged(c2, S, pos, bound)
  BY <1>1 DEF Shape, Ranged
<1>5. Filled(c2, S, top, pos, bound)
  BY <1>1 DEF Shape, Filled
<1>6. Reds(par2, col2, S, NoNode)
  BY <1>1, <1>2 DEF Reds
<1>7. Level(c2, col2, S, NoNode, e)
  BY <1>1 DEF Level, Even, Ink
<1> QED
  BY <1>3, <1>4, <1>5, <1>6, <1>7 DEF Shape

\* The node that leaves the program is not one of the tree.
LEMMA InvDeleteNode == ASSUME TreeInv, DeleteNode PROVE TreeInv'
<1>1. PICK top \in Item \cup {NoNode}, pos \in Positions, bound \in Bounds :
         Sound(top, pos, bound) /\ Placed(top, pos, bound)
  BY DEF TreeInv
<1>2. TreeTypeOK
  BY DEF TreeInv
<1>3. /\ given = {} /\ Reds(parent, color, items, NoNode)
      /\ Level(child, color, items, NoNode, "left")
      /\ KeysGrow(items \ {}, pos) /\ Blanks(child, parent, color, items, dead)
      /\ Shape(child, parent, items, top, pos, bound)
      /\ items \in SUBSET Item /\ child \in Links /\ parent \in Parents
      /\ color \in Colors /\ NoNode \notin Item /\ dead \in Item \cup {NoNode} /\ dead \notin items
  <2>1. step = "delete"
    BY DEF DeleteNode
  <2>2. Spared = NoNode /\ Low = NoNode /\ LowSide = "left" /\ Unordered = {} /\ given = {}
    BY <2>1, <1>1 DEF Spared, Low, LowSide, Unordered, Adding, Removing, Placed, Iterating
  <2> QED
    BY <2>2, <1>1, <1>2, TreeAssumption DEF Sound, TreeTypeOK
<1>d. PICK d : d = dead
  OBVIOUS
<1>4. /\ items' = items /\ root' = root /\ dead' = NoNode /\ given' = given
      /\ step' = "root" /\ at' = root /\ node' = NoNode
      /\ child' = [side \in Sides |-> [child[side] EXCEPT ![d] = NoNode]]
      /\ parent' = [parent EXCEPT ![d] = NoNode]
      /\ color' = [color EXCEPT ![d] = "RED"]
  BY <1>d DEF DeleteNode, Changed, headerVars
<1>5. /\ child' \in Links /\ parent' \in Parents /\ color' \in Colors
      /\ \A m \in Item : /\ \A e \in Sides : child'[e][m] = IF m = d THEN NoNode ELSE child[e][m]
                         /\ parent'[m] = IF m = d THEN NoNode ELSE parent[m]
                         /\ color'[m] = IF m = d THEN "RED" ELSE color[m]
  <2>1. /\ child' \in Links
        /\ \A m \in Item, e \in Sides : child'[e][m] = IF m = d THEN NoNode ELSE child[e][m]
    BY <1>3, <1>4 DEF Links
  <2>2. /\ parent' \in Parents
        /\ \A m \in Item : parent'[m] = IF m = d THEN NoNode ELSE parent[m]
    BY <1>3, <1>4 DEF Parents
  <2>3. /\ color' \in Colors
        /\ \A m \in Item : color'[m] = IF m = d THEN "RED" ELSE color[m]
    BY <1>3, <1>4 DEF Colors
  <2> QED
    BY <2>1, <2>2, <2>3
<1>6. Agree(items, child, parent, color, child', parent', color')
  BY <1>3, <1>5, <1>d DEF Agree
<1>7. /\ Shape(child', parent', items, top, pos, bound) /\ Reds(parent', color', items, NoNode)
      /\ Level(child', color', items, NoNode, "left")
  BY <1>3, <1>6, AgreeKeeps
<1>8. Blanks(child', parent', color', items, NoNode)
  BY <1>3, <1>5, <1>d DEF Blanks
<1>11. TreeTypeOK'
  BY <1>2, <1>3, <1>4, <1>5 DEF TreeTypeOK
<1>12. Sound(top, pos, bound)'
  <2>1. Spared' = NoNode /\ Low' = NoNode /\ LowSide' = "left" /\ Unordered' = {}
    BY <1>4 DEF Spared, Low, LowSide, Unordered, Adding, Removing
  <2> QED
    BY <2>1, <1>3, <1>4, <1>7, <1>8 DEF Sound
<1>13. Placed(top, pos, bound)'
  BY <1>2, <1>3, <1>4
  DEF TreeTypeOK, Placed, Header, Inserting, Deleting, Iterating, Still, Adding, Removing
<1> QED
  BY <1>11, <1>12, <1>13 DEF TreeInv

------------------------------------------------------------------------------
(* The theorems of the tree                                                 *)

\* The empty tree is a tree.
LEMMA InvInit == ASSUME TreeInit PROVE TreeInv
<1> DEFINE pos == [n \in Item |-> 0]
           bound == [d \in Sides |-> [n \in Item |-> 0]]
           bh == [n \in Item |-> 1]
<1>1. pos \in Positions /\ bound \in Bounds /\ bh \in Heights
  BY DEF Positions, Bounds, Heights
<1> HIDE DEF pos, bound, bh
<1>2. TreeTypeOK
  BY DEF TreeInit, TreeTypeOK, Links, Parents, Colors, Blank
<1>3. Sound(NoNode, pos, bound)
  <2>1. Shape(child, parent, items, NoNode, pos, bound)
    BY DEF TreeInit, Shape, Wired, Ranged, Filled
  <2>2. Blanks(child, parent, color, items, dead)
    BY DEF TreeInit, Blanks, Blank
  <2>3. KeysGrow(items \ Unordered, pos) /\ Reds(parent, color, items, Spared)
    BY DEF TreeInit, KeysGrow, Reds
  <2>4. Level(child, color, items, Low, LowSide)
    BY <1>1 DEF TreeInit, Level, Even
  <2> QED
    BY <2>1, <2>2, <2>3, <2>4 DEF Sound
<1>4. Placed(NoNode, pos, bound)
  <2>1. Header(NoNode, bound)
    BY DEF TreeInit, Header, Still, Removing
  <2>2. Inserting(pos, bound)
    BY DEF TreeInit, Inserting, Adding
  <2>3. Deleting(pos, bound)
    BY DEF TreeInit, Deleting, Removing
  <2>4. Iterating(pos, bound)
    BY DEF TreeInit, Iterating
  <2> QED
    BY <2>1, <2>2, <2>3, <2>4 DEF Placed
<1> QED
  BY <1>1, <1>2, <1>3, <1>4 DEF TreeInv

\* A step in which nothing changes keeps the invariant.
LEMMA InvStutter == ASSUME TreeInv, UNCHANGED treeVars PROVE TreeInv'
<1>1. PICK top \in Item \cup {NoNode}, pos \in Positions, bound \in Bounds :
         Sound(top, pos, bound) /\ Placed(top, pos, bound)
  BY DEF TreeInv
<1>2. TreeTypeOK'
  BY DEF TreeInv, TreeTypeOK, treeVars, fieldVars, headerVars
<1>3. Sound(top, pos, bound)'
  <2>1. Unordered' = Unordered /\ Spared' = Spared /\ Low' = Low /\ LowSide' = LowSide
    BY DEF Unordered, Spared, Low, LowSide, Side, SideOf, treeVars, fieldVars
  <2> QED
    BY <1>1, <2>1 DEF Sound, treeVars, fieldVars
<1>4. Placed(top, pos, bound)'
  <2>1. Header(top, bound)'
    BY <1>1 DEF Placed, Header, Ends, treeVars, fieldVars, headerVars
  <2>2. Inserting(pos, bound)'
    <3>1. Inserting(pos, bound)
      BY <1>1 DEF Placed
    <3> QED
      BY <3>1 DEF Inserting, SideOf, IsRed, treeVars, fieldVars
  <2>3. Deleting(pos, bound)'
    <3>1. Deleting(pos, bound)
      BY <1>1 DEF Placed
    <3> QED
      BY <3>1 DEF Deleting, Side, Sibling, SideOf, Inwards, IsRed, treeVars, fieldVars
  <2>4. Iterating(pos, bound)'
    <3>1. Iterating(pos, bound)
      BY <1>1 DEF Placed
    <3> QED
      BY <3>1 DEF Iterating, treeVars, fieldVars, headerVars
  <2> QED
    BY <2>1, <2>2, <2>3, <2>4 DEF Placed
<1> QED
  BY <1>2, <1>3, <1>4 DEF TreeInv

\* So every step does.
LEMMA InvStep == ASSUME TreeInv, [TreeNext]_treeVars PROVE TreeInv'
<1>1. CASE InsertSteps
  BY <1>1, InvInsert, InvDescend, InvLinkNode, InvAdjustNothing, InvAdjustUncle,
     InvAdjustInner, InvAdjustOuter DEF InsertSteps
<1>2. CASE DeleteSteps
  BY <1>2, InvDelete, InvSearch, InvSearchFails, InvSearchFinds, InvNeighbour, InvSwap,
     InvUnlink, InvShorterTree, InvRedSibling, InvShortenSibling, InvSwapColors,
     InvBorrowInner, InvBorrowOuter, InvDeleteNode DEF DeleteSteps
<1>3. CASE HeaderSteps
  BY <1>3, InvUpdateRoot, InvUpdateMostLeft, InvUpdateMostRight DEF HeaderSteps
<1>4. CASE IteratorSteps
  BY <1>4, InvGetIterator, InvNextItem, InvLeftmost, InvClimb, InvIteratorEnds
  DEF IteratorSteps
<1>5. CASE UNCHANGED treeVars
  BY <1>5, InvStutter
<1> QED
  BY <1>1, <1>2, <1>3, <1>4, <1>5 DEF TreeNext

\* After any number of Inserts and Deletes, of any items, and in the middle of each
\* (red_black_tree.h:108-154): the pointers are those of a search tree, and what is
\* wrong with its colours and keys is what the call in progress has still to mend.
THEOREM TreeInvariantHolds == TreeSpec => []TreeInv
<1>1. TreeInit => TreeInv
  BY InvInit
<1>2. TreeInv /\ [TreeNext]_treeVars => TreeInv'
  BY InvStep
<1> QED
  BY <1>1, <1>2, PTL DEF TreeSpec

\* What VerifyColor returns where the heights are even.
LEMMA CountIsHeight ==
    ASSUME TreeTypeOK, NEW top, NEW pos \in Positions, NEW bound \in Bounds,
           Shape(child, parent, items, top, pos, bound),
           Blanks(child, parent, color, items, NoNode), Reds(parent, color, items, NoNode),
           NEW bh \in Heights, Even(child, color, items, bh, NoNode, "left")
    PROVE  \A n \in items \cup {NoNode} : VerifyColor[n] = Height(bh, n)
<1>1. /\ items \in SUBSET Item /\ child \in Links /\ parent \in Parents /\ color \in Colors
      /\ NoNode \notin Item /\ "left" \in Sides /\ "right" \in Sides
      /\ Other("left") = "right"
  BY TreeAssumption DEF TreeTypeOK, Sides, Other
<1>2. Below(child, parent, items, top, pos, bound)
  BY <1>1, ChildFacts
<1> DEFINE N == Item \cup {NoNode}
           Count(f, n) == IF n = NoNode THEN 1
                          ELSE LET l == f[child["left"][n]]
                                   r == f[child["right"][n]]
                               IN  IF IsRed(n) /\ (IsRed(child["left"][n]) \/ IsRed(child["right"][n]))
                                   THEN -1
                                   ELSE IF l # r \/ r = -1 THEN -1
                                   ELSE l + (IF color[n] = "BLACK" THEN 1 ELSE 0)
           Solves(f) == f = [n \in N |-> Count(f, n)]
           g == [n \in N |-> IF n \in items THEN bh[n] ELSE 1]
<1>3. VerifyColor = CHOOSE f : Solves(f)
  BY DEF VerifyColor
<1>k. ASSUME NEW n \in items
      PROVE  /\ n # NoNode /\ n \in N /\ bh[n] \in Int /\ bh[n] >= 1
             /\ child["left"][n] \in items \cup {NoNode}
             /\ child["right"][n] \in items \cup {NoNode}
             /\ Height(bh, child["left"][n]) = bh[n] - Ink(color, n)
             /\ Height(bh, child["right"][n]) = bh[n] - Ink(color, n)
             /\ Ink(color, n) = IF color[n] = "BLACK" THEN 1 ELSE 0
             /\ Height(bh, child["right"][n]) >= 1
             /\ ~(IsRed(n) /\ (IsRed(child["left"][n]) \/ IsRed(child["right"][n])))
  <2>1. n # NoNode /\ n \in N /\ bh[n] \in Int /\ bh[n] >= 1
    BY <1>1 DEF Heights, Even
  <2>2. \A d \in Sides : child[d][n] # NoNode => child[d][n] \in items /\ parent[child[d][n]] = n
    BY <1>2 DEF Below
  <2>3. Ink(color, n) = IF color[n] = "BLACK" THEN 1 ELSE 0
    BY DEF Ink
  <2>4. \A d \in Sides : Height(bh, child[d][n]) = bh[n] - Ink(color, n) - 0
    BY <2>1 DEF Even
  <2>5. Height(bh, child["right"][n]) >= 1
    BY <2>2, <1>1 DEF Height, Even
  <2>6. \A d \in Sides : IsRed(child[d][n]) => color[n] = "BLACK"
    BY <2>2 DEF Reds, IsRed
  <2> QED
    BY <2>1, <2>2, <2>3, <2>4, <2>5, <2>6, <1>1 DEF IsRed
<1>4. Solves(g)
  <2>1. ASSUME NEW n \in N PROVE g[n] = Count(g, n)
    <3>1. CASE n = NoNode
      BY <3>1, <1>1
    <3>2. CASE n \in items
      <4>1. \A m \in items \cup {NoNode} : g[m] = Height(bh, m)
        BY <1>1 DEF Height
      <4> HIDE DEF g
      <4>2. /\ g[n] = bh[n]
            /\ g[child["left"][n]] = bh[n] - Ink(color, n)
            /\ g[child["right"][n]] = bh[n] - Ink(color, n)
        BY <4>1, <3>2, <1>k DEF Height
      <4> QED
        BY <4>2, <3>2, <1>k
    <3>3. CASE n \in Item \ items
      <4>1. n # NoNode /\ child["left"][n] = NoNode /\ child["right"][n] = NoNode /\ color[n] = "RED"
        BY <3>3, <1>1 DEF Blanks
      <4>2. g[n] = 1 /\ g[NoNode] = 1
        BY <3>3, <1>1
      <4> HIDE DEF g
      <4> QED
        BY <4>1, <4>2 DEF IsRed
    <3> QED
      BY <3>1, <3>2, <3>3
  <2> QED
    BY <2>1
<1>5. Solves(VerifyColor)
  <2> HIDE DEF Solves
  <2> QED
    BY <1>3, <1>4
<1>6. \A n \in N : VerifyColor[n] = Count(VerifyColor, n)
  BY <1>5
<1> PICK v : v = VerifyColor
  OBVIOUS
<1>7. \A n \in N : v[n] = Count(v, n)
  BY <1>6
<1> HIDE DEF N
<1>8. v[NoNode] = 1
  BY <1>7 DEF N
<1>9. \A n \in items : v[n] = bh[n]
  <2> DEFINE D == {n \in items : v[n] # bh[n]}
             f == [n \in D |-> bound["right"][n] - bound["left"][n]]
  <2> SUFFICES ASSUME NEW x \in D PROVE FALSE
    OBVIOUS
  <2>1. \A n \in items : /\ bound["left"][n] \in Int /\ bound["right"][n] \in Int /\ pos[n] \in Int
                         /\ bound["left"][n] < pos[n] /\ pos[n] < bound["right"][n]
    BY <1>1 DEF Bounds, Positions, Shape, Ranged
  <2>2. f \in [D -> Nat]
    <3> SUFFICES ASSUME NEW n \in D PROVE bound["right"][n] - bound["left"][n] \in Nat
      OBVIOUS
    <3> QED
      BY <2>1
  <2>3. PICK y \in D : \A z \in D : f[y] <= f[z]
    <3> HIDE DEF D, f
    <3> QED
      BY <2>2, Least
  <2>4. ASSUME NEW d \in Sides, child[d][y] # NoNode
        PROVE  v[child[d][y]] = bh[child[d][y]]
    <3> SUFFICES ASSUME child[d][y] \in D PROVE FALSE
      BY <2>4, <1>2 DEF Below
    <3>1. /\ bound[d][child[d][y]] = bound[d][y] /\ bound[Other(d)][child[d][y]] = pos[y]
      BY <2>4, <1>2 DEF Below
    <3>2. f[y] <= f[child[d][y]]
      BY <2>3
    <3> QED
      BY <2>1, <3>1, <3>2 DEF Sides, Other
  <2>5. \A d \in Sides : v[child[d][y]] = Height(bh, child[d][y])
    BY <2>4, <1>8 DEF Height
  <2>6. /\ v[child["left"][y]] = bh[y] - Ink(color, y)
        /\ v[child["right"][y]] = bh[y] - Ink(color, y)
    BY <2>5, <1>1, <1>k
  <2>7. v[y] = Count(v, y)
    BY <1>7, <1>k
  <2>8. v[y] = bh[y]
    BY <2>6, <2>7, <1>k
  <2> QED
    BY <2>8
<1> QED
  BY <1>1, <1>8, <1>9 DEF Height

\* Between the calls nothing is left to mend.
LEMMA InvIsRedBlackTree == ASSUME TreeInv PROVE IsRedBlackTree
<1> SUFFICES ASSUME step = "idle"
             PROVE  WellLinked /\ Extreme /\ VerifyColor[root] # -1 /\ ~IsRed(root)
  BY DEF IsRedBlackTree
<1>1. PICK top \in Item \cup {NoNode}, pos \in Positions, bound \in Bounds :
         Sound(top, pos, bound) /\ Placed(top, pos, bound)
  BY DEF TreeInv
<1>2. TreeTypeOK
  BY DEF TreeInv
<1>3. /\ root = top /\ dead = NoNode /\ Reds(parent, color, items, NoNode)
      /\ Level(child, color, items, NoNode, "left")
      /\ KeysGrow(items, pos) /\ Blanks(child, parent, color, items, NoNode)
      /\ Shape(child, parent, items, top, pos, bound)
  <2>1. Unordered = {} /\ Spared = NoNode /\ Low = NoNode /\ LowSide = "left"
    BY DEF Unordered, Spared, Low, LowSide, Adding, Removing
  <2>2. root = top /\ dead = NoNode
    BY <1>1 DEF Placed, Header, Still, Removing
  <2>3. items \ {} = items
    OBVIOUS
  <2> QED
    BY <2>1, <2>2, <2>3, <1>1 DEF Sound
<1>4. /\ NoNode \notin items
      /\ \A n \in items : /\ n \in Item /\ n # NoNode /\ pos[n] \in Int /\ KeyOf(n) \in Int
                          /\ bound["left"][n] \in Int /\ bound["right"][n] \in Int
  BY <1>2, Numbers
<1>5. WellLinked
  <2>1. root \in items \/ (root = NoNode /\ items = {})
    BY <1>2 DEF TreeTypeOK
  <2>2. Wired(child, parent, items, root)
    BY <1>3 DEF Shape
  <2> QED
    BY <2>1, <2>2 DEF WellLinked, Wired
<1>6. Extreme
  <2>1. CASE items = {}
    BY <2>1 DEF Extreme
  <2>2. CASE items # {}
    <3>1. Ends("left", least, top, bound) /\ Ends("right", greatest, top, bound)
      BY <2>2, <1>1 DEF Placed, Header, Still
    <3>2. least \in items /\ greatest \in items
      BY <3>1 DEF Ends
    <3>3. ASSUME NEW n \in items
          PROVE  KeyOf(least) <= KeyOf(n) /\ KeyOf(n) <= KeyOf(greatest)
      <4>1. pos[least] <= pos[n] /\ pos[n] <= pos[greatest]
        <5>1. bound["left"][top] < pos[n] /\ pos[n] < bound["right"][top]
          BY <1>3 DEF Shape, Filled
        <5>2. ~(Lies("left", bound["left"][least], pos[n]) /\ Lies("left", pos[n], pos[least]))
          BY <3>1, <3>2, <1>3 DEF Shape, Filled, Ends, Sides
        <5>3. ~(Lies("right", bound["right"][greatest], pos[n]) /\ Lies("right", pos[n], pos[greatest]))
          BY <3>1, <3>2, <1>3 DEF Shape, Filled, Ends, Sides
        <5> QED
          BY <5>1, <5>2, <5>3, <3>1, <3>2, <1>4 DEF Ends, Lies
      <4>2. /\ pos[least] = pos[n] => least = n
            /\ pos[greatest] = pos[n] => greatest = n
        BY <3>2, <1>3 DEF Shape, Ranged
      <4> QED
        BY <4>1, <4>2, <3>2, <1>3, <1>4 DEF KeysGrow
    <3> QED
      BY <3>2, <3>3 DEF Extreme
  <2> QED
    BY <2>1, <2>2
<1>7. VerifyColor[root] # -1
  <2>1. PICK bh \in Heights : Even(child, color, items, bh, NoNode, "left")
    BY <1>3 DEF Level
  <2>2. \A n \in items \cup {NoNode} : VerifyColor[n] = Height(bh, n)
    BY <2>1, <1>2, <1>3, CountIsHeight
  <2>3. root \in items \cup {NoNode}
    BY <1>2 DEF TreeTypeOK
  <2>4. VerifyColor[root] = Height(bh, root)
    BY <2>2, <2>3
  <2>5. Height(bh, root) >= 1
    BY <2>1, <2>3 DEF Even, Height
  <2> QED
    BY <2>4, <2>5
<1>8. ~IsRed(root)
  <2> SUFFICES ASSUME root # NoNode, color[root] = "RED" PROVE FALSE
    BY DEF IsRed
  <2>1. root \in items
    BY <1>2 DEF TreeTypeOK
  <2>2. parent[root] # NoNode
    BY <2>1, <1>3 DEF Reds
  <2> QED
    BY <2>1, <2>2, <1>3 DEF Shape, Wired
<1> QED
  BY <1>5, <1>6, <1>7, <1>8

\* What the iterator has given is all that lies before.
LEMMA InvIteratorVisitsAll == ASSUME TreeInv PROVE IteratorVisitsAll
<1> SUFFICES ASSUME step = "next"
             PROVE  /\ \A i \in given, j \in items \ given : KeyOf(i) <= KeyOf(j)
                    /\ IF node \in Item THEN node \in items \ given
                       ELSE /\ given = items
                            /\ node = Garbage <=> root # NoNode /\ child["right"][root] = NoNode
  BY DEF IteratorVisitsAll
<1>1. PICK top \in Item \cup {NoNode}, pos \in Positions, bound \in Bounds :
         Sound(top, pos, bound) /\ Placed(top, pos, bound)
  BY DEF TreeInv
<1>2. TreeTypeOK
  BY DEF TreeInv
<1>3. KeysGrow(items, pos)
  <2>1. Unordered = {} /\ items \ {} = items
    BY DEF Unordered
  <2> QED
    BY <2>1, <1>1 DEF Sound
<1>4. /\ NoNode \notin items
      /\ \A n \in items : /\ n \in Item /\ n # NoNode /\ pos[n] \in Int /\ KeyOf(n) \in Int
                          /\ bound["left"][n] \in Int /\ bound["right"][n] \in Int
  BY <1>2, Numbers
<1>5. IF node \in Item THEN node \in items /\ given = {m \in items : pos[m] < pos[node]}
      ELSE given = items /\ (node = Garbage <=> root # NoNode /\ child["right"][root] = NoNode)
  BY <1>1 DEF Placed, Iterating
<1>6. CASE node \in Item
  <2>1. node \in items /\ given = {m \in items : pos[m] < pos[node]}
    BY <1>5, <1>6
  <2>2. ASSUME NEW i \in given, NEW j \in items \ given PROVE KeyOf(i) <= KeyOf(j)
    <3>1. i \in items /\ j \in items /\ pos[i] < pos[node] /\ ~(pos[j] < pos[node])
      BY <2>1
    <3>2. pos[i] < pos[j]
      BY <3>1, <2>1, <1>4
    <3> QED
      BY <3>1, <3>2, <1>3 DEF KeysGrow
  <2>3. node \notin given
    BY <2>1, <1>4
  <2> QED
    BY <2>1, <2>2, <2>3, <1>6
<1>7. CASE node \notin Item
  BY <1>5, <1>7
<1> QED
  BY <1>6, <1>7

\* Whatever is inserted and deleted, between the calls the tree is linked both ways,
\* Min and Max are its ends, verify_color succeeds, and the root is black.
THEOREM TreeIsRedBlack == TreeSpec => []IsRedBlackTree
<1>1. TreeInv => IsRedBlackTree
  BY InvIsRedBlackTree
<1> QED
  BY <1>1, TreeInvariantHolds, PTL

\* The iterator (red_black_tree.h:52-87) gives every item once in the order of the
\* keys and stops, at a pointer never assigned if the root has no right child.
THEOREM TreeIteratorVisits == TreeSpec => []IteratorVisitsAll
<1>1. TreeInv => IteratorVisitsAll
  BY InvIteratorVisitsAll
<1> QED
  BY <1>1, TreeInvariantHolds, PTL

\* Where a call takes effect, and where nothing of it is seen.
LEMMA BagInit == ASSUME TreeInit PROVE Bag!Init
BY DEF TreeInit, Bag!Init, Op, Arg

\* Insert takes effect when it links its node.
LEMMA BagLink == ASSUME TreeInv, LinkNode PROVE Bag!Next
<1>1. node \in Item \ items
  BY DEF TreeInv, Placed, Inserting, LinkNode
<1>2. Bag!Insert(node)
  BY <1>1 DEF Bag!Insert, Bag!Done, LinkNode, Op, Arg
<1> QED
  BY <1>1, <1>2 DEF Bag!Next

\* Delete takes effect when it unlinks the node of its item.
LEMMA BagUnlink == ASSUME TreeInv, Unlink PROVE Bag!Next
<1>1. node \in items /\ KeyOf(node) = key /\ items \in SUBSET Item
  BY DEF TreeInv, Placed, Deleting, Unlink, TreeTypeOK
<1>2. key \in Key
  BY <1>1 DEF Key
<1>3. step = "unlink" /\ step' \in {"shorter", "delete"} /\ items' = items \ {node}
  BY DEF Unlink
<1>4. Op = "delete" /\ Arg = key /\ Op' = "none" /\ Arg' = NoNode
  BY <1>3 DEF Op, Arg
<1>5. Bag!Delete(key)
  BY <1>1, <1>3, <1>4 DEF Bag!Delete, Bag!Done
<1> QED
  BY <1>2, <1>5 DEF Bag!Next

\* A search that fails has been everywhere that the key can be.
LEMMA BagFails == ASSUME TreeInv, SearchFails, key \in Key PROVE Bag!Next
<1>1. \A i \in items : KeyOf(i) # key
  BY DEF TreeInv, Placed, Deleting, SearchFails
<1>2. Bag!DeleteNothing(key)
  BY <1>1 DEF Bag!DeleteNothing, Bag!Done, SearchFails, Op, Arg
<1> QED
  BY <1>2 DEF Bag!Next

\* The key of a Delete is one that an item can have.
KeySought == step = "search" => key \in Key

\* It is so at first, and stays.
LEMMA KeyInit == TreeInit => KeySought
BY DEF TreeInit, KeySought

LEMMA KeyStep == ASSUME KeySought, [TreeNext]_treeVars PROVE KeySought'
<1>1. CASE step' = "search"
  <2>1. CASE \E k \in Key : Delete(k)
    BY <2>1 DEF Delete, KeySought
  <2>2. CASE Search
    BY <2>2 DEF Search, KeySought
  <2>3. CASE UNCHANGED treeVars
    BY <2>3 DEF treeVars, KeySought
  <2>4. CASE InsertSteps
    <3>1. step' # "search"
      BY <2>4 DEF InsertSteps, Insert, Descend, LinkNode, AdjustNothing, AdjustUncle,
                  AdjustInner, AdjustOuter, RedParent, Changed
    <3> QED
      BY <3>1, <1>1
  <2>5. CASE HeaderSteps
    <3>1. step' # "search"
      BY <2>5 DEF HeaderSteps, UpdateRoot, UpdateMostLeft, UpdateMostRight
    <3> QED
      BY <3>1, <1>1
  <2>6. CASE IteratorSteps
    <3>1. step' # "search"
      BY <2>6 DEF IteratorSteps, GetIterator, NextItem, Leftmost, Climb, IteratorEnds
    <3> QED
      BY <3>1, <1>1
  <2>7. CASE SearchFails \/ SearchFinds \/ Neighbour \/ Swap \/ Unlink
    <3>1. step' # "search"
      BY <2>7 DEF SearchFails, SearchFinds, Neighbour, Swap, Unlink
    <3> QED
      BY <3>1, <1>1
  <2>8. CASE ShorterTree \/ RedSibling \/ ShortenSibling \/ SwapColors \/ BorrowInner
             \/ BorrowOuter \/ DeleteNode
    <3>1. step' # "search"
      BY <2>8 DEF ShorterTree, RedSibling, ShortenSibling, SwapColors, BorrowInner,
                  BorrowOuter, DeleteNode, Balanced, Changed
    <3> QED
      BY <3>1, <1>1
  <2> QED
    BY <2>1, <2>2, <2>3, <2>4, <2>5, <2>6, <2>7, <2>8 DEF TreeNext, DeleteSteps
<1>2. CASE step' # "search"
  BY <1>2 DEF KeySought
<1> QED
  BY <1>1, <1>2

\* All other steps begin a call, or change neither the items nor a call.
LEMMA BagCalls ==
    ASSUME InsertSteps \/ DeleteSteps \/ HeaderSteps \/ IteratorSteps \/ UNCHANGED treeVars,
           ~LinkNode, ~Unlink, ~SearchFails
    PROVE  Bag!Next \/ UNCHANGED <<items, Op, Arg>>
<1>1. ASSUME NEW i \in Item, Insert(i) PROVE Bag!Next
  <2>1. Bag!Call("insert", i)
    BY <1>1 DEF Insert, Bag!Call, Op, Arg
  <2> QED
    BY <2>1 DEF Bag!Next
<1>2. ASSUME NEW k \in Key, Delete(k) PROVE Bag!Next
  <2>1. Bag!Call("delete", k)
    BY <1>2 DEF Delete, Bag!Call, Op, Arg
  <2> QED
    BY <2>1 DEF Bag!Next
<1>3. CASE Descend \/ AdjustNothing \/ AdjustUncle \/ AdjustInner \/ AdjustOuter
  BY <1>3 DEF Descend, AdjustNothing, AdjustUncle, AdjustInner, AdjustOuter, RedParent, Changed,
              Op, Arg
<1>4. CASE Search \/ SearchFinds \/ Neighbour \/ Swap
  <2>1. /\ items' = items /\ key' = key
        /\ step \in {"search", "min", "max"} /\ step' \in {"search", "min", "max", "unlink"}
    BY <1>4 DEF Search, SearchFinds, Neighbour, Swap
  <2> QED
    BY <2>1 DEF Op, Arg
<1>5. CASE ShorterTree \/ RedSibling \/ ShortenSibling \/ SwapColors \/ BorrowInner
           \/ BorrowOuter \/ DeleteNode
  BY <1>5 DEF ShorterTree, RedSibling, ShortenSibling, SwapColors, BorrowInner, BorrowOuter,
              DeleteNode, Balanced, Changed, Op, Arg
<1>6. CASE HeaderSteps
  BY <1>6 DEF HeaderSteps, UpdateRoot, UpdateMostLeft, UpdateMostRight, Op, Arg
<1>7. CASE IteratorSteps
  BY <1>7 DEF IteratorSteps, GetIterator, NextItem, Leftmost, Climb, IteratorEnds, Op, Arg
<1>8. CASE UNCHANGED treeVars
  BY <1>8 DEF treeVars, Op, Arg
<1> QED
  BY <1>1, <1>2, <1>3, <1>4, <1>5, <1>6, <1>7, <1>8 DEF InsertSteps, DeleteSteps

\* The tree keeps what was inserted: Insert adds its item, Delete takes out one of
\* its key, and nothing only when there is none; balancing changes no item.
THEOREM TreeIsBag == TreeSpec => IsBag
<1>1. TreeInit => Bag!Init
  BY BagInit
<1>2. TreeInv /\ KeySought /\ [TreeNext]_treeVars => [Bag!Next]_<<items, Op, Arg>>
  <2> SUFFICES ASSUME TreeInv, KeySought, [TreeNext]_treeVars
               PROVE  Bag!Next \/ UNCHANGED <<items, Op, Arg>>
    OBVIOUS
  <2>1. CASE LinkNode
    BY <2>1, BagLink
  <2>2. CASE Unlink
    BY <2>2, BagUnlink
  <2>3. CASE SearchFails
    BY <2>3, BagFails DEF KeySought, SearchFails
  <2>4. CASE ~LinkNode /\ ~Unlink /\ ~SearchFails
    BY <2>4, BagCalls DEF TreeNext
  <2> QED
    BY <2>1, <2>2, <2>3, <2>4
<1>3. TreeSpec => []KeySought
  <2>1. KeySought /\ [TreeNext]_treeVars => KeySought'
    BY KeyStep
  <2> QED
    BY <2>1, KeyInit, PTL DEF TreeSpec
<1> QED
  BY <1>1, <1>2, <1>3, TreeInvariantHolds, PTL DEF TreeSpec, IsBag, Bag!Spec, Bag!vars
------------------------------------------------------------------------------
(* The queue                                                                *)

\* The inductive invariant: the invariants that the run checks, with the types.
QueueInv == TypeOK /\ LocksHeld /\ Linked /\ PopFindsNode

USE DEF Threads, Nodes

\* The new queue is as it should be.
LEMMA QueueInvInit == Init => QueueInv
<1> SUFFICES ASSUME Init PROVE QueueInv
  OBVIOUS
<1> USE ThreadAssumption
<1>1. TypeOK
  <2>1. taken \in Seq(Value)
    BY EmptySeq DEF Init
  <2>2. /\ pc \in [Threads -> PushSteps \cup PopSteps]
        /\ \A p \in Producers : pc[p] \in PushSteps
        /\ \A c \in Consumers : pc[c] \in PopSteps
        /\ \A t \in Threads : pc[t] # "done"
    BY DEF Init, PushSteps, PopSteps
  <2>3. left \in [Threads -> 0 .. Times] /\ \A t \in Threads : left[t] # 0
    BY DEF Init
  <2>4. /\ head \in Nodes /\ tail \in Nodes
        /\ data \in [Nodes -> Value \cup {Null}]
        /\ next \in [Nodes -> Nodes \cup {Null}]
        /\ headLock \in Consumers \cup {Free}
        /\ tailLock \in Producers \cup {Free}
    BY DEF Init
  <2> QED
    BY <2>1, <2>2, <2>3, <2>4 DEF TypeOK
<1>2. LocksHeld
  BY DEF Init, LocksHeld
<1>3. Linked
  BY DEF Init, Linked
<1>4. PopFindsNode
  BY DEF Init, PopFindsNode
<1> QED
  BY <1>1, <1>2, <1>3, <1>4 DEF QueueInv

\* Only the holder of tail_mutex_ is between its lock and its unlock.
LEMMA OneFills ==
    ASSUME QueueInv, NEW p \in Producers, pc[p] \in {"fill", "link", "swing"}
    PROVE  \A q \in Producers : pc[q] \in {"fill", "link", "swing"} => q = p
BY DEF QueueInv, LocksHeld

\* One lemma for each action of push: it keeps the invariant.
LEMMA InvLockTail == ASSUME QueueInv, NEW p \in Producers, LockTail(p) PROVE QueueInv'
<1> USE ThreadAssumption
<1>1. TypeOK'
  BY DEF QueueInv, TypeOK, LockTail, Goto, PushSteps, PopSteps
<1>2. LocksHeld'
  BY DEF QueueInv, TypeOK, LocksHeld, LockTail, Goto
<1>3. Linked'
  BY DEF QueueInv, TypeOK, Linked, LockTail, Goto
<1>4. PopFindsNode'
  BY DEF QueueInv, TypeOK, PopFindsNode, LockTail, Goto
<1> QED
  BY <1>1, <1>2, <1>3, <1>4 DEF QueueInv

LEMMA InvFill == ASSUME QueueInv, NEW p \in Producers, Fill(p) PROVE QueueInv'
<1> USE ThreadAssumption
<1>0. <<p, left[p]>> \in Value
  BY DEF QueueInv, TypeOK, Fill, Goto, Value
<1>1. TypeOK'
  BY <1>0 DEF QueueInv, TypeOK, Fill, Goto, PushSteps, PopSteps
<1>2. LocksHeld'
  BY DEF QueueInv, TypeOK, LocksHeld, Fill, Goto
<1>3. Linked'
  BY OneFills DEF QueueInv, TypeOK, Linked, Fill, Goto
<1>4. PopFindsNode'
  BY DEF QueueInv, TypeOK, PopFindsNode, Fill, Goto
<1> QED
  BY <1>1, <1>2, <1>3, <1>4 DEF QueueInv

LEMMA InvLink == ASSUME QueueInv, NEW p \in Producers, Link(p) PROVE QueueInv'
<1> USE ThreadAssumption
<1>1. TypeOK'
  BY DEF QueueInv, TypeOK, Linked, Link, Goto, PushSteps, PopSteps
<1>2. LocksHeld'
  BY DEF QueueInv, TypeOK, LocksHeld, Link, Goto
<1>3. Linked'
  <2>1. /\ \A q \in Producers : q # p => pc[q] \notin {"fill", "link", "swing"}
        /\ \A q \in Producers : q # p => pc'[q] = pc[q]
        /\ pc[p] = "link" /\ pc'[p] = "swing"
    BY OneFills DEF QueueInv, TypeOK, Link, Goto
  <2>2. /\ tail \in Nodes /\ tail < MaxNode /\ tail + 1 \in Nodes
        /\ data[tail] = <<p, left[p]>>
    BY <2>1 DEF QueueInv, TypeOK, Linked
  <2>3. /\ next'[tail] = tail + 1
        /\ \A n \in Nodes : n # tail => next'[n] = next[n]
        /\ UNCHANGED <<head, tail, data, left>>
    BY <2>2 DEF QueueInv, TypeOK, Link
  <2> QED
    BY <2>1, <2>2, <2>3 DEF QueueInv, TypeOK, Linked
<1>4. PopFindsNode'
  BY DEF QueueInv, TypeOK, PopFindsNode, Link, Goto
<1> QED
  BY <1>1, <1>2, <1>3, <1>4 DEF QueueInv

LEMMA InvSwing == ASSUME QueueInv, NEW p \in Producers, Swing(p) PROVE QueueInv'
<1> USE ThreadAssumption
<1>0. tail' = tail + 1 /\ data[tail] = <<p, left[p]>> /\ <<p, left[p]>> \in Value
  BY DEF QueueInv, TypeOK, Linked, Swing, Goto, Value
<1>1. TypeOK'
  BY <1>0 DEF QueueInv, TypeOK, Linked, Swing, Goto, PushSteps, PopSteps
<1>2. LocksHeld'
  BY DEF QueueInv, TypeOK, LocksHeld, Swing, Goto
<1>3. Linked'
  <2>1. /\ \A q \in Producers : pc'[q] \notin {"fill", "link", "swing"}
        /\ pc[p] = "swing"
    BY OneFills DEF QueueInv, TypeOK, Swing, Goto
  <2>2. /\ tail \in Nodes /\ tail < MaxNode /\ tail + 1 \in Nodes
        /\ next[tail] = tail + 1
    BY <2>1 DEF QueueInv, TypeOK, Linked
  <2>3. UNCHANGED <<head, data, next, left>>
    BY DEF Swing
  <2> QED
    BY <1>0, <2>1, <2>2, <2>3 DEF QueueInv, TypeOK, Linked
<1>4. PopFindsNode'
  BY <1>0 DEF QueueInv, TypeOK, Linked, PopFindsNode, Swing, Goto
<1> QED
  BY <1>1, <1>2, <1>3, <1>4 DEF QueueInv

LEMMA InvNotifyOne == ASSUME QueueInv, NEW p \in Producers, NotifyOne(p) PROVE QueueInv'
<1> USE ThreadAssumption
<1>0. PICK self \in {"done", "lockTail"} :
         /\ self = "done" <=> left[p] = 1
         /\ \/ pc' = [pc EXCEPT ![p] = self]
            \/ \E c \in Sleepers : pc' = [pc EXCEPT ![p] = self, ![c] = "lockHead"]
  BY DEF NotifyOne
<1>1. TypeOK'
  <2>1. /\ left' = [left EXCEPT ![p] = @ - 1]
        /\ left[p] \in 1 .. Times
        /\ left' \in [Threads -> 0 .. Times]
    BY DEF QueueInv, TypeOK, NotifyOne
  <2>2. /\ pc' \in [Threads -> PushSteps \cup PopSteps]
        /\ \A q \in Producers : pc'[q] \in PushSteps
        /\ \A c \in Consumers : pc'[c] \in PopSteps
    BY <1>0 DEF QueueInv, TypeOK, Sleepers, PushSteps, PopSteps
  <2>3. \A t \in Threads : pc'[t] = "done" <=> left'[t] = 0
    <3>1. pc'[p] = "done" <=> left'[p] = 0
      BY <1>0, <2>1 DEF QueueInv, TypeOK, Sleepers
    <3>2. \A t \in Threads : t # p => left'[t] = left[t] /\ (pc'[t] = "done" <=> pc[t] = "done")
      BY <1>0, <2>1 DEF QueueInv, TypeOK, Sleepers
    <3> QED
      BY <3>1, <3>2 DEF QueueInv, TypeOK
  <2> QED
    BY <2>1, <2>2, <2>3 DEF QueueInv, TypeOK, NotifyOne
<1>2. LocksHeld'
  BY DEF QueueInv, TypeOK, LocksHeld, NotifyOne, Sleepers
<1>3. Linked'
  <2>1. \A q \in Producers : pc'[q] \in {"fill", "link", "swing"} =>
                               pc'[q] = pc[q] /\ left'[q] = left[q]
    BY <1>0 DEF QueueInv, TypeOK, NotifyOne, Sleepers
  <2>2. \A q \in Producers : pc[q] \in {"fill", "link", "swing"} => pc'[q] = pc[q]
    BY <1>0 DEF QueueInv, TypeOK, NotifyOne, Sleepers
  <2>3. UNCHANGED <<head, tail, data, next>>
    BY DEF NotifyOne
  <2>4. ASSUME NEW q \in Producers
        PROVE /\ pc'[q] \in {"fill", "link", "swing"} => tail' < MaxNode
              /\ pc'[q] \in {"link", "swing"} => data'[tail'] = <<q, left'[q]>>
              /\ pc'[q] = "swing" => next'[tail'] = tail' + 1
    BY <2>1, <2>3 DEF QueueInv, Linked
  <2>5. /\ (\A q \in Producers : pc'[q] \notin {"link", "swing"}) => data'[tail'] = Null
        /\ (\A q \in Producers : pc'[q] # "swing") => next'[tail'] = Null
    BY <2>2, <2>3 DEF QueueInv, Linked
  <2>6. /\ head' <= tail'
        /\ \A n \in Nodes : n < tail' => data'[n] \in Value /\ next'[n] = n + 1
        /\ \A n \in Nodes : n > tail' => data'[n] = Null /\ next'[n] = Null
    BY <2>3 DEF QueueInv, Linked
  <2> QED
    BY <2>4, <2>5, <2>6 DEF Linked
<1>4. PopFindsNode'
  BY DEF QueueInv, TypeOK, PopFindsNode, NotifyOne, Sleepers
<1> QED
  BY <1>1, <1>2, <1>3, <1>4 DEF QueueInv

\* One for each action of wait_and_pop.
LEMMA InvLockHead == ASSUME QueueInv, NEW c \in Consumers, LockHead(c) PROVE QueueInv'
<1> USE ThreadAssumption
<1>1. TypeOK'
  BY DEF QueueInv, TypeOK, LockHead, Goto, PushSteps, PopSteps
<1>2. LocksHeld'
  BY DEF QueueInv, TypeOK, LocksHeld, LockHead, Goto
<1>3. Linked'
  BY DEF QueueInv, TypeOK, Linked, LockHead, Goto
<1>4. PopFindsNode'
  BY DEF QueueInv, TypeOK, PopFindsNode, LockHead, Goto
<1> QED
  BY <1>1, <1>2, <1>3, <1>4 DEF QueueInv

LEMMA InvCheck == ASSUME QueueInv, NEW c \in Consumers, Check(c) PROVE QueueInv'
<1> USE ThreadAssumption
<1>1. TypeOK'
  BY DEF QueueInv, TypeOK, Check, Goto, PushSteps, PopSteps
<1>2. LocksHeld'
  BY DEF QueueInv, TypeOK, LocksHeld, Check, Goto
<1>3. Linked'
  BY DEF QueueInv, TypeOK, Linked, Check, Goto
<1>4. PopFindsNode'
  BY DEF QueueInv, TypeOK, PopFindsNode, Check, Goto
<1> QED
  BY <1>1, <1>2, <1>3, <1>4 DEF QueueInv

LEMMA InvSleep ==
    ASSUME QueueInv, NEW c \in Consumers, Sleep(c) \/ SpuriousWakeup(c) PROVE QueueInv'
<1> USE ThreadAssumption
<1>1. TypeOK'
  BY DEF QueueInv, TypeOK, Sleep, SpuriousWakeup, Goto, PushSteps, PopSteps
<1>2. LocksHeld'
  BY DEF QueueInv, TypeOK, LocksHeld, Sleep, SpuriousWakeup, Goto
<1>3. Linked'
  BY DEF QueueInv, TypeOK, Linked, Sleep, SpuriousWakeup, Goto
<1>4. PopFindsNode'
  BY DEF QueueInv, TypeOK, PopFindsNode, Sleep, SpuriousWakeup, Goto
<1> QED
  BY <1>1, <1>2, <1>3, <1>4 DEF QueueInv

\* What PopHead finds: a finished node, which is not the tail.
LEMMA PopEffect ==
    ASSUME QueueInv, NEW c \in Consumers, PopHead(c)
    PROVE  /\ head < tail /\ head' = head + 1
           /\ data[head] \in Value /\ taken' = Append(taken, data[head])
           /\ UNCHANGED <<tail, data, next, tailLock>>
BY DEF QueueInv, TypeOK, Linked, PopFindsNode, PopHead, Finish, Goto

LEMMA InvPopHead == ASSUME QueueInv, NEW c \in Consumers, PopHead(c) PROVE QueueInv'
<1> USE ThreadAssumption
<1>0. /\ head < tail /\ head' = head + 1
      /\ data[head] \in Value /\ taken' = Append(taken, data[head])
      /\ UNCHANGED <<tail, data, next, tailLock>>
  BY PopEffect
<1>1. TypeOK'
  <2>1. taken' \in Seq(Value)
    BY <1>0, AppendProperties DEF QueueInv, TypeOK
  <2>2. /\ left' = [left EXCEPT ![c] = @ - 1]
        /\ left[c] \in 1 .. Times
        /\ left' \in [Threads -> 0 .. Times]
    BY DEF QueueInv, TypeOK, PopHead, Finish, Goto
  <2>3. PICK s \in {"done", "lockHead"} :
           pc' = [pc EXCEPT ![c] = s] /\ (s = "done" <=> left[c] = 1)
    BY DEF PopHead, Finish, Goto
  <2>4. /\ pc' \in [Threads -> PushSteps \cup PopSteps]
        /\ \A q \in Producers : pc'[q] \in PushSteps
        /\ \A d \in Consumers : pc'[d] \in PopSteps
    BY <2>3 DEF QueueInv, TypeOK, PushSteps, PopSteps
  <2>5. \A t \in Threads : pc'[t] = "done" <=> left'[t] = 0
    BY <2>2, <2>3 DEF QueueInv, TypeOK
  <2>6. head' \in Nodes /\ headLock' = Free
    BY <1>0 DEF QueueInv, TypeOK, PopHead
  <2> QED
    BY <1>0, <2>1, <2>2, <2>4, <2>5, <2>6 DEF QueueInv, TypeOK
<1>2. LocksHeld'
  BY DEF QueueInv, TypeOK, LocksHeld, PopHead, Finish, Goto
<1>3. Linked'
  <2>1. \A p \in Producers : pc'[p] = pc[p] /\ left'[p] = left[p]
    BY DEF QueueInv, TypeOK, PopHead, Finish, Goto
  <2>2. ASSUME NEW q \in Producers
        PROVE /\ pc'[q] \in {"fill", "link", "swing"} => tail' < MaxNode
              /\ pc'[q] \in {"link", "swing"} => data'[tail'] = <<q, left'[q]>>
              /\ pc'[q] = "swing" => next'[tail'] = tail' + 1
    BY <1>0, <2>1 DEF QueueInv, Linked
  <2>3. /\ (\A q \in Producers : pc'[q] \notin {"link", "swing"}) => data'[tail'] = Null
        /\ (\A q \in Producers : pc'[q] # "swing") => next'[tail'] = Null
    BY <1>0, <2>1 DEF QueueInv, Linked
  <2>4. /\ head' <= tail'
        /\ \A n \in Nodes : n < tail' => data'[n] \in Value /\ next'[n] = n + 1
        /\ \A n \in Nodes : n > tail' => data'[n] = Null /\ next'[n] = Null
    BY <1>0 DEF QueueInv, TypeOK, Linked
  <2> QED
    BY <2>2, <2>3, <2>4 DEF Linked
<1>4. PopFindsNode'
  <2>1. \A d \in Consumers : pc'[d] # "pop"
    BY DEF QueueInv, TypeOK, LocksHeld, PopHead, Finish, Goto
  <2> QED
    BY <2>1 DEF PopFindsNode
<1> QED
  BY <1>1, <1>2, <1>3, <1>4 DEF QueueInv

\* So every step keeps it.
LEMMA QueueInvStep == QueueInv /\ [Next]_vars => QueueInv'
<1> SUFFICES ASSUME QueueInv, [Next]_vars PROVE QueueInv'
  OBVIOUS
<1>1. ASSUME NEW p \in Producers, Push(p) PROVE QueueInv'
  BY <1>1, InvLockTail, InvFill, InvLink, InvSwing, InvNotifyOne DEF Push
<1>2. ASSUME NEW c \in Consumers, WaitAndPop(c) \/ SpuriousWakeup(c) PROVE QueueInv'
  BY <1>2, InvLockHead, InvCheck, InvSleep, InvPopHead DEF WaitAndPop
<1>3. CASE UNCHANGED vars
  BY <1>3 DEF vars, QueueInv, TypeOK, LocksHeld, Linked, PopFindsNode
<1> QED
  BY <1>1, <1>2, <1>3 DEF Next, Joined

\* The types, for any threads and any number of operations.
THEOREM QueueTypeCorrect == Spec => []TypeOK
BY QueueInvInit, QueueInvStep, PTL DEF Spec, QueueInv

\* Each mutex has one owner at a time, and its critical section one thread.
THEOREM LocksExclude == Spec => []LocksHeld
BY QueueInvInit, QueueInvStep, PTL DEF Spec, QueueInv

\* No pop ever sees a node half made, and no push touches a node popped: the
\* fields of a node are written under tail_mutex_ alone and read under
\* head_mutex_ alone, and this is what makes that safe.
THEOREM NodesFinished == Spec => []Linked
BY QueueInvInit, QueueInvStep, PTL DEF Spec, QueueInv

\* Between the predicate of wait_for_data and pop_head nobody empties the queue.
THEOREM PopIsSafe == Spec => []PopFindsNode
BY QueueInvInit, QueueInvStep, PTL DEF Spec, QueueInv
------------------------------------------------------------------------------
(* The queue as a sequence: the nodes from head to tail.                    *)

\* The data of the nodes between them.
Contents == [i \in 1 .. tail - head |-> data[head + i - 1]]

\* That they are a sequence of values.
ContentsListed ==
    /\ Contents \in Seq(Value)
    /\ Len(Contents) = tail - head
    /\ \A i \in 1 .. tail - head : Contents[i] = data[head + i - 1]

\* They are, because each of these nodes is finished.
LEMMA ContentsIsSeq == ASSUME QueueInv PROVE ContentsListed
<1> USE ThreadAssumption
<1>1. head \in Nat /\ tail \in Nat /\ tail - head \in Nat /\ tail <= MaxNode
  BY DEF QueueInv, TypeOK, Linked
<1>2. ASSUME NEW i \in 1 .. tail - head PROVE data[head + i - 1] \in Value
  <2>1. head + i - 1 \in Nodes /\ head + i - 1 < tail
    BY <1>1
  <2> QED
    BY <2>1 DEF QueueInv, Linked
<1>3. Contents \in [1 .. tail - head -> Value]
  BY <1>2 DEF Contents
<1>4. Contents \in Seq(Value) /\ Len(Contents) = tail - head
  BY <1>1, <1>3
<1> QED
  BY <1>4 DEF Contents, ContentsListed

\* A push is in the queue when it swings the tail, behind what was there.
LEMMA SwingPuts ==
    ASSUME QueueInv, QueueInv', NEW p \in Producers, Swing(p)
    PROVE  Fifo!Next
<1> USE ThreadAssumption
<1> DEFINE v == <<p, left[p]>>
<1>1. /\ tail' = tail + 1 /\ data[tail] = v /\ v \in Value
      /\ UNCHANGED <<head, data, taken>>
  BY DEF QueueInv, TypeOK, Linked, Swing, Goto, Value
<1>2. head \in Nat /\ tail \in Nat /\ head <= tail
  BY DEF QueueInv, TypeOK, Linked
<1>3. /\ Contents \in Seq(Value) /\ Len(Contents) = tail - head
      /\ \A i \in 1 .. tail - head : Contents[i] = data[head + i - 1]
  BY ContentsIsSeq DEF ContentsListed
<1>4. /\ Contents' \in Seq(Value) /\ Len(Contents') = tail + 1 - head
      /\ \A i \in 1 .. tail + 1 - head : Contents'[i] = data[head + i - 1]
  <2>1. ContentsListed'
    BY ContentsIsSeq, PTL
  <2>2. tail' = tail + 1 /\ head' = head /\ data' = data
    BY <1>1
  <2>3. tail' - head' = tail + 1 - head
    BY <2>2, <1>2
  <2> QED
    BY <2>1, <2>2, <2>3 DEF ContentsListed
<1> HIDE DEF v
<1>5. /\ Append(Contents, v) \in Seq(Value)
      /\ Len(Append(Contents, v)) = tail - head + 1
      /\ \A i \in 1 .. tail - head : Append(Contents, v)[i] = Contents[i]
      /\ Append(Contents, v)[tail - head + 1] = v
  BY <1>1, <1>3, AppendProperties
<1>6. \A i \in 1 .. tail + 1 - head : Contents'[i] = Append(Contents, v)[i]
  <2> SUFFICES ASSUME NEW i \in 1 .. tail + 1 - head
               PROVE  Contents'[i] = Append(Contents, v)[i]
    OBVIOUS
  <2>1. CASE i \in 1 .. tail - head
    <3>1. Contents'[i] = data[head + i - 1]
      BY <1>4
    <3>2. Append(Contents, v)[i] = data[head + i - 1]
      BY <2>1, <1>3, <1>5
    <3> QED
      BY <3>1, <3>2
  <2>2. CASE i = tail - head + 1
    <3>1. Contents'[i] = data[tail]
      BY <2>2, <1>2, <1>4
    <3>2. Append(Contents, v)[i] = v
      BY <2>2, <1>5
    <3> QED
      BY <3>1, <3>2, <1>1
  <2>3. i \in 1 .. tail - head \/ i = tail - head + 1
    BY <1>2
  <2> QED
    BY <2>1, <2>2, <2>3
<1>7. Contents' = Append(Contents, v)
  BY <1>2, <1>4, <1>5, <1>6, SeqEqual
<1> QED
  BY <1>1, <1>7 DEF Fifo!Next, Fifo!Put, Contents

\* A pop takes the oldest value.
LEMMA PopTakes ==
    ASSUME QueueInv, QueueInv', NEW c \in Consumers, PopHead(c)
    PROVE  Fifo!Take
<1> USE ThreadAssumption
<1>1. /\ head < tail /\ head' = head + 1 /\ taken' = Append(taken, data[head])
      /\ UNCHANGED <<tail, data>>
  BY PopEffect
<1>2. head \in Nat /\ tail \in Nat
  BY DEF QueueInv, TypeOK
<1>3. /\ Contents \in Seq(Value) /\ Len(Contents) = tail - head
      /\ \A i \in 1 .. tail - head : Contents[i] = data[head + i - 1]
  BY ContentsIsSeq DEF ContentsListed
<1>4. /\ Contents' \in Seq(Value) /\ Len(Contents') = tail - (head + 1)
      /\ \A i \in 1 .. tail - (head + 1) : Contents'[i] = data[head + 1 + i - 1]
  <2>1. ContentsListed'
    BY ContentsIsSeq, PTL
  <2> QED
    BY <1>1, <2>1 DEF ContentsListed
<1>5. Contents # << >>
  BY <1>1, <1>2, <1>3
<1>6. /\ Head(Contents) = data[head]
      /\ Tail(Contents) \in Seq(Value) /\ Len(Tail(Contents)) = tail - head - 1
      /\ \A i \in 1 .. tail - head - 1 : Tail(Contents)[i] = Contents[i + 1]
  <2>1. Head(Contents) = Contents[1] /\ 1 \in 1 .. tail - head /\ head + 1 - 1 = head
    BY <1>1, <1>2, <1>3, <1>5, HeadTailProperties
  <2> QED
    BY <2>1, <1>3, <1>5, HeadTailProperties
<1>7. ASSUME NEW i \in 1 .. tail - (head + 1)
      PROVE  Contents'[i] = Tail(Contents)[i]
  <2>1. /\ i \in 1 .. tail - head - 1 /\ i + 1 \in 1 .. tail - head
        /\ head + (i + 1) - 1 = head + 1 + i - 1
    BY <1>1, <1>2
  <2> QED
    BY <2>1, <1>3, <1>4, <1>6
<1>8. Contents' = Tail(Contents)
  <2>1. tail - (head + 1) = tail - head - 1
    BY <1>2
  <2>2. Len(Contents') = Len(Tail(Contents))
    BY <2>1, <1>4, <1>6
  <2>3. \A i \in 1 .. Len(Contents') : Contents'[i] = Tail(Contents)[i]
    BY <1>4, <1>7
  <2> QED
    BY <1>4, <1>6, <2>2, <2>3, SeqEqual
<1> QED
  BY <1>1, <1>5, <1>6, <1>8 DEF Fifo!Take, Contents

\* No other step shows: what a push writes before it swings the tail lies
\* behind the queue.
LEMMA RestHidden ==
    ASSUME QueueInv,
           \/ \E p \in Producers : LockTail(p) \/ Fill(p) \/ Link(p) \/ NotifyOne(p)
           \/ \E c \in Consumers : LockHead(c) \/ Check(c) \/ Sleep(c) \/ SpuriousWakeup(c)
           \/ UNCHANGED vars
    PROVE  UNCHANGED <<Contents, taken>>
<1> USE ThreadAssumption
<1>1. /\ UNCHANGED <<head, tail, taken>>
      /\ \A n \in Nodes : n # tail => data'[n] = data[n]
  BY DEF QueueInv, TypeOK, LockTail, Fill, Link, NotifyOne, LockHead, Check, Sleep,
         SpuriousWakeup, vars
<1>2. head \in Nat /\ tail \in Nat /\ tail <= MaxNode
  BY DEF QueueInv, TypeOK
<1>3. ASSUME NEW i \in 1 .. tail - head
      PROVE  data'[head + i - 1] = data[head + i - 1]
  <2>1. head + i - 1 \in Nodes /\ head + i - 1 # tail
    BY <1>2
  <2> QED
    BY <2>1, <1>1
<1> QED
  BY <1>1, <1>3 DEF Contents

\* The linked list with two locks is a FIFO queue: a push takes effect when it
\* swings the tail and a pop when it moves the head, every value comes out once,
\* in the order of the swings, and a pop never finds an empty queue.
THEOREM QueueIsFifo == Spec => IsFifo
<1>1. Init => Fifo!Init
  <2> SUFFICES ASSUME Init PROVE Fifo!Init
    OBVIOUS
  <2>1. Contents \in Seq(Value) /\ Len(Contents) = 0
    BY QueueInvInit, ContentsIsSeq DEF Init, ContentsListed
  <2>2. Contents = << >>
    BY <2>1, EmptySeq
  <2> QED
    BY <2>2 DEF Fifo!Init, Init, Contents
<1>2. QueueInv /\ QueueInv' /\ [Next]_vars => [Fifo!Next]_<<Contents, taken>>
  <2> SUFFICES ASSUME QueueInv, QueueInv', [Next]_vars
               PROVE  [Fifo!Next]_<<Contents, taken>>
    OBVIOUS
  <2>1. ASSUME NEW p \in Producers, Swing(p) PROVE Fifo!Next
    BY <2>1, SwingPuts
  <2>2. ASSUME NEW c \in Consumers, PopHead(c) PROVE Fifo!Next
    BY <2>2, PopTakes DEF Fifo!Next
  <2>3. \/ \E p \in Producers : Swing(p)
        \/ \E c \in Consumers : PopHead(c)
        \/ UNCHANGED <<Contents, taken>>
    BY RestHidden DEF Next, Push, WaitAndPop, Joined
  <2> QED
    BY <2>1, <2>2, <2>3
<1> QED
  BY <1>1, <1>2, QueueInvInit, QueueInvStep, PTL DEF Spec, IsFifo, Fifo!Spec, Contents
==============================================================================
