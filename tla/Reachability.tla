----------------------------- MODULE Reachability -----------------------------
(***************************************************************************)
(* The nodes that a walk along pointers meets, and what linking a node and *)
(* taking one out does to them.  The pointers are a function from nodes to *)
(* nodes; null is the pointer to none.                                     *)
(***************************************************************************)
EXTENDS Integers, TLAPS

\* S holds the first node, and with each node its successor.
Closed(S, first, next, null) ==
    /\ first # null => first \in S
    /\ \A n \in S : next[n] # null => next[n] \in S

\* The least of these sets.
Reached(first, next, null) ==
    LET closed == {S \in SUBSET DOMAIN next : Closed(S, first, next, null)}
    IN  {n \in DOMAIN next : \A S \in closed : n \in S}

\* From each of the nodes R the pointer leads to the one with the next larger
\* key, until the last one.
Ascending(R, next, key, last) ==
    /\ last \in R
    /\ \A n \in R : key[n] \in Int /\ key[n] <= key[last]
    /\ \A n \in R \ {last} : next[n] \in R /\ key[n] < key[next[n]]
    /\ \A a, b \in R : key[a] < key[b] => key[next[a]] <= key[b]
    /\ \A a, b \in R : key[a] = key[b] => a = b
------------------------------------------------------------------------------
\* A walk stays among the nodes it meets.
LEMMA ReachedClosed ==
    ASSUME NEW Nodes, NEW null, NEW first \in Nodes \cup {null},
           NEW next \in [Nodes -> Nodes \cup {null}]
    PROVE  /\ Reached(first, next, null) \subseteq Nodes
           /\ Closed(Reached(first, next, null), first, next, null)
BY DEF Reached, Closed

\* It meets nothing it is not led to.
LEMMA ReachedLeast ==
    ASSUME NEW Nodes, NEW null, NEW first,
           NEW next \in [Nodes -> Nodes \cup {null}],
           NEW S \in SUBSET Nodes, Closed(S, first, next, null)
    PROVE  Reached(first, next, null) \subseteq S
BY DEF Reached

\* Every node that is met is the first one or the successor of another.
LEMMA ReachedLed ==
    ASSUME NEW Nodes, NEW null, NEW first \in Nodes \cup {null},
           NEW next \in [Nodes -> Nodes \cup {null}],
           NEW n \in Reached(first, next, null), n # first
    PROVE  \E m \in Reached(first, next, null) : next[m] = n
<1> DEFINE R == Reached(first, next, null)
<1> SUFFICES ASSUME \A m \in R : next[m] # n PROVE FALSE
  OBVIOUS
<1>1. R \subseteq Nodes /\ Closed(R, first, next, null)
  BY ReachedClosed
<1> HIDE DEF R
<1>2. Closed(R \ {n}, first, next, null)
  BY <1>1 DEF Closed
<1>3. R \subseteq R \ {n}
  BY <1>1, <1>2, ReachedLeast DEF R
<1> QED
  BY <1>3 DEF R

\* What the pointers of the other nodes are does not matter.
LEMMA ReachedSame ==
    ASSUME NEW Nodes, NEW null, NEW first \in Nodes \cup {null},
           NEW next \in [Nodes -> Nodes \cup {null}],
           NEW to \in [Nodes -> Nodes \cup {null}],
           \A m \in Reached(first, next, null) : to[m] = next[m]
    PROVE  Reached(first, to, null) = Reached(first, next, null)
<1> DEFINE R == Reached(first, next, null)
           Q == Reached(first, to, null)
<1>1. R \subseteq Nodes /\ Closed(R, first, next, null)
  BY ReachedClosed
<1>2. Q \subseteq Nodes /\ Closed(Q, first, to, null)
  BY ReachedClosed
<1>3. \A m \in R : to[m] = next[m]
  OBVIOUS
<1> HIDE DEF R, Q
<1>4. Closed(R, first, to, null) /\ Closed(R \cap Q, first, next, null)
  BY <1>1, <1>2, <1>3 DEF Closed
<1>5. Q \subseteq R
  BY <1>1, <1>4, ReachedLeast DEF Q
<1>6. R \subseteq R \cap Q
  BY <1>1, <1>4, ReachedLeast DEF R
<1> QED
  BY <1>5, <1>6 DEF R, Q

\* A node put before the first.
LEMMA ReachedPush ==
    ASSUME NEW Nodes, NEW null, null \notin Nodes, NEW first \in Nodes \cup {null},
           NEW next \in [Nodes -> Nodes \cup {null}], NEW n \in Nodes,
           next[n] = first
    PROVE  Reached(n, next, null) = Reached(first, next, null) \cup {n}
<1> DEFINE R == Reached(first, next, null)
           Q == Reached(n, next, null)
<1>1. R \subseteq Nodes /\ Closed(R, first, next, null)
  BY ReachedClosed
<1>2. Q \subseteq Nodes /\ Closed(Q, n, next, null)
  BY ReachedClosed
<1> HIDE DEF R, Q
<1>3. Closed(R \cup {n}, n, next, null) /\ Closed(Q, first, next, null) /\ n \in Q
  BY <1>1, <1>2 DEF Closed
<1>4. Q \subseteq R \cup {n}
  BY <1>1, <1>3, ReachedLeast DEF Q
<1>5. R \subseteq Q
  BY <1>2, <1>3, ReachedLeast DEF R
<1> QED
  BY <1>3, <1>4, <1>5 DEF R, Q

\* The first node taken away, to which no other leads back.
LEMMA ReachedPop ==
    ASSUME NEW Nodes, NEW null, null \notin Nodes, NEW first \in Nodes,
           NEW next \in [Nodes -> Nodes \cup {null}],
           \A m \in Reached(first, next, null) : next[m] # first
    PROVE  Reached(next[first], next, null) = Reached(first, next, null) \ {first}
<1> DEFINE R == Reached(first, next, null)
           Q == Reached(next[first], next, null)
<1>1. R \subseteq Nodes /\ Closed(R, first, next, null)
  BY ReachedClosed
<1>2. Q \subseteq Nodes /\ Closed(Q, next[first], next, null)
  BY ReachedClosed
<1>3. \A m \in R : next[m] # first
  OBVIOUS
<1> HIDE DEF R, Q
<1>4. Closed(R \ {first}, next[first], next, null)
  BY <1>1, <1>3 DEF Closed
<1>5. Closed(Q \cup {first}, first, next, null)
  BY <1>2 DEF Closed
<1>6. Q \subseteq R \ {first}
  BY <1>1, <1>4, ReachedLeast DEF Q
<1>7. R \subseteq Q \cup {first}
  BY <1>2, <1>5, ReachedLeast DEF R
<1> QED
  BY <1>6, <1>7 DEF R, Q

\* A node linked between p and its successor is met, and all others still are.
LEMMA ReachedLink ==
    ASSUME NEW Nodes, NEW null, null \notin Nodes, NEW first \in Nodes,
           NEW next \in [Nodes -> Nodes \cup {null}],
           NEW to \in [Nodes -> Nodes \cup {null}],
           NEW p \in Reached(first, next, null), next[p] # null,
           NEW n \in Nodes, n \notin Reached(first, next, null),
           to[p] = n, to[n] = next[p], \A m \in Nodes \ {p, n} : to[m] = next[m]
    PROVE  Reached(first, to, null) = Reached(first, next, null) \cup {n}
<1> DEFINE R == Reached(first, next, null)
           Q == Reached(first, to, null)
<1>1. R \subseteq Nodes /\ Closed(R, first, next, null)
  BY ReachedClosed
<1>2. p \in Nodes /\ p # n /\ next[p] \in R
  BY <1>1 DEF Closed
<1>3. Q \subseteq Nodes /\ Closed(Q, first, to, null)
  BY ReachedClosed
<1> HIDE DEF R, Q
<1>4. Closed(R \cup {n}, first, to, null)
  BY <1>1, <1>2 DEF Closed
<1>5. Q \subseteq R \cup {n}
  BY <1>1, <1>4, ReachedLeast DEF Q
<1>6. Closed(R \cap Q, first, next, null)
  BY <1>1, <1>2, <1>3 DEF Closed, R
<1>7. R \subseteq R \cap Q
  BY <1>1, <1>6, ReachedLeast DEF R
<1>8. n \in Q
  <2>1. p \in Q
    BY <1>7 DEF R
  <2> QED
    BY <1>3, <2>1 DEF Closed
<1> QED
  BY <1>5, <1>7, <1>8 DEF R, Q

\* A node that p alone leads to is taken out, and all others are still met.
LEMMA ReachedUnlink ==
    ASSUME NEW Nodes, NEW null, null \notin Nodes, NEW first \in Nodes,
           NEW next \in [Nodes -> Nodes \cup {null}],
           NEW to \in [Nodes -> Nodes \cup {null}],
           NEW p \in Reached(first, next, null), NEW c \in Nodes,
           next[p] = c, c # first, p # c, next[c] # null, next[c] # c,
           \A m \in Reached(first, next, null) : next[m] = c => m = p,
           to[p] = next[c], \A m \in Nodes \ {p} : to[m] = next[m]
    PROVE  Reached(first, to, null) = Reached(first, next, null) \ {c}
<1> DEFINE R == Reached(first, next, null)
           Q == Reached(first, to, null)
<1>1. R \subseteq Nodes /\ Closed(R, first, next, null)
  BY ReachedClosed
<1>2. p \in Nodes /\ c \in R /\ next[c] \in R
  BY <1>1 DEF Closed
<1>3. Q \subseteq Nodes /\ Closed(Q, first, to, null)
  BY ReachedClosed
<1> HIDE DEF R, Q
<1>4. Closed(R \ {c}, first, to, null)
  BY <1>1, <1>2 DEF Closed, R
<1>5. Q \subseteq R \ {c}
  BY <1>1, <1>4, ReachedLeast DEF Q
<1> DEFINE S == {m \in R : m \in Q \/ (m = c /\ p \in Q)}
<1>6. Closed(S, first, next, null)
  BY <1>1, <1>2, <1>3 DEF Closed
<1>7. R \subseteq S
  BY <1>1, <1>6, ReachedLeast DEF R
<1> QED
  BY <1>5, <1>7 DEF R, Q
------------------------------------------------------------------------------
\* Nodes in ascending order have one predecessor each.
LEMMA OnePredecessor ==
    ASSUME NEW R, NEW next, NEW key, NEW last, Ascending(R, next, key, last),
           NEW p \in R \ {last}, NEW m \in R \ {last}, next[m] = next[p]
    PROVE  m = p
<1>1. key[m] < key[next[p]] /\ key[p] < key[next[p]] /\ next[p] \in R
  BY DEF Ascending
<1>2. ~(key[m] < key[p]) /\ ~(key[p] < key[m])
  BY <1>1 DEF Ascending
<1> QED
  BY <1>2 DEF Ascending

\* No key lies between those of two neighbours.
LEMMA NothingBetween ==
    ASSUME NEW R, NEW next, NEW key, NEW last, Ascending(R, next, key, last),
           NEW p \in R \ {last}, NEW k \in Int, key[p] < k, k < key[next[p]]
    PROVE  \A m \in R : key[m] # k
BY DEF Ascending

\* A node linked where its key belongs leaves the nodes in order.
LEMMA AscendingLink ==
    ASSUME NEW R, NEW next, NEW key, NEW last, Ascending(R, next, key, last),
           NEW p \in R \ {last}, NEW n, n \notin R, NEW to, NEW keys,
           keys[n] \in Int, key[p] < keys[n], keys[n] < key[next[p]],
           to[p] = n, to[n] = next[p], \A m \in R \ {p} : to[m] = next[m],
           \A m \in R : keys[m] = key[m]
    PROVE  /\ Ascending(R \cup {n}, to, keys, last)
           /\ \A m \in R : key[m] # keys[n]
<1>1. /\ last \in R /\ next[p] \in R /\ key[p] < key[next[p]]
      /\ \A m \in R : key[m] \in Int /\ key[m] <= key[last]
      /\ \A m \in R \ {last} : next[m] \in R /\ key[m] < key[next[m]]
      /\ \A a, b \in R : key[a] < key[b] => key[next[a]] <= key[b]
      /\ \A a, b \in R : key[a] = key[b] => a = b
  BY DEF Ascending
<1>2. \A m \in R : IF key[m] <= key[p] THEN key[m] < keys[n] ELSE keys[n] < key[m]
  BY <1>1
<1>3. ASSUME NEW m \in (R \cup {n}) \ {last}
      PROVE  to[m] \in R \cup {n} /\ keys[m] < keys[to[m]]
  <2>1. CASE m = n
    BY <1>1, <2>1
  <2>2. CASE m = p
    BY <1>1, <2>2
  <2>3. CASE m \in R \ {p, last}
    BY <1>1, <2>3
  <2> QED
    BY <1>3, <2>1, <2>2, <2>3
<1>4. ASSUME NEW a \in R \cup {n}, NEW b \in R \cup {n}, keys[a] < keys[b]
      PROVE  keys[to[a]] <= keys[b]
  <2>1. CASE a = n
    <3>1. b \in R /\ keys[n] < key[b]
      BY <1>4, <2>1
    <3>2. key[p] < key[b]
      BY <1>1, <3>1
    <3> QED
      BY <1>1, <2>1, <3>1, <3>2
  <2>2. CASE a = p
    <3>1. CASE b = n
      BY <1>1, <2>2, <3>1
    <3>2. CASE b \in R
      BY <1>1, <1>2, <1>4, <2>2, <3>2
    <3> QED
      BY <1>4, <3>1, <3>2
  <2>3. CASE a \in R \ {p}
    <3>1. to[a] = next[a] /\ keys[a] = key[a] /\ key[a] \in Int
      BY <1>1, <2>3
    <3>2. CASE b = n
      <4>1. key[a] < key[p]
        BY <1>1, <1>2, <1>4, <2>3, <3>1, <3>2
      <4>2. key[next[a]] <= key[p] /\ a # last
        BY <1>1, <2>3, <4>1
      <4> QED
        BY <1>1, <2>3, <3>1, <3>2, <4>2
    <3>3. CASE b \in R
      <4>1. key[a] < key[b] /\ keys[b] = key[b]
        BY <1>4, <3>1, <3>3
      <4>2. key[next[a]] <= key[b] /\ a # last
        BY <1>1, <2>3, <3>3, <4>1
      <4> QED
        BY <1>1, <2>3, <3>1, <4>1, <4>2
    <3> QED
      BY <1>4, <3>2, <3>3
  <2> QED
    BY <1>4, <2>1, <2>2, <2>3
<1>5. \A a, b \in R \cup {n} : keys[a] = keys[b] => a = b
  BY <1>1, <1>2
<1>6. \A m \in R \cup {n} : keys[m] \in Int /\ keys[m] <= keys[last]
  BY <1>1
<1> QED
  BY <1>1, <1>2, <1>3, <1>4, <1>5, <1>6 DEF Ascending

\* Taking a node out leaves the others in order.
LEMMA AscendingUnlink ==
    ASSUME NEW R, NEW next, NEW key, NEW last, Ascending(R, next, key, last),
           NEW p \in R \ {last}, NEW c, next[p] = c, c # last, NEW to,
           to[p] = next[c], \A m \in R \ {p} : to[m] = next[m]
    PROVE  /\ Ascending(R \ {c}, to, key, last)
           /\ c \in R /\ next[c] \in R /\ p # c /\ next[c] # c
<1>1. /\ last \in R
      /\ \A m \in R : key[m] \in Int /\ key[m] <= key[last]
      /\ \A m \in R \ {last} : next[m] \in R /\ key[m] < key[next[m]]
      /\ \A a, b \in R : key[a] < key[b] => key[next[a]] <= key[b]
      /\ \A a, b \in R : key[a] = key[b] => a = b
  BY DEF Ascending
<1>2. c \in R /\ next[c] \in R /\ key[p] < key[c] /\ key[c] < key[next[c]]
  BY <1>1
<1>3. p # c /\ next[c] # c
  BY <1>1, <1>2
<1>4. ASSUME NEW m \in R \ {c, last}
      PROVE  to[m] \in R \ {c} /\ key[m] < key[to[m]]
  <2>1. CASE m = p
    BY <1>1, <1>2, <1>3, <2>1
  <2>2. CASE m # p
    <3>1. next[m] # c
      BY <1>4, <2>2, OnePredecessor
    <3> QED
      BY <1>1, <1>4, <2>2, <3>1
  <2> QED
    BY <2>1, <2>2
<1>5. ASSUME NEW a \in R \ {c}, NEW b \in R \ {c}, key[a] < key[b]
      PROVE  key[to[a]] <= key[b]
  <2>1. CASE a = p
    <3>1. key[c] <= key[b]
      BY <1>1, <1>5, <2>1
    <3>2. key[c] < key[b]
      BY <1>1, <1>2, <1>5, <3>1
    <3> QED
      BY <1>1, <1>2, <1>5, <2>1, <3>2
  <2>2. CASE a # p
    BY <1>1, <1>5, <2>2
  <2> QED
    BY <2>1, <2>2
<1> QED
  BY <1>1, <1>2, <1>3, <1>4, <1>5 DEF Ascending
==============================================================================
