------------------------- MODULE ParallelSort_proofs -------------------------
(***************************************************************************)
(* ChunkAlive and SortsInput of ParallelSort, for every number of elements *)
(* and workers and every number of cores.                                  *)
(*                                                                         *)
(* The elements a call of do_sort is to sort are its territory.  The       *)
(* inductive invariant says that territories are disjoint or nested, that  *)
(* nothing of what a call has returned is still to be done, and that what  *)
(* is still to be done has not been a pivot yet, so that a pivot names one *)
(* chunk.                                                                  *)
(***************************************************************************)
EXTENDS ParallelSort, TLAPS, SequenceTheorems, FiniteSetTheorems

Here == {"sort", "hire", "spawn", "descend", "wait", "help", "return"}

FrameType ==
    [at : Here, rest : SUBSET Elem, chunk : Elem \cup {None}, pivot : Elem \cup {None},
     higher : Seq(Elem), result : Seq(Elem)]

TypeOK ==
    /\ list \in SUBSET Elem /\ max_thread_count_ \in Nat
    /\ calls \in [Threads -> Seq(FrameType)]
    /\ chunks \in Seq(Elem)
    /\ data \in [Elem -> SUBSET Elem]
    /\ promise \in [Elem -> Seq(Elem) \cup {None}]
    /\ started \in SUBSET Workers /\ ended \in SUBSET started
    /\ end \in BOOLEAN
    /\ output \in Seq(Elem) \cup {None}

\* What a call has to sort, and whether some of it is not taken apart yet.
Territory(f) == f.rest \cup (IF f.pivot = None THEN {} ELSE {f.pivot} \cup data[f.pivot])
Open(f) == f.at \in {"sort", "hire", "spawn", "descend"}
Working(f) == f.pivot # None /\ f.at # "return"

Waiting == ToSet(chunks)

\* An element is done when no call is to sort it, no chunk holds it, and no call
\* still needs it as its pivot.
Pending(e) ==
    \/ \E x \in Places : Open(Call(x)) /\ e \in Call(x).rest
    \/ \E c \in Waiting : e \in data[c]
    \/ \E x \in Places : Working(Call(x)) /\ Call(x).pivot = e

Finished(s, S) == IsSortOf(s, S) /\ \A e \in S : ~Pending(e)

\* The call a recursive call returns to, and whether there is none above x.
Under(x) == <<x[1], x[2] - 1>>
Over(x) == <<x[1], x[2] + 1>>
IsDescent(x) == Call(x).chunk = None /\ x[2] > 1
HasHigher(x) == \A y \in Places : IsDescent(y) => Under(y) # x
------------------------------------------------------------------------------
\* How the calls lie on each other.
Stacked ==
    \A x \in Places :
        LET f == Call(x) IN
        /\ f.at = "sort" => f.pivot = None
        /\ f.at \notin {"sort", "return"} => f.pivot # None
        /\ Over(x) \in Places => f.at = "wait"
        /\ x[2] = 1 => (f.chunk = None <=> x[1] = Main)

\* Each call has the territory it was made for.
Territories ==
    \A x \in Places :
        LET f == Call(x) IN
        /\ f.chunk # None => Territory(f) = data[f.chunk]
        /\ f.chunk = None => Territory(f) = IF IsDescent(x) THEN Call(Under(x)).rest ELSE list
        /\ IsDescent(x) => Call(Under(x)).pivot # None

\* The pivot lies between the parts.
Parted ==
    \A x \in Places :
        LET f == Call(x) IN
        f.pivot # None => /\ \A e \in data[f.pivot] : Less(e, f.pivot)
                          /\ \A e \in f.rest : ~Less(e, f.pivot) /\ e # f.pivot

\* What was returned is sorted, and done.
Results ==
    /\ \A x \in Places :
           LET f == Call(x) IN
           /\ f.at = "return" => Finished(f.result, Territory(f))
           /\ f.at \in {"wait", "help"} /\ HasHigher(x) => Finished(f.higher, f.rest)
    /\ \A c \in Elem : promise[c] # None => Finished(promise[c], data[c])
    /\ output # None => IsSortOf(output, list)

\* What is to be done is in one place, and was no pivot yet.
Unused(e) ==
    /\ promise[e] = None /\ e \notin Waiting
    /\ \A x \in Places : Call(x).pivot # e /\ Call(x).chunk # e

Apart ==
    /\ \A x, y \in Places : Open(Call(x)) /\ Open(Call(y)) /\ x # y =>
                                Call(x).rest \cap Call(y).rest = {}
    /\ \A b, c \in Waiting : b # c => data[b] \cap data[c] = {}
    /\ \A x \in Places, c \in Waiting : Open(Call(x)) => Call(x).rest \cap data[c] = {}
    /\ \A x \in Places : Open(Call(x)) => \A e \in Call(x).rest : Unused(e)
    /\ \A c \in Waiting : \A e \in data[c] : Unused(e)

\* A pivot names one chunk.
Names ==
    /\ \A i, j \in DOMAIN chunks : chunks[i] = chunks[j] => i = j
    /\ \A x, y \in Places : Call(x).pivot # None /\ Call(x).pivot = Call(y).pivot => x = y
    /\ \A x, y \in Places : Call(x).chunk # None /\ Call(x).chunk = Call(y).chunk => x = y
    /\ \A x \in Places : Call(x).chunk \notin Waiting
    /\ \A c \in Elem :
           c \in Waiting \/ (\E x \in Places : Call(x).chunk = c)
               <=> promise[c] = None /\ \E x \in Places : Call(x).pivot = c /\ Working(Call(x))

\* Nothing comes from elsewhere.
InList ==
    /\ \A x \in Places : Call(x).rest \subseteq list /\ (Call(x).pivot # None => Call(x).pivot \in list)
    /\ \A c \in Elem : data[c] \subseteq list

AtEnd == end => Places = {} /\ chunks = << >>

IInv == /\ TypeOK /\ Stacked /\ Territories /\ Parted /\ Results /\ Apart /\ Names /\ InList /\ AtEnd
------------------------------------------------------------------------------
(* The stacks as a set of places, each with its call.                      *)

LEMMA PlacesAre ==
    ASSUME TypeOK
    PROVE  /\ \A t \in Threads, i \in Nat : <<t, i>> \in Places <=> i >= 1 /\ i <= Len(calls[t])
           /\ \A x \in Places : /\ x = <<x[1], x[2]>> /\ x[1] \in Threads /\ x[2] \in Nat /\ x[2] >= 1
                                /\ x[2] <= Len(calls[x[1]])
                                /\ Call(x) \in FrameType
                                /\ x[2] > 1 => Under(x) \in Places
           /\ \A t \in Threads : calls[t] \in Seq(FrameType) /\ Len(calls[t]) \in Nat
<1>1. \A t \in Threads : calls[t] \in Seq(FrameType) /\ Len(calls[t]) \in Nat
                         /\ DOMAIN calls[t] = 1 .. Len(calls[t])
  BY DEF TypeOK
<1>2. \A x : x \in Places <=> \E t \in Threads : \E i \in DOMAIN calls[t] : x = <<t, i>>
  BY DEF Places
<1>3. \A t \in Threads, i \in Nat : <<t, i>> \in Places <=> i >= 1 /\ i <= Len(calls[t])
  <2> TAKE t \in Threads, i \in Nat
  <2>1. <<t, i>> \in Places <=> i \in DOMAIN calls[t]
    BY <1>2
  <2> QED
    BY <1>1, <2>1
<1>4. ASSUME NEW x \in Places
      PROVE  /\ x = <<x[1], x[2]>> /\ x[1] \in Threads /\ x[2] \in Nat /\ x[2] >= 1
             /\ x[2] <= Len(calls[x[1]])
             /\ Call(x) \in FrameType
             /\ x[2] > 1 => Under(x) \in Places
  <2>0. PICK t \in Threads : \E i \in 1 .. Len(calls[t]) : x = <<t, i>>
    BY <1>1, <1>2
  <2>1. PICK i \in 1 .. Len(calls[t]) : x = <<t, i>>
    BY <2>0
  <2>2. x[1] = t /\ x[2] = i /\ i \in Nat /\ i >= 1 /\ i <= Len(calls[t])
    BY <1>1, <2>1
  <2>3. calls[t][i] \in FrameType
    BY <1>1, <2>1
  <2>4. i > 1 => <<t, i - 1>> \in Places
    BY <1>1, <1>3, <2>2
  <2> QED
    BY <2>1, <2>2, <2>3, <2>4 DEF Call, Under
<1> QED
  BY <1>1, <1>3, <1>4

TopPlace(t) == <<t, Len(calls[t])>>

LEMMA TopIs ==
    ASSUME TypeOK, NEW t \in Threads, Busy(t)
    PROVE  /\ TopPlace(t) \in Places /\ Call(TopPlace(t)) = Top(t) /\ Top(t) \in FrameType
           /\ Over(TopPlace(t)) \notin Places
<1>1. calls[t] \in Seq(FrameType) /\ Len(calls[t]) \in Nat /\ calls[t] # << >>
  BY PlacesAre DEF Busy
<1>2. Len(calls[t]) >= 1
  BY <1>1
<1>3. TopPlace(t) \in Places /\ <<t, Len(calls[t]) + 1>> \notin Places
  BY <1>1, <1>2, PlacesAre DEF TopPlace
<1>4. Call(TopPlace(t)) = Top(t) /\ Over(TopPlace(t)) = <<t, Len(calls[t]) + 1>>
  BY DEF Call, TopPlace, Top, Last, Over
<1> QED
  BY <1>3, <1>4, PlacesAre

\* What is left when the top is taken off.
LEMMA FrontIs ==
    ASSUME NEW S, NEW s \in Seq(S), Len(s) >= 1
    PROVE  /\ Front(s) \in Seq(S) /\ Len(Front(s)) = Len(s) - 1
           /\ \A i \in 1 .. Len(s) - 1 : Front(s)[i] = s[i]
<1>1. Len(s) \in Nat
  OBVIOUS
<1> DEFINE a == SubSeq(s, 1, Len(s) - 1)
<1>2. /\ a \in Seq(S) /\ Len(a) = IF 1 <= Len(s) - 1 THEN Len(s) - 1 - 1 + 1 ELSE 0
      /\ \A i \in 1 .. Len(s) - 1 - 1 + 1 : a[i] = s[1 + i - 1]
  BY <1>1, SubSeqProperties
<1>3. Front(s) = a
  BY DEF Front
<1> HIDE DEF a
<1> QED
  BY <1>1, <1>2, <1>3

LEMMA FrontWith ==
    ASSUME NEW S, NEW s \in Seq(S), Len(s) >= 1, NEW f \in S
    PROVE  LET r == Front(s) \o <<f>>
           IN  /\ r \in Seq(S) /\ Len(r) = Len(s) /\ r[Len(s)] = f
               /\ \A i \in 1 .. Len(s) - 1 : r[i] = s[i]
<1>1. /\ Front(s) \in Seq(S) /\ Len(Front(s)) = Len(s) - 1 /\ Len(s) \in Nat
      /\ \A i \in 1 .. Len(s) - 1 : Front(s)[i] = s[i]
  BY FrontIs
<1> QED
  BY <1>1

LEMMA FrontWithTwo ==
    ASSUME NEW S, NEW s \in Seq(S), Len(s) >= 1, NEW f \in S, NEW g \in S
    PROVE  LET r == Front(s) \o <<f, g>>
           IN  /\ r \in Seq(S) /\ Len(r) = Len(s) + 1 /\ r[Len(s)] = f /\ r[Len(s) + 1] = g
               /\ \A i \in 1 .. Len(s) - 1 : r[i] = s[i]
<1>1. /\ Front(s) \in Seq(S) /\ Len(Front(s)) = Len(s) - 1 /\ Len(s) \in Nat
      /\ \A i \in 1 .. Len(s) - 1 : Front(s)[i] = s[i]
  BY FrontIs
<1> QED
  BY <1>1

\* How a thread's stack changes.
Gets(t, r) == calls' = [calls EXCEPT ![t] = r]
Calls(t, f, g) == calls' = [calls EXCEPT ![t] = Front(@) \o <<f, g>>]
Starts(t, g) == calls' = [calls EXCEPT ![t] = <<g>>]
Pops(t) == calls' = [calls EXCEPT ![t] = Front(@)]
Returns(t, f) == calls' = [calls EXCEPT ![t] = Front(Front(@)) \o <<f>>]

\* A thread gets a new stack, which differs from the old one from height h on.
LEMMA StackChanges ==
    ASSUME TypeOK, NEW t \in Threads, NEW r \in Seq(FrameType), NEW h \in Nat,
           Gets(t, r), h <= Len(calls[t]), h <= Len(r), \A i \in 1 .. h : r[i] = calls[t][i]
    PROVE  /\ calls' \in [Threads -> Seq(FrameType)]
           /\ \A i \in Nat : <<t, i>> \in Places' <=> i >= 1 /\ i <= Len(r)
           /\ \A i \in Nat : Call(<<t, i>>)' = r[i]
           /\ \A x \in Places : x[1] # t \/ x[2] <= h => x \in Places' /\ Call(x)' = Call(x)
           /\ \A x \in Places' : x \in Places \/ \E i \in Nat : i > h /\ i <= Len(r) /\ x = <<t, i>>
<1>1. /\ calls' \in [Threads -> Seq(FrameType)] /\ calls'[t] = r
      /\ \A u \in Threads \ {t} : calls'[u] = calls[u]
      /\ \A u \in Threads : Len(calls[u]) \in Nat /\ DOMAIN calls[u] = 1 .. Len(calls[u])
      /\ Len(r) \in Nat /\ DOMAIN r = 1 .. Len(r)
  BY DEF TypeOK, Gets
<1>2. \A x : x \in Places' <=> \E u \in Threads : \E i \in DOMAIN calls'[u] : x = <<u, i>>
  BY DEF Places
<1>3. \A x : x \in Places <=> \E u \in Threads : \E i \in DOMAIN calls[u] : x = <<u, i>>
  BY DEF Places
<1>4. \A i \in Nat : <<t, i>> \in Places' <=> i >= 1 /\ i <= Len(r)
  <2> TAKE i \in Nat
  <2>1. <<t, i>> \in Places' <=> i \in DOMAIN calls'[t]
    BY <1>2
  <2> QED
    BY <1>1, <2>1
<1>5. \A i \in Nat : Call(<<t, i>>)' = r[i]
  BY <1>1 DEF Call
<1>6. ASSUME NEW x \in Places, x[1] # t \/ x[2] <= h
      PROVE  x \in Places' /\ Call(x)' = Call(x)
  <2>0. PICK u \in Threads : \E i \in 1 .. Len(calls[u]) : x = <<u, i>>
    BY <1>1, <1>3
  <2>1. PICK i \in 1 .. Len(calls[u]) : x = <<u, i>>
    BY <2>0
  <2>2. CASE u # t
    <3>1. calls'[u] = calls[u] /\ i \in DOMAIN calls'[u]
      BY <1>1, <2>1, <2>2
    <3> QED
      BY <1>2, <2>1, <3>1 DEF Call
  <2>3. CASE u = t
    <3>1. i <= h /\ i \in 1 .. h /\ i \in 1 .. Len(r) /\ i \in Nat
      BY <1>1, <1>6, <2>1, <2>3
    <3>2. r[i] = calls[t][i]
      BY <3>1
    <3> QED
      BY <1>4, <1>5, <2>1, <2>3, <3>1, <3>2 DEF Call
  <2> QED
    BY <2>2, <2>3
<1>7. ASSUME NEW x \in Places', x \notin Places
      PROVE  \E i \in Nat : i > h /\ i <= Len(r) /\ x = <<t, i>>
  <2>1. PICK u \in Threads : \E i \in DOMAIN calls'[u] : x = <<u, i>>
    BY <1>2
  <2>2. u = t
    BY <1>1, <1>3, <1>7, <2>1
  <2>3. PICK i \in DOMAIN r : x = <<t, i>>
    BY <1>1, <2>1, <2>2
  <2>4. i \in Nat /\ i <= Len(r) /\ i >= 1 /\ ~(i <= Len(calls[t]))
    BY <1>1, <1>3, <1>7, <2>3
  <2>5. i > h
    BY <1>1, <2>4
  <2> QED
    BY <2>3, <2>4, <2>5
<1> QED
  BY <1>1, <1>4, <1>5, <1>6, <1>7

LEMMA Replaced ==
    ASSUME TypeOK, NEW t \in Threads, Busy(t), NEW f \in FrameType, Becomes(t, f),
           NEW top, top = TopPlace(t)
    PROVE  /\ calls' \in [Threads -> Seq(FrameType)]
           /\ Places' = Places /\ Call(top)' = f
           /\ \A x \in Places \ {top} : Call(x)' = Call(x)
<1> DEFINE s == calls[t]
           r == Front(s) \o <<f>>
           h == Len(s) - 1
<1>1. s \in Seq(FrameType) /\ Len(s) \in Nat /\ Len(s) >= 1
  BY PlacesAre DEF Busy
<1>2. Gets(t, r)
  BY DEF Gets, Becomes
<1>3. /\ r \in Seq(FrameType) /\ Len(r) = Len(s) /\ r[Len(s)] = f
      /\ \A i \in 1 .. h : r[i] = s[i]
  <2> HIDE DEF s
  <2> QED
    BY <1>1, FrontWith
<1>4. h \in Nat /\ h <= Len(s) /\ h <= Len(r) /\ top = <<t, Len(s)>>
  BY <1>1, <1>3 DEF TopPlace
<1>p. /\ \A i \in Nat : <<t, i>> \in Places <=> i >= 1 /\ i <= Len(s)
      /\ \A x \in Places : x = <<x[1], x[2]>> /\ x[2] \in Nat /\ (x[1] = t => x[2] <= Len(s))
  BY PlacesAre
<1> HIDE DEF r, s, h
<1>5. /\ calls' \in [Threads -> Seq(FrameType)]
      /\ \A i \in Nat : <<t, i>> \in Places' <=> i >= 1 /\ i <= Len(r)
      /\ \A i \in Nat : Call(<<t, i>>)' = r[i]
      /\ \A x \in Places : x[1] # t \/ x[2] <= h => x \in Places' /\ Call(x)' = Call(x)
      /\ \A x \in Places' : x \in Places \/ \E i \in Nat : i > h /\ i <= Len(r) /\ x = <<t, i>>
  <2>1. \A i \in 1 .. h : r[i] = calls[t][i]
    BY <1>3 DEF s
  <2>2. h <= Len(calls[t])
    BY <1>4 DEF s
  <2> QED
    BY <1>2, <1>3, <1>4, <2>1, <2>2, StackChanges
<1>6. Call(top)' = f
  BY <1>1, <1>3, <1>4, <1>5
<1>7. \A x \in Places \ {top} : x[1] # t \/ x[2] <= h
  BY <1>1, <1>4, <1>p DEF h
<1>8. Places' = Places
  <2>1. \A x \in Places' : x \in Places
    BY <1>1, <1>3, <1>5, <1>p DEF h
  <2>2. \A x \in Places \ {top} : x \in Places'
    BY <1>5, <1>7
  <2>3. top \in Places'
    BY <1>1, <1>3, <1>4, <1>5
  <2> QED
    BY <2>1, <2>2, <2>3
<1> QED
  BY <1>5, <1>6, <1>7, <1>8

LEMMA Pushed ==
    ASSUME TypeOK, NEW t \in Threads, Busy(t), NEW f \in FrameType, NEW g \in FrameType,
           Calls(t, f, g),
           NEW top, top = TopPlace(t), NEW new, new = Over(top)
    PROVE  /\ calls' \in [Threads -> Seq(FrameType)]
           /\ new \notin Places /\ Places' = Places \cup {new} /\ Call(top)' = f /\ Call(new)' = g
           /\ \A x \in Places \ {top} : Call(x)' = Call(x)
<1> DEFINE s == calls[t]
           r == Front(s) \o <<f, g>>
           h == Len(s) - 1
<1>1. s \in Seq(FrameType) /\ Len(s) \in Nat /\ Len(s) >= 1
  BY PlacesAre DEF Busy
<1>2. Gets(t, r)
  BY DEF Gets, Calls
<1>3. /\ r \in Seq(FrameType) /\ Len(r) = Len(s) + 1 /\ r[Len(s)] = f /\ r[Len(s) + 1] = g
      /\ \A i \in 1 .. h : r[i] = s[i]
  <2> HIDE DEF s
  <2> QED
    BY <1>1, FrontWithTwo
<1>4. h \in Nat /\ h <= Len(s) /\ h <= Len(r) /\ top = <<t, Len(s)>> /\ new = <<t, Len(s) + 1>>
  BY <1>1, <1>3 DEF TopPlace, Over
<1>p. /\ \A i \in Nat : <<t, i>> \in Places <=> i >= 1 /\ i <= Len(s)
      /\ \A x \in Places : x = <<x[1], x[2]>> /\ x[2] \in Nat /\ (x[1] = t => x[2] <= Len(s))
  BY PlacesAre
<1> HIDE DEF r, s, h
<1>5. /\ calls' \in [Threads -> Seq(FrameType)]
      /\ \A i \in Nat : <<t, i>> \in Places' <=> i >= 1 /\ i <= Len(r)
      /\ \A i \in Nat : Call(<<t, i>>)' = r[i]
      /\ \A x \in Places : x[1] # t \/ x[2] <= h => x \in Places' /\ Call(x)' = Call(x)
      /\ \A x \in Places' : x \in Places \/ \E i \in Nat : i > h /\ i <= Len(r) /\ x = <<t, i>>
  <2>1. \A i \in 1 .. h : r[i] = calls[t][i]
    BY <1>3 DEF s
  <2>2. h <= Len(calls[t])
    BY <1>4 DEF s
  <2> QED
    BY <1>2, <1>3, <1>4, <2>1, <2>2, StackChanges
<1>6. Call(top)' = f /\ Call(new)' = g
  BY <1>1, <1>3, <1>4, <1>5
<1>7. \A x \in Places \ {top} : x[1] # t \/ x[2] <= h
  BY <1>1, <1>4, <1>p DEF h
<1>8. new \notin Places
  BY <1>1, <1>4, <1>p
<1>9. Places' = Places \cup {new}
  <2>1. \A x \in Places' : x \in Places \/ x = new
    <3> TAKE x \in Places'
    <3>1. CASE \E i \in Nat : i > h /\ i <= Len(r) /\ x = <<t, i>>
      <4>1. PICK i \in Nat : i > h /\ i <= Len(r) /\ x = <<t, i>>
        BY <3>1
      <4>2. i = Len(s) \/ i = Len(s) + 1
        BY <1>1, <1>3, <4>1 DEF h
      <4> QED
        BY <1>1, <1>4, <1>p, <4>1, <4>2
    <3> QED
      BY <1>5, <3>1
  <2>2. \A x \in Places \ {top} : x \in Places'
    BY <1>5, <1>7
  <2>3. top \in Places' /\ new \in Places'
    BY <1>1, <1>3, <1>4, <1>5
  <2> QED
    BY <2>1, <2>2, <2>3
<1> QED
  BY <1>5, <1>6, <1>7, <1>8, <1>9

LEMMA Taken ==
    ASSUME TypeOK, NEW t \in Threads, ~Busy(t), NEW g \in FrameType,
           Starts(t, g), NEW new, new = <<t, 1>>
    PROVE  /\ calls' \in [Threads -> Seq(FrameType)]
           /\ new \notin Places /\ Places' = Places \cup {new} /\ Call(new)' = g
           /\ \A x \in Places : x[1] # t /\ Call(x)' = Call(x)
<1>1. calls[t] = << >> /\ Len(calls[t]) = 0
  BY DEF Busy
<1>2. <<g>> \in Seq(FrameType) /\ Len(<<g>>) = 1 /\ <<g>>[1] = g
  OBVIOUS
<1>3. /\ \A i \in Nat : <<t, i>> \notin Places
      /\ \A x \in Places : x = <<x[1], x[2]>> /\ x[2] \in Nat /\ x[1] # t
  BY <1>1, PlacesAre
<1>r. PICK r : r = <<g>>
  OBVIOUS
<1>4. /\ calls' \in [Threads -> Seq(FrameType)]
      /\ \A i \in Nat : <<t, i>> \in Places' <=> i >= 1 /\ i <= Len(r)
      /\ \A i \in Nat : Call(<<t, i>>)' = r[i]
      /\ \A x \in Places : x[1] # t \/ x[2] <= 0 => x \in Places' /\ Call(x)' = Call(x)
      /\ \A x \in Places' : x \in Places \/ \E i \in Nat : i > 0 /\ i <= Len(r) /\ x = <<t, i>>
  <2>1. Gets(t, r)
    BY <1>r DEF Gets, Starts
  <2>2. r \in Seq(FrameType) /\ 0 <= Len(r)
    BY <1>2, <1>r
  <2>3. 0 <= Len(calls[t]) /\ \A i \in 1 .. 0 : r[i] = calls[t][i]
    BY <1>1
  <2> QED
    BY <2>1, <2>2, <2>3, StackChanges
<1>5. Call(new)' = g /\ new \in Places'
  BY <1>2, <1>4, <1>r
<1>6. \A x \in Places' : x \in Places \/ x = new
  <2> TAKE x \in Places'
  <2>1. CASE \E i \in Nat : i > 0 /\ i <= Len(r) /\ x = <<t, i>>
    <3>1. PICK i \in Nat : i > 0 /\ i <= 1 /\ x = <<t, i>>
      BY <1>2, <2>1, <1>r
    <3>2. i = 1
      BY <3>1
    <3> QED
      BY <3>1, <3>2
  <2> QED
    BY <1>4, <2>1
<1> QED
  BY <1>3, <1>4, <1>5, <1>6

LEMMA Popped ==
    ASSUME TypeOK, NEW t \in Threads, Busy(t), Pops(t),
           NEW top, top = TopPlace(t)
    PROVE  /\ calls' \in [Threads -> Seq(FrameType)]
           /\ Places' = Places \ {top}
           /\ \A x \in Places \ {top} : Call(x)' = Call(x)
<1> DEFINE s == calls[t]
           r == Front(s)
           h == Len(s) - 1
<1>1. s \in Seq(FrameType) /\ Len(s) \in Nat /\ Len(s) >= 1
  BY PlacesAre DEF Busy
<1>2. Gets(t, r)
  BY DEF Gets, Pops
<1>3. r \in Seq(FrameType) /\ Len(r) = h /\ \A i \in 1 .. h : r[i] = s[i]
  <2> HIDE DEF s
  <2> QED
    BY <1>1, FrontIs
<1>4. h \in Nat /\ h <= Len(s) /\ h <= Len(r) /\ top = <<t, Len(s)>>
  BY <1>1, <1>3 DEF TopPlace
<1>p. /\ \A i \in Nat : <<t, i>> \in Places <=> i >= 1 /\ i <= Len(s)
      /\ \A x \in Places : x = <<x[1], x[2]>> /\ x[2] \in Nat /\ (x[1] = t => x[2] <= Len(s))
  BY PlacesAre
<1> HIDE DEF r, s, h
<1>5. /\ calls' \in [Threads -> Seq(FrameType)]
      /\ \A i \in Nat : <<t, i>> \in Places' <=> i >= 1 /\ i <= Len(r)
      /\ \A i \in Nat : Call(<<t, i>>)' = r[i]
      /\ \A x \in Places : x[1] # t \/ x[2] <= h => x \in Places' /\ Call(x)' = Call(x)
      /\ \A x \in Places' : x \in Places \/ \E i \in Nat : i > h /\ i <= Len(r) /\ x = <<t, i>>
  <2>1. \A i \in 1 .. h : r[i] = calls[t][i]
    BY <1>3 DEF s
  <2>2. h <= Len(calls[t])
    BY <1>4 DEF s
  <2> QED
    BY <1>2, <1>3, <1>4, <2>1, <2>2, StackChanges
<1>6. \A x \in Places \ {top} : x[1] # t \/ x[2] <= h
  BY <1>1, <1>4, <1>p DEF h
<1>7. top \notin Places'
  BY <1>1, <1>3, <1>4, <1>5 DEF h
<1>8. \A x \in Places' : x \in Places
  BY <1>3, <1>4, <1>5
<1> QED
  BY <1>5, <1>6, <1>7, <1>8

LEMMA Returned ==
    ASSUME TypeOK, NEW t \in Threads, Len(calls[t]) > 1, NEW f \in FrameType,
           Returns(t, f),
           NEW top, top = TopPlace(t), NEW below, below = Under(top)
    PROVE  /\ calls' \in [Threads -> Seq(FrameType)]
           /\ below \in Places /\ below # top /\ Call(below) = Last(Front(calls[t]))
           /\ Places' = Places \ {top} /\ Call(below)' = f
           /\ \A x \in Places \ {top, below} : Call(x)' = Call(x)
<1> DEFINE s == calls[t]
           w == Front(s)
           r == Front(w) \o <<f>>
           h == Len(s) - 2
<1>1. s \in Seq(FrameType) /\ Len(s) \in Nat /\ Len(s) > 1
  BY PlacesAre
<1>2. Gets(t, r)
  BY DEF Gets, Returns
<1>3. w \in Seq(FrameType) /\ Len(w) = Len(s) - 1 /\ \A i \in 1 .. Len(s) - 1 : w[i] = s[i]
  BY <1>1, FrontIs
<1> HIDE DEF w
<1>4. /\ r \in Seq(FrameType) /\ Len(r) = Len(w) /\ r[Len(w)] = f
      /\ \A i \in 1 .. Len(w) - 1 : r[i] = w[i]
  <2>1. Len(w) >= 1
    BY <1>1, <1>3
  <2> HIDE DEF s
  <2> QED
    BY <1>3, <2>1, FrontWith
<1> HIDE DEF r
<1>5. /\ h \in Nat /\ h <= Len(s) /\ h <= Len(r) /\ \A i \in 1 .. h : r[i] = s[i]
      /\ top = <<t, Len(s)>> /\ below = <<t, Len(s) - 1>>
  BY <1>1, <1>3, <1>4 DEF TopPlace, Under
<1>p. /\ \A i \in Nat : <<t, i>> \in Places <=> i >= 1 /\ i <= Len(s)
      /\ \A x \in Places : x = <<x[1], x[2]>> /\ x[2] \in Nat /\ (x[1] = t => x[2] <= Len(s))
  BY PlacesAre
<1>6. Call(below) = Last(w)
  <2>1. below[1] = t /\ below[2] = Len(s) - 1
    BY <1>5
  <2>2. Call(below) = s[Len(s) - 1] /\ Last(w) = w[Len(w)]
    BY <2>1 DEF Call, Last
  <2> HIDE DEF s
  <2> QED
    BY <1>1, <1>3, <2>2
<1> HIDE DEF s, h
<1>7. /\ calls' \in [Threads -> Seq(FrameType)]
      /\ \A i \in Nat : <<t, i>> \in Places' <=> i >= 1 /\ i <= Len(r)
      /\ \A i \in Nat : Call(<<t, i>>)' = r[i]
      /\ \A x \in Places : x[1] # t \/ x[2] <= h => x \in Places' /\ Call(x)' = Call(x)
      /\ \A x \in Places' : x \in Places \/ \E i \in Nat : i > h /\ i <= Len(r) /\ x = <<t, i>>
  <2>1. h <= Len(calls[t]) /\ \A i \in 1 .. h : r[i] = calls[t][i]
    BY <1>5 DEF s
  <2> QED
    BY <1>2, <1>4, <1>5, <2>1, StackChanges
<1>8. Call(below)' = f
  BY <1>1, <1>3, <1>4, <1>5, <1>7
<1>9. \A x \in Places \ {top, below} : x[1] # t \/ x[2] <= h
  BY <1>1, <1>5, <1>p DEF h
<1>10. below \in Places /\ below # top /\ top \notin Places' /\ below \in Places'
  BY <1>1, <1>3, <1>4, <1>5, <1>7, <1>p
<1>11. \A x \in Places' : x \in Places
  BY <1>1, <1>3, <1>4, <1>7, <1>p DEF h
<1> QED
  BY <1>6, <1>7, <1>8, <1>9, <1>10, <1>11 DEF s, w
------------------------------------------------------------------------------
(* What the results are made of.                                           *)

\* A list with one element or none.
LEMMA SortedShort ==
    ASSUME NEW S \in SUBSET Elem, Cardinality(S) <= 1
    PROVE  SetToSeq(S) \in Seq(Elem) /\ IsSortOf(SetToSeq(S), S)
<1> DEFINE n == Cardinality(S)
           Is(f) == f \in [1 .. n -> S] /\ IsInjective(f)
           s == SetToSeq(S)
<1>1. IsFiniteSet(S)
  BY SortAssumption, FS_Subset
<1>2. n \in Nat /\ (n = 0 => S = {}) /\ (n = 1 => \E x : S = {x})
  BY <1>1, FS_CardinalityType, FS_EmptySet, FS_Singleton
<1>3. \E f : Is(f)
  <2>1. CASE n = 0
    <3>1. Is([i \in 1 .. 0 |-> i])
      BY <2>1 DEF IsInjective
    <3> QED
      BY <3>1
  <2>2. CASE n = 1
    <3>1. PICK x : S = {x}
      BY <1>2, <2>2
    <3>2. Is([i \in 1 .. 1 |-> x])
      BY <2>2, <3>1 DEF IsInjective
    <3> QED
      BY <3>2
  <2> QED
    BY <1>2, <2>1, <2>2
<1>4. s = CHOOSE f \in [1 .. n -> S] : IsInjective(f)
  BY DEF SetToSeq
<1>5. s \in [1 .. n -> S] /\ IsInjective(s)
  <2>1. \E f \in [1 .. n -> S] : IsInjective(f)
    BY <1>3
  <2> HIDE DEF s, n
  <2> QED
    BY <1>4, <2>1
<1> HIDE DEF s, n
<1>6. DOMAIN s = 1 .. n /\ (n = 0 \/ n = 1)
  BY <1>2, <1>5 DEF n
<1>7. s \in Seq(Elem)
  <2>1. s \in [1 .. n -> Elem]
    BY <1>5
  <2> QED
    BY <1>2, <2>1, SeqDef
<1>8. SortedSeq(s)
  BY <1>6 DEF SortedSeq
<1>9. ToSet(s) = S
  <2>1. CASE n = 0
    BY <1>2, <1>6, <2>1 DEF ToSet
  <2>2. CASE n = 1
    <3>1. PICK x : S = {x}
      BY <1>2, <2>2
    <3>2. DOMAIN s = {1} /\ s[1] = x
      BY <1>5, <1>6, <2>2, <3>1
    <3> QED
      BY <3>1, <3>2 DEF ToSet
  <2> QED
    BY <1>6, <2>1, <2>2
<1> QED
  BY <1>5, <1>7, <1>8, <1>9 DEF IsSortOf, s

\* The elements below a pivot, the pivot, and the others.
LEMMA SortedJoin ==
    ASSUME NEW L, NEW R, NEW a \in Seq(Elem), NEW b \in Seq(Elem), NEW p \in Elem,
           IsSortOf(a, L), IsSortOf(b, R),
           \A e \in L : Less(e, p), \A e \in R : ~Less(e, p) /\ e # p
    PROVE  LET s == a \o <<p>> \o b IN s \in Seq(Elem) /\ IsSortOf(s, R \cup ({p} \cup L))
<1> DEFINE s == a \o <<p>> \o b
           m == Len(a)
           n == Len(b)
<1>1. m \in Nat /\ n \in Nat /\ DOMAIN a = 1 .. m /\ DOMAIN b = 1 .. n
  OBVIOUS
<1>2. /\ s \in Seq(Elem) /\ Len(s) = m + 1 + n /\ DOMAIN s = 1 .. m + 1 + n
      /\ \A i \in 1 .. m : s[i] = a[i]
      /\ s[m + 1] = p
      /\ \A i \in 1 .. n : s[m + 1 + i] = b[i]
  OBVIOUS
<1> HIDE DEF s, m, n
<1>3. /\ \A i \in 1 .. m : a[i] \in L /\ a[i] \in Elem
      /\ \A i \in 1 .. n : b[i] \in R /\ b[i] \in Elem
      /\ \A e \in L : \E i \in 1 .. m : a[i] = e
      /\ \A e \in R : \E i \in 1 .. n : b[i] = e
  BY <1>1 DEF IsSortOf, ToSet
<1>4. /\ \A i, j \in 1 .. m : (i < j => ~Less(a[j], a[i])) /\ (a[i] = a[j] => i = j)
      /\ \A i, j \in 1 .. n : (i < j => ~Less(b[j], b[i])) /\ (b[i] = b[j] => i = j)
  BY <1>1 DEF IsSortOf, SortedSeq, IsInjective
<1>5. /\ \A i \in 1 .. m : ~Less(p, a[i]) /\ a[i] # p
      /\ \A i \in 1 .. n : ~Less(b[i], p) /\ b[i] # p
      /\ \A i \in 1 .. m, j \in 1 .. n : ~Less(b[j], a[i]) /\ b[j] # a[i]
  BY <1>3, SortAssumption
\* An index of s is one of a, that of p, or one of b.
<1>6. \A k \in DOMAIN s : \/ k \in 1 .. m /\ s[k] = a[k]
                          \/ k = m + 1 /\ s[k] = p
                          \/ k - m - 1 \in 1 .. n /\ s[k] = b[k - m - 1]
  <2> TAKE k \in DOMAIN s
  <2>1. k \in Int /\ k >= 1 /\ k <= m + 1 + n
    BY <1>1, <1>2
  <2>2. CASE k <= m
    BY <1>1, <1>2, <2>1, <2>2
  <2>3. CASE k = m + 1
    BY <1>2, <2>3
  <2>4. CASE k > m + 1
    <3>1. k - m - 1 \in 1 .. n /\ k = m + 1 + (k - m - 1)
      BY <1>1, <2>1, <2>4
    <3> QED
      BY <1>2, <3>1
  <2> QED
    BY <1>1, <2>1, <2>2, <2>3, <2>4
<1>7. ASSUME NEW i \in DOMAIN s, NEW j \in DOMAIN s
      PROVE  (i < j => ~Less(s[j], s[i])) /\ (s[i] = s[j] => i = j)
  <2>1. i \in Int /\ j \in Int
    BY <1>1, <1>2
  <2>2. CASE i \in 1 .. m /\ s[i] = a[i]
    BY <1>1, <1>4, <1>5, <1>6, <2>1, <2>2
  <2>3. CASE i = m + 1 /\ s[i] = p
    BY <1>1, <1>3, <1>5, <1>6, <2>1, <2>3, SortAssumption
  <2>4. CASE i - m - 1 \in 1 .. n /\ s[i] = b[i - m - 1]
    BY <1>1, <1>4, <1>5, <1>6, <2>1, <2>4
  <2> QED
    BY <1>6, <2>2, <2>3, <2>4
<1>8. ToSet(s) = R \cup ({p} \cup L)
  <2>1. \A e \in ToSet(s) : e \in R \cup ({p} \cup L)
    BY <1>3, <1>6 DEF ToSet
  <2>2. \A e \in L : e \in ToSet(s)
    <3> TAKE e \in L
    <3>1. PICK i \in 1 .. m : a[i] = e
      BY <1>3
    <3>2. i \in DOMAIN s /\ s[i] = e
      BY <1>1, <1>2, <3>1
    <3> QED
      BY <3>2 DEF ToSet
  <2>3. \A e \in R : e \in ToSet(s)
    <3> TAKE e \in R
    <3>1. PICK i \in 1 .. n : b[i] = e
      BY <1>3
    <3>2. m + 1 + i \in DOMAIN s /\ s[m + 1 + i] = e
      BY <1>1, <1>2, <3>1
    <3> QED
      BY <3>2 DEF ToSet
  <2>4. p \in ToSet(s)
    <3>1. m + 1 \in DOMAIN s
      BY <1>1, <1>2
    <3> QED
      BY <1>2, <3>1 DEF ToSet
  <2> QED
    BY <2>1, <2>2, <2>3, <2>4
<1> QED
  BY <1>2, <1>7, <1>8 DEF IsSortOf, SortedSeq, IsInjective, s

\* A chunk is pushed.
LEMMA WithFirst ==
    ASSUME NEW S, NEW s \in Seq(S), NEW p \in S, p \notin ToSet(s), IsInjective(s)
    PROVE  LET r == <<p>> \o s
           IN  r \in Seq(S) /\ ToSet(r) = ToSet(s) \cup {p} /\ IsInjective(r)
<1> DEFINE r == <<p>> \o s
<1>1. /\ r \in Seq(S) /\ DOMAIN r = 1 .. Len(s) + 1 /\ r[1] = p
      /\ \A i \in 1 .. Len(s) : r[i + 1] = s[i]
      /\ Len(s) \in Nat /\ DOMAIN s = 1 .. Len(s)
  OBVIOUS
<1> HIDE DEF r
<1>2. \A i \in DOMAIN r : i = 1 \/ (i - 1 \in DOMAIN s /\ r[i] = s[i - 1])
  <2> TAKE i \in DOMAIN r
  <2>1. CASE i # 1
    <3>1. i - 1 \in 1 .. Len(s) /\ i = (i - 1) + 1
      BY <1>1, <2>1
    <3> QED
      BY <1>1, <3>1
  <2> QED
    BY <2>1
<1>3. \A i \in DOMAIN s : s[i] # p
  BY DEF ToSet
<1>4. IsInjective(r)
  BY <1>1, <1>2, <1>3 DEF IsInjective
<1>5. \A e \in ToSet(r) : e \in ToSet(s) \cup {p}
  BY <1>1, <1>2 DEF ToSet
<1>6. \A e \in ToSet(s) : e \in ToSet(r)
  <2> TAKE e \in ToSet(s)
  <2>1. PICK i \in 1 .. Len(s) : s[i] = e
    BY <1>1 DEF ToSet
  <2>2. i + 1 \in DOMAIN r /\ r[i + 1] = e
    BY <1>1, <2>1
  <2> QED
    BY <2>2 DEF ToSet
<1>7. p \in ToSet(r)
  BY <1>1 DEF ToSet
<1> QED
  BY <1>1, <1>4, <1>5, <1>6, <1>7 DEF r

\* The chunk on top is taken.
LEMMA WithoutFirst ==
    ASSUME NEW S, NEW s \in Seq(S), s # << >>, IsInjective(s)
    PROVE  /\ Head(s) \in S /\ Head(s) \in ToSet(s)
           /\ Tail(s) \in Seq(S) /\ ToSet(Tail(s)) = ToSet(s) \ {Head(s)} /\ IsInjective(Tail(s))
<1> DEFINE r == Tail(s)
           p == Head(s)
<1>1. /\ r \in Seq(S) /\ DOMAIN r = 1 .. Len(s) - 1 /\ p = s[1] /\ 1 \in DOMAIN s /\ p \in S
      /\ \A i \in 1 .. Len(s) - 1 : r[i] = s[i + 1]
      /\ Len(s) \in Nat /\ DOMAIN s = 1 .. Len(s)
  OBVIOUS
<1> HIDE DEF r, p
<1>2. \A i \in DOMAIN r : i + 1 \in DOMAIN s /\ i + 1 # 1 /\ r[i] = s[i + 1] /\ i \in Int
  BY <1>1
<1>3. IsInjective(r)
  BY <1>1, <1>2 DEF IsInjective
<1>4. \A e \in ToSet(r) : e \in ToSet(s) /\ e # p
  BY <1>1, <1>2 DEF ToSet, IsInjective
<1>5. \A e \in ToSet(s) : e # p => e \in ToSet(r)
  <2> SUFFICES ASSUME NEW i \in DOMAIN s, s[i] # p PROVE s[i] \in ToSet(r)
    BY DEF ToSet
  <2>1. i # 1 /\ i - 1 \in 1 .. Len(s) - 1 /\ i = (i - 1) + 1
    BY <1>1
  <2>2. i - 1 \in DOMAIN r /\ r[i - 1] = s[i]
    BY <1>1, <2>1
  <2> QED
    BY <2>2 DEF ToSet
<1>6. p \in ToSet(s)
  BY <1>1 DEF ToSet
<1> QED
  BY <1>1, <1>3, <1>4, <1>5, <1>6 DEF r, p

\* The frames the steps make.
Returning(g, s) == [g EXCEPT !.at = "return", !.result = s]
Parting(g, p, low) == [g EXCEPT !.at = "hire", !.pivot = p, !.rest = @ \ (low \cup {p})]

LEMMA FrameIs ==
    ASSUME NEW S \in SUBSET Elem, NEW c \in Elem \cup {None}, NEW g, g = Frame(S, c)
    PROVE  g \in FrameType /\ g.at = "sort" /\ g.rest = S /\ g.chunk = c /\ g.pivot = None
<1>1. << >> \in Seq(Elem) /\ "sort" \in Here
  BY DEF Here
<1> QED
  BY <1>1 DEF Frame, FrameType

LEMMA FrameAt ==
    ASSUME NEW g \in FrameType, NEW place \in Here, NEW f, f = [g EXCEPT !.at = place]
    PROVE  /\ f \in FrameType /\ f.at = place /\ f.rest = g.rest /\ f.chunk = g.chunk
           /\ f.pivot = g.pivot /\ f.higher = g.higher /\ f.result = g.result
BY DEF FrameType

LEMMA FrameReturns ==
    ASSUME NEW g \in FrameType, NEW s \in Seq(Elem),
           NEW f, f = Returning(g, s)
    PROVE  /\ f \in FrameType /\ f.at = "return" /\ f.rest = g.rest /\ f.chunk = g.chunk
           /\ f.pivot = g.pivot /\ f.higher = g.higher /\ f.result = s
<1>1. "return" \in Here
  BY DEF Here
<1> QED
  BY <1>1 DEF FrameType, Returning

LEMMA FrameSplit ==
    ASSUME NEW g \in FrameType, NEW p \in Elem, NEW low,
           NEW f, f = Parting(g, p, low)
    PROVE  /\ f \in FrameType /\ f.at = "hire" /\ f.rest = g.rest \ (low \cup {p})
           /\ f.chunk = g.chunk /\ f.pivot = p
<1>1. "hire" \in Here
  BY DEF Here
<1> QED
  BY <1>1 DEF FrameType, Parting

LEMMA FrameHigher ==
    ASSUME NEW g \in FrameType, NEW s \in Seq(Elem), NEW f, f = [g EXCEPT !.higher = s]
    PROVE  /\ f \in FrameType /\ f.at = g.at /\ f.rest = g.rest /\ f.chunk = g.chunk
           /\ f.pivot = g.pivot /\ f.higher = s /\ f.result = g.result
BY DEF FrameType
------------------------------------------------------------------------------
(* Every action keeps the invariant.                                       *)

LEMMA InitIInv == Init => IInv
<1> SUFFICES ASSUME Init PROVE IInv
  OBVIOUS
<1>1. PICK g \in Given : list = g.list /\ max_thread_count_ = (g.cores - 1) % UintSize
  BY DEF Init
<1>2. list \in SUBSET Elem /\ max_thread_count_ \in Nat
  BY <1>1, SortAssumption
<1> DEFINE f == Frame(list, None)
<1>3. f \in FrameType
  BY <1>2 DEF Frame, FrameType, Here
<1>4. calls = [t \in Threads |-> IF t = Main THEN <<f>> ELSE << >>]
  BY DEF Init
<1>5. f.at = "sort" /\ f.rest = list /\ f.chunk = None /\ f.pivot = None
  BY DEF Frame
<1> HIDE DEF f
<1>6. TypeOK
  <2>1. <<f>> \in Seq(FrameType) /\ << >> \in Seq(FrameType)
    BY <1>3
  <2>2. calls \in [Threads -> Seq(FrameType)]
    BY <1>4, <2>1
  <2>3. /\ chunks \in Seq(Elem) /\ data \in [Elem -> SUBSET Elem]
        /\ promise \in [Elem -> Seq(Elem) \cup {None}]
        /\ started \in SUBSET Workers /\ ended \in SUBSET started
        /\ end \in BOOLEAN /\ output \in Seq(Elem) \cup {None}
    <3>1. chunks = << >> /\ started = {} /\ ended = {} /\ end = FALSE /\ output = None
      BY DEF Init
    <3>2. data \in [Elem -> SUBSET Elem] /\ promise \in [Elem -> Seq(Elem) \cup {None}]
      BY DEF Init
    <3>3. chunks \in Seq(Elem)
      BY <3>1
    <3>4. started \in SUBSET Workers /\ ended \in SUBSET started /\ output \in Seq(Elem) \cup {None}
      BY <3>1
    <3> QED
      BY <3>1, <3>2, <3>3, <3>4
  <2> QED
    BY <1>2, <2>2, <2>3 DEF TypeOK
<1>7. calls[Main] = <<f>> /\ \A t \in Workers : calls[t] = << >>
  BY <1>4, SortAssumption DEF Threads
<1>8. /\ \A x : x \in Places <=> x = <<Main, 1>>
      /\ Call(<<Main, 1>>) = f
  <2>1. DOMAIN calls[Main] = {1} /\ calls[Main][1] = f
    BY <1>7
  <2>2. \A t \in Workers : DOMAIN calls[t] = {}
    BY <1>7
  <2>3. \A x : x \in Places <=> \E t \in Threads : \E i \in DOMAIN calls[t] : x = <<t, i>>
    BY DEF Places
  <2> QED
    BY <2>1, <2>2, <2>3 DEF Threads, Call
<1>9. chunks = << >> /\ Waiting = {} /\ DOMAIN chunks = {}
  BY DEF Init, Waiting, ToSet
<1>10. /\ \A c \in Elem : promise[c] = None /\ data[c] = {}
       /\ output = None /\ end = FALSE
  BY DEF Init
<1>11. Over(<<Main, 1>>) \notin Places
  BY <1>8 DEF Over
<1>12. Stacked
  BY <1>5, <1>8, <1>11 DEF Stacked
<1>13. Territories
  BY <1>5, <1>8 DEF Territories, Territory, IsDescent
<1>14. Parted /\ Results
  BY <1>5, <1>8, <1>10 DEF Parted, Results
<1>15. Apart
  BY <1>2, <1>5, <1>8, <1>9, <1>10, SortAssumption DEF Apart, Unused
<1>16. Names
  BY <1>5, <1>8, <1>9, <1>10, SortAssumption DEF Names, Working
<1>17. InList /\ AtEnd
  BY <1>5, <1>8, <1>10 DEF InList, AtEnd
<1> QED
  BY <1>6, <1>12, <1>13, <1>14, <1>15, <1>16, <1>17 DEF IInv

\* While t is in a call the sort has not ended.
LEMMA NotAtEnd ==
    ASSUME IInv, NEW t \in Threads, Busy(t)
    PROVE  end = FALSE
BY TopIs DEF IInv, TypeOK, AtEnd

\* What each call has parted stays parted.
LEMMA PartedStill ==
    ASSUME Parted, data' = data,
           \A x \in Places' : \/ Call(x)'.pivot = None
                             \/ /\ x \in Places
                                /\ Call(x)'.pivot = Call(x).pivot /\ Call(x)'.rest = Call(x).rest
    PROVE  Parted'
<1> SUFFICES ASSUME NEW x \in Places', Call(x)'.pivot # None
             PROVE  /\ \A e \in data'[Call(x)'.pivot] : Less(e, Call(x)'.pivot)
                    /\ \A e \in Call(x)'.rest : ~Less(e, Call(x)'.pivot) /\ e # Call(x)'.pivot
  BY DEF Parted
<1>1. /\ x \in Places /\ Call(x).pivot # None
      /\ Call(x)'.pivot = Call(x).pivot /\ Call(x)'.rest = Call(x).rest
  OBVIOUS
<1>2. /\ \A e \in data[Call(x).pivot] : Less(e, Call(x).pivot)
      /\ \A e \in Call(x).rest : ~Less(e, Call(x).pivot) /\ e # Call(x).pivot
  BY <1>1 DEF Parted
<1> QED
  BY <1>1, <1>2

\* Steps from one place of do_sort to the next.
LEMMA MovesOn ==
    ASSUME IInv, NEW t \in Threads, Busy(t), NEW f \in FrameType, Becomes(t, f),
           f.rest = Top(t).rest, f.chunk = Top(t).chunk, f.pivot = Top(t).pivot,
           f.higher = Top(t).higher, f.result = Top(t).result,
           \/ Top(t).at \in {"hire", "spawn"} /\ f.at \in {"spawn", "descend"}
           \/ Top(t).at \in {"wait", "help"} /\ f.at \in {"wait", "help"},
           UNCHANGED <<list, max_thread_count_, chunks, data, promise, end, output>>,
           started' \in SUBSET Workers, ended' \in SUBSET started'
    PROVE  IInv'
<1>t. PICK top : top = TopPlace(t)
  OBVIOUS
<1>0. TypeOK /\ Stacked /\ Territories /\ Parted /\ Results /\ Apart /\ Names /\ InList /\ AtEnd
  BY DEF IInv
<1>1. /\ top \in Places /\ Call(top) = Top(t) /\ Over(top) \notin Places
      /\ calls' \in [Threads -> Seq(FrameType)]
      /\ Places' = Places /\ Call(top)' = f
      /\ \A x \in Places \ {top} : Call(x)' = Call(x)
  <2>2. top \in Places /\ Call(top) = Top(t) /\ Over(top) \notin Places
    BY <1>0, <1>t, TopIs
  <2>3. /\ calls' \in [Threads -> Seq(FrameType)]
        /\ Places' = Places /\ Call(top)' = f
        /\ \A x \in Places \ {top} : Call(x)' = Call(x)
    BY <1>0, <1>t, Replaced
  <2> QED
    BY <2>2, <2>3
<1>2. /\ \A x \in Places :
             /\ Call(x)'.rest = Call(x).rest /\ Call(x)'.chunk = Call(x).chunk
             /\ Call(x)'.pivot = Call(x).pivot /\ Call(x)'.higher = Call(x).higher
             /\ Call(x)'.result = Call(x).result
             /\ Call(x)'.at = "sort" <=> Call(x).at = "sort"
             /\ Call(x)'.at = "return" <=> Call(x).at = "return"
             /\ Call(x)'.at \in {"wait", "help"} <=> Call(x).at \in {"wait", "help"}
             /\ Open(Call(x)') <=> Open(Call(x))
             /\ Working(Call(x)') <=> Working(Call(x))
      /\ list' = list /\ chunks' = chunks /\ Waiting' = Waiting /\ data' = data
      /\ promise' = promise /\ end' = end /\ output' = output
  BY <1>1 DEF Open, Working, Waiting
<1>3. TypeOK'
  BY <1>0, <1>1, <1>2 DEF TypeOK
<1>4. \A e : Pending(e)' <=> Pending(e)
  BY <1>1, <1>2 DEF Pending
<1>5. \A x \in Places : Territory(Call(x))' = Territory(Call(x))
  BY <1>2 DEF Territory
<1>6. \A s, S : Finished(s, S)' <=> Finished(s, S)
  BY <1>4 DEF Finished
<1>7. \A x \in Places : IsDescent(x) => Under(x) \in Places
  BY <1>0, PlacesAre DEF IsDescent
<1>8. \A x \in Places : (IsDescent(x)' <=> IsDescent(x)) /\ (HasHigher(x)' <=> HasHigher(x))
  BY <1>1, <1>2 DEF IsDescent, HasHigher
<1>9. Stacked'
  BY <1>0, <1>1, <1>2 DEF Stacked
<1>10. Territories'
  BY <1>0, <1>1, <1>2, <1>5, <1>7, <1>8 DEF Territories
<1>11. Parted'
  BY <1>0, <1>1, <1>2, PartedStill
<1>12. Results'
  BY <1>0, <1>1, <1>2, <1>5, <1>6, <1>8 DEF Results
<1>13. Apart'
  BY <1>0, <1>1, <1>2 DEF Apart, Unused
<1>14. Names'
  BY <1>0, <1>1, <1>2 DEF Names
<1>15. InList' /\ AtEnd'
  BY <1>0, <1>1, <1>2 DEF InList, AtEnd
<1> QED
  BY <1>3, <1>9, <1>10, <1>11, <1>12, <1>13, <1>14, <1>15 DEF IInv

\* Over the top of a stack there is no call.
LEMMA NoneOver ==
    ASSUME TypeOK, NEW x \in Places, Over(x) \notin Places
    PROVE  HasHigher(x)
<1> SUFFICES ASSUME NEW y \in Places, IsDescent(y), Under(y) = x PROVE FALSE
  BY DEF HasHigher
<1>1. y = <<y[1], y[2]>> /\ y[2] \in Nat
  BY PlacesAre
<1>2. Over(x) = y
  BY <1>1 DEF Over, Under
<1> QED
  BY <1>2

\* A call has its result.
LEMMA Finishes ==
    ASSUME IInv, NEW t \in Threads, Busy(t), NEW f \in FrameType, Becomes(t, f),
           f.rest = Top(t).rest, f.chunk = Top(t).chunk, f.pivot = Top(t).pivot,
           f.higher = Top(t).higher, f.at = "return",
           IsSortOf(f.result, Territory(Top(t))),
           \/ Top(t).at = "sort"
           \/ Top(t).at = "wait" /\ promise[Top(t).pivot] # None,
           UNCHANGED <<list, max_thread_count_, chunks, data, promise, started, ended, end, output>>
    PROVE  IInv'
<1>t. PICK top : top = TopPlace(t)
  OBVIOUS
<1>0. TypeOK /\ Stacked /\ Territories /\ Parted /\ Results /\ Apart /\ Names /\ InList /\ AtEnd
  BY DEF IInv
<1>1. /\ top \in Places /\ Call(top) = Top(t) /\ Over(top) \notin Places
      /\ calls' \in [Threads -> Seq(FrameType)]
      /\ Places' = Places /\ Call(top)' = f
      /\ \A x \in Places \ {top} : Call(x)' = Call(x)
  <2>2. top \in Places /\ Call(top) = Top(t) /\ Over(top) \notin Places
    BY <1>0, <1>t, TopIs
  <2>3. /\ calls' \in [Threads -> Seq(FrameType)]
        /\ Places' = Places /\ Call(top)' = f
        /\ \A x \in Places \ {top} : Call(x)' = Call(x)
    BY <1>0, <1>t, Replaced
  <2> QED
    BY <2>2, <2>3
<1>2. /\ \A x \in Places :
             /\ Call(x)'.rest = Call(x).rest /\ Call(x)'.chunk = Call(x).chunk
             /\ Call(x)'.pivot = Call(x).pivot /\ Call(x)'.higher = Call(x).higher
      /\ \A x \in Places \ {top} : Call(x)'.at = Call(x).at /\ Call(x)'.result = Call(x).result
      /\ Call(top)'.at = "return" /\ ~Open(Call(top)') /\ ~Working(Call(top)')
      /\ \A x \in Places \ {top} : /\ Open(Call(x)') <=> Open(Call(x))
                                   /\ Working(Call(x)') <=> Working(Call(x))
      /\ Waiting' = Waiting
  BY <1>1 DEF Open, Working, Waiting
<1>3. TypeOK'
  BY <1>0, <1>1 DEF TypeOK
<1>4. \A e : Pending(e)' => Pending(e)
  BY <1>1, <1>2 DEF Pending
<1>5. \A x \in Places : Territory(Call(x))' = Territory(Call(x))
  BY <1>2 DEF Territory
<1>6. \A s, S : Finished(s, S) => Finished(s, S)'
  BY <1>4 DEF Finished
<1>7. \A x \in Places : IsDescent(x) => Under(x) \in Places
  BY <1>0, PlacesAre DEF IsDescent
<1>8. \A x \in Places : (IsDescent(x)' <=> IsDescent(x)) /\ (HasHigher(x)' <=> HasHigher(x))
  BY <1>1, <1>2 DEF IsDescent, HasHigher
\* What the call had to sort is done.
<1>9. Finished(Call(top).result, Territory(Call(top)))'
  <2>1. IsSortOf(f.result, Territory(Call(top)))
    BY <1>1
  <2>2. CASE Top(t).at = "sort"
    <3>1. Territory(Call(top)) = Call(top).rest /\ Open(Call(top))
      BY <1>0, <1>1, <2>2 DEF Stacked, Territory, Open
    <3>2. ASSUME NEW e \in Call(top).rest
          PROVE  ~Pending(e)'
      <4>1. Unused(e)
        BY <1>0, <1>1, <3>1 DEF Apart
      <4>2. \A x \in Places \ {top} : Open(Call(x)) => e \notin Call(x).rest
        BY <1>0, <1>1, <3>1 DEF Apart
      <4>3. \A c \in Waiting : e \notin data[c]
        BY <1>0, <1>1, <3>1 DEF Apart
      <4> QED
        BY <1>1, <1>2, <4>1, <4>2, <4>3 DEF Pending, Unused
    <3> QED
      BY <1>1, <1>5, <2>1, <3>1, <3>2 DEF Finished
  <2>3. CASE Top(t).at = "wait" /\ promise[Top(t).pivot] # None
    <3>p. PICK p : p = Call(top).pivot
      OBVIOUS
    <3>1. p \in Elem /\ Territory(Call(top)) = Call(top).rest \cup ({p} \cup data[p])
          /\ promise[p] # None
      BY <1>0, <1>1, <2>3, <3>p, PlacesAre DEF Stacked, Territory, FrameType
    <3>2. HasHigher(top)
      BY <1>0, <1>1, NoneOver
    <3>3. Finished(Call(top).higher, Call(top).rest) /\ Finished(promise[p], data[p])
      BY <1>0, <1>1, <2>3, <3>1, <3>2 DEF Results
    <3>4. ~Pending(p)'
      <4>1. ~Unused(p)
        BY <1>1, <3>p DEF Unused
      <4>2. \A x \in Places : Open(Call(x)) => p \notin Call(x).rest
        BY <1>0, <4>1 DEF Apart
      <4>3. \A c \in Waiting : p \notin data[c]
        BY <1>0, <4>1 DEF Apart
      <4>4. \A x \in Places \ {top} : Call(x).pivot # p
        BY <1>0, <1>1, <3>p, <3>1, SortAssumption DEF Names
      <4> QED
        BY <1>1, <1>2, <4>2, <4>3, <4>4 DEF Pending
    <3>5. \A e \in Territory(Call(top)) : ~Pending(e)'
      BY <1>4, <3>1, <3>3, <3>4 DEF Finished
    <3> QED
      BY <1>1, <1>5, <2>1, <3>5 DEF Finished
  <2> QED
    BY <2>2, <2>3
<1>10. Stacked'
  BY <1>0, <1>1, <1>2 DEF Stacked
<1>11. Territories'
  BY <1>0, <1>1, <1>2, <1>5, <1>7, <1>8 DEF Territories
<1>12. Parted'
  BY <1>0, <1>1, <1>2, PartedStill
<1>13. Results'
  <2>1. \A x \in Places : Call(x)'.at = "return" => Finished(Call(x).result, Territory(Call(x)))'
    BY <1>0, <1>1, <1>2, <1>5, <1>6, <1>9 DEF Results
  <2>2. \A x \in Places : Call(x)'.at \in {"wait", "help"} /\ HasHigher(x)' =>
                             Finished(Call(x).higher, Call(x).rest)'
    BY <1>0, <1>1, <1>2, <1>6, <1>8 DEF Results
  <2>3. \A c \in Elem : promise[c] # None => Finished(promise[c], data[c])'
    BY <1>0, <1>6 DEF Results
  <2> QED
    BY <1>0, <1>1, <2>1, <2>2, <2>3 DEF Results
<1>14. Apart'
  BY <1>0, <1>1, <1>2 DEF Apart, Unused
<1>15. Names'
  <2>1. \A c \in Elem : promise[c] = None =>
           \A x \in Places : Call(x)'.pivot = c /\ Working(Call(x)') <=> Call(x).pivot = c /\ Working(Call(x))
    <3>1. Top(t).at = "sort" => Call(top).pivot = None
      BY <1>0, <1>1 DEF Stacked
    <3> QED
      BY <1>1, <1>2, <3>1, SortAssumption
  <2>2. \A c \in Elem : (\E x \in Places : Call(x)'.chunk = c) <=> \E x \in Places : Call(x).chunk = c
    BY <1>2
  <2> QED
    BY <1>0, <1>1, <1>2, <2>1, <2>2 DEF Names
<1>16. InList' /\ AtEnd'
  BY <1>0, <1>1, <1>2 DEF InList, AtEnd
<1> QED
  BY <1>3, <1>10, <1>11, <1>12, <1>13, <1>14, <1>15, <1>16 DEF IInv

\* A call splits its list.
LEMMA SplitKeeps ==
    ASSUME IInv, NEW t \in Threads, Busy(t), Top(t).at = "sort",
           NEW p \in Top(t).rest, NEW low, low = {e \in Top(t).rest \ {p} : Less(e, p)},
           NEW f \in FrameType, Becomes(t, f),
           f.at = "hire", f.rest = Top(t).rest \ (low \cup {p}), f.chunk = Top(t).chunk, f.pivot = p,
           chunks' = <<p>> \o chunks, data' = [data EXCEPT ![p] = low],
           UNCHANGED <<list, max_thread_count_, promise, started, ended, end, output>>
    PROVE  IInv'
<1>t. PICK top : top = TopPlace(t)
  OBVIOUS
<1>0. TypeOK /\ Stacked /\ Territories /\ Parted /\ Results /\ Apart /\ Names /\ InList /\ AtEnd
  BY DEF IInv
<1>1. /\ top \in Places /\ Call(top) = Top(t) /\ Over(top) \notin Places /\ Top(t) \in FrameType
      /\ calls' \in [Threads -> Seq(FrameType)]
      /\ Places' = Places /\ Call(top)' = f
      /\ \A x \in Places \ {top} : Call(x)' = Call(x)
  <2>1. top \in Places /\ Call(top) = Top(t) /\ Over(top) \notin Places /\ Top(t) \in FrameType
    BY <1>0, <1>t, TopIs
  <2>2. /\ calls' \in [Threads -> Seq(FrameType)]
        /\ Places' = Places /\ Call(top)' = f
        /\ \A x \in Places \ {top} : Call(x)' = Call(x)
    BY <1>0, <1>t, Replaced
  <2> QED
    BY <2>1, <2>2
<1>2. /\ p \in Elem /\ p \in Call(top).rest /\ low \in SUBSET Elem /\ low \subseteq Call(top).rest
      /\ \A e \in low : e # p /\ Less(e, p)
      /\ f.rest \subseteq Call(top).rest /\ p \notin f.rest /\ low \cap f.rest = {}
      /\ \A e \in f.rest : ~Less(e, p)
      /\ Call(top).rest = f.rest \cup ({p} \cup low)
  BY <1>1 DEF FrameType
<1>3. /\ Call(top).pivot = None /\ Open(Call(top)) /\ ~Working(Call(top)) /\ p # None
      /\ Open(f) /\ Working(f)
  BY <1>0, <1>1, <1>2, SortAssumption DEF Stacked, Open, Working
\* The pivot was in no call and no chunk but this call's list.
<1>4. /\ Unused(p)
      /\ \A x \in Places \ {top} : Open(Call(x)) => p \notin Call(x).rest
      /\ \A c \in Waiting : p \notin data[c]
  BY <1>0, <1>1, <1>2, <1>3 DEF Apart
<1>5. chunks' \in Seq(Elem) /\ Waiting' = Waiting \cup {p} /\ IsInjective(chunks') /\ Waiting \subseteq Elem
  <2>1. chunks \in Seq(Elem) /\ p \notin ToSet(chunks) /\ IsInjective(chunks)
    BY <1>0, <1>4 DEF TypeOK, Names, IsInjective, Unused, Waiting
  <2>2. ToSet(chunks) \subseteq Elem
    BY <2>1 DEF ToSet
  <2> QED
    BY <1>2, <2>1, <2>2, WithFirst DEF Waiting
<1>6. /\ data'[p] = low /\ \A c \in Elem \ {p} : data'[c] = data[c]
      /\ data' \in [Elem -> SUBSET Elem]
  BY <1>0, <1>2 DEF TypeOK
<1>8. /\ \A x \in Places : Call(x)'.chunk = Call(x).chunk /\ (x # top => Call(x).pivot # p)
      /\ \A x \in Places : Call(x).chunk # p
      /\ p \notin Waiting /\ promise[p] = None
  BY <1>1, <1>4 DEF Unused
<1>9. \A x \in Places \ {top} : Territory(Call(x))' = Territory(Call(x))
  <2> TAKE x \in Places \ {top}
  <2>1. Call(x).pivot # None => Call(x).pivot \in Elem \ {p}
    BY <1>0, <1>8, PlacesAre DEF FrameType
  <2> QED
    BY <1>1, <1>6, <2>1 DEF Territory
<1>10. Territory(Call(top))' = Territory(Call(top))
  BY <1>1, <1>2, <1>3, <1>6 DEF Territory
<1>11. \A e : Pending(e)' => Pending(e)
  <2> SUFFICES ASSUME NEW e, Pending(e)' PROVE Pending(e)
    OBVIOUS
  <2>1. e \in Call(top).rest => Pending(e)
    BY <1>1, <1>3 DEF Pending
  <2>2. CASE \E x \in Places' : Open(Call(x))' /\ e \in Call(x)'.rest
    BY <1>1, <1>2, <2>1, <2>2 DEF Pending
  <2>3. CASE \E c \in Waiting' : e \in data'[c]
    BY <1>2, <1>6, <1>5, <1>8, <2>1, <2>3 DEF Pending
  <2>4. CASE \E x \in Places' : Working(Call(x))' /\ Call(x)'.pivot = e
    BY <1>1, <1>2, <2>1, <2>4 DEF Pending
  <2> QED
    BY <2>2, <2>3, <2>4 DEF Pending
<1>12. \A s, S : Finished(s, S) => Finished(s, S)'
  BY <1>11 DEF Finished
<1>13. \A x \in Places : IsDescent(x) => Under(x) \in Places
  BY <1>0, PlacesAre DEF IsDescent
<1>14. \A x \in Places : (IsDescent(x)' <=> IsDescent(x)) /\ (HasHigher(x)' <=> HasHigher(x))
  BY <1>1, <1>8 DEF IsDescent, HasHigher
<1>15. TypeOK'
  BY <1>0, <1>1, <1>5, <1>6 DEF TypeOK
<1>16. Stacked'
  BY <1>0, <1>1, <1>3, <1>8 DEF Stacked
<1>17. Territories'
  <2>1. \A x \in Places : Territory(Call(x))' = Territory(Call(x))
    BY <1>9, <1>10
  <2>2. \A x \in Places : IsDescent(x) => Under(x) # top
    BY <1>0, <1>3 DEF Territories
  <2>3. \A x \in Places : Call(x).chunk # None => Call(x).chunk \in Elem \ {p}
    BY <1>0, <1>8, PlacesAre DEF FrameType
  <2> QED
    BY <1>0, <1>1, <1>6, <1>8, <1>13, <1>14, <2>1, <2>2, <2>3 DEF Territories
<1>18. Parted'
  <2>1. \A x \in Places \ {top} : Call(x).pivot # None => Call(x).pivot \in Elem \ {p}
    BY <1>0, <1>8, PlacesAre DEF FrameType
  <2> QED
    BY <1>0, <1>1, <1>2, <1>6, <2>1 DEF Parted
<1>19. Results'
  <2>1. \A x \in Places : Call(x)'.at = "return" => Finished(Call(x).result, Territory(Call(x)))'
    BY <1>0, <1>1, <1>9, <1>12 DEF Results
  <2>2. \A x \in Places : Call(x)'.at \in {"wait", "help"} /\ HasHigher(x)' =>
                             Finished(Call(x).higher, Call(x).rest)'
    BY <1>0, <1>1, <1>12, <1>14 DEF Results
  <2>3. \A c \in Elem : promise[c] # None => Finished(promise[c], data[c])'
    BY <1>0, <1>6, <1>8, <1>12 DEF Results
  <2> QED
    BY <1>0, <1>1, <2>1, <2>2, <2>3 DEF Results
<1>20. Apart'
  <2>1. \A e \in Elem : e # p /\ Unused(e) => Unused(e)'
    BY <1>1, <1>5, <1>8 DEF Unused
  <2>2. \A x \in Places : Open(Call(x))' => Open(Call(x)) /\ Call(x)'.rest \subseteq Call(x).rest
                                            /\ p \notin Call(x)'.rest
    BY <1>1, <1>2, <1>3, <1>4
  <2>3. \A x \in Places : Call(x).rest \subseteq Elem
    BY <1>0, PlacesAre DEF FrameType
  <2>4. \A c \in Waiting : data'[c] = data[c] /\ data[c] \subseteq Elem /\ p \notin data[c]
    BY <1>0, <1>4, <1>6, <1>5, <1>8 DEF TypeOK
  <2>5. \A x \in Places : Open(Call(x))' => \A e \in Call(x)'.rest : Unused(e)'
    BY <1>0, <2>1, <2>2, <2>3 DEF Apart
  <2>6. \A c \in Waiting' : \A e \in data'[c] : Unused(e)'
    <3>1. \A e \in low : Unused(e) /\ e \in Elem /\ e # p
      BY <1>0, <1>1, <1>2, <1>3 DEF Apart
    <3>2. \A c \in Waiting : \A e \in data[c] : Unused(e)
      BY <1>0 DEF Apart
    <3>3. \A e \in low : Unused(e)'
      BY <2>1, <3>1
    <3>4. ASSUME NEW c \in Waiting, NEW e \in data[c]
          PROVE  Unused(e)'
      BY <2>1, <2>4, <3>2
    <3> QED
      BY <1>5, <1>6, <2>4, <3>3, <3>4
  <2>7. \A x, y \in Places : Open(Call(x))' /\ Open(Call(y))' /\ x # y => Call(x)'.rest \cap Call(y)'.rest = {}
    BY <1>0, <2>2 DEF Apart
  <2>8. \A b, c \in Waiting' : b # c => data'[b] \cap data'[c] = {}
    BY <1>0, <1>1, <1>2, <1>3, <1>6, <1>5, <2>4 DEF Apart
  <2>9. \A x \in Places, c \in Waiting' : Open(Call(x))' => Call(x)'.rest \cap data'[c] = {}
    <3>1. \A x \in Places : Open(Call(x))' => Call(x)'.rest \cap low = {}
      BY <1>0, <1>1, <1>2, <1>3, <2>2 DEF Apart
    <3>2. \A x \in Places, c \in Waiting : Open(Call(x))' => Call(x)'.rest \cap data[c] = {}
      BY <1>0, <2>2 DEF Apart
    <3> QED
      BY <1>5, <1>6, <2>4, <3>1, <3>2
  <2> QED
    BY <1>1, <2>5, <2>6, <2>7, <2>8, <2>9 DEF Apart
<1>21. Names'
  <2>1. \A i, j \in DOMAIN chunks' : chunks'[i] = chunks'[j] => i = j
    BY <1>5 DEF IsInjective
  <2>2. \A x, y \in Places : Call(x)'.pivot # None /\ Call(x)'.pivot = Call(y)'.pivot => x = y
    BY <1>0, <1>1, <1>8 DEF Names
  <2>3. \A x, y \in Places : Call(x)'.chunk # None /\ Call(x)'.chunk = Call(y)'.chunk => x = y
    BY <1>0, <1>8 DEF Names
  <2>4. \A x \in Places : Call(x)'.chunk \notin Waiting'
    BY <1>0, <1>5, <1>8 DEF Names
  <2>5. ASSUME NEW c \in Elem
        PROVE  c \in Waiting' \/ (\E x \in Places : Call(x)'.chunk = c)
                  <=> promise[c] = None /\ \E x \in Places : Call(x)'.pivot = c /\ Working(Call(x))'
    <3>1. CASE c = p
      BY <1>1, <1>3, <1>5, <1>8, <3>1
    <3>2. CASE c # p
      <4>1. \A x \in Places : Call(x)'.pivot = c /\ Working(Call(x))' <=> Call(x).pivot = c /\ Working(Call(x))
        BY <1>1, <1>3, <3>2
      <4>2. (\E x \in Places : Call(x)'.pivot = c /\ Working(Call(x))')
               <=> \E x \in Places : Call(x).pivot = c /\ Working(Call(x))
        BY <4>1
      <4>3. (\E x \in Places : Call(x)'.chunk = c) <=> \E x \in Places : Call(x).chunk = c
        BY <1>8
      <4>4. c \in Waiting \/ (\E x \in Places : Call(x).chunk = c)
               <=> promise[c] = None /\ \E x \in Places : Call(x).pivot = c /\ Working(Call(x))
        BY <1>0 DEF Names
      <4> QED
        BY <1>5, <3>2, <4>2, <4>3, <4>4
    <3> QED
      BY <3>1, <3>2
  <2> QED
    BY <1>1, <2>1, <2>2, <2>3, <2>4, <2>5 DEF Names
<1>22. InList' /\ AtEnd'
  <2>1. \A x \in Places : Call(x)'.rest \subseteq list /\ (Call(x)'.pivot # None => Call(x)'.pivot \in list)
    <3>1. f.rest \subseteq list /\ p \in list
      BY <1>0, <1>1, <1>2 DEF InList
    <3> QED
      BY <1>0, <1>1, <3>1 DEF InList
  <2>2. \A c \in Elem : data'[c] \subseteq list
    BY <1>0, <1>1, <1>2, <1>6 DEF InList
  <2>3. end = FALSE
    BY NotAtEnd
  <2> QED
    BY <1>1, <2>1, <2>2, <2>3 DEF InList, AtEnd
<1> QED
  BY <1>15, <1>16, <1>17, <1>18, <1>19, <1>20, <1>21, <1>22 DEF IInv

\* Where a call is put over the top of a stack.
LEMMA OverTop ==
    ASSUME TypeOK, NEW top \in Places, NEW new, new = Over(top), new \notin Places,
           Places' = Places \cup {new}
    PROVE  /\ new[2] > 1 /\ Under(new) = top /\ Over(new) \notin Places'
           /\ \A x \in Places' : Over(x) = new => x = top
<1>1. \A x \in Places : x = <<x[1], x[2]>> /\ x[2] \in Nat /\ x[2] >= 1
  BY PlacesAre
<1>2. new = <<top[1], top[2] + 1>> /\ top = <<top[1], top[2]>> /\ top[2] \in Nat /\ top[2] >= 1
  BY <1>1 DEF Over
<1>3. new[2] > 1 /\ Under(new) = top
  BY <1>2 DEF Under
<1>4. \A x \in Places : Over(x) = new => x = top
  <2> SUFFICES ASSUME NEW x \in Places, Over(x) = new PROVE x = top
    OBVIOUS
  <2>1. x[1] = top[1] /\ x[2] + 1 = top[2] + 1
    BY <1>2 DEF Over
  <2> QED
    BY <1>1, <2>1
<1>5. Over(new) \notin Places /\ Over(new) # new
  <2>1. Over(new) = <<top[1], top[2] + 2>> /\ Under(Over(new)) = new /\ Over(new)[2] > 1
    BY <1>2 DEF Over, Under
  <2>2. \A x \in Places : x[2] > 1 => Under(x) \in Places
    BY PlacesAre
  <2> QED
    BY <1>2, <2>1, <2>2
<1> QED
  BY <1>3, <1>4, <1>5

\* A call sorts the elements that are not below its pivot.
LEMMA DescendKeeps ==
    ASSUME IInv, NEW t \in Threads, Busy(t), Top(t).at = "descend",
           NEW f \in FrameType, NEW g \in FrameType,
           Calls(t, f, g),
           f.at = "wait", f.rest = Top(t).rest, f.chunk = Top(t).chunk, f.pivot = Top(t).pivot,
           f.higher = Top(t).higher, f.result = Top(t).result,
           g.at = "sort", g.rest = Top(t).rest, g.chunk = None, g.pivot = None,
           UNCHANGED <<list, max_thread_count_, chunks, data, promise, started, ended, end, output>>
    PROVE  IInv'
<1>t. PICK top : top = TopPlace(t)
  OBVIOUS
<1>n. PICK new : new = Over(top)
  OBVIOUS
<1>0. TypeOK /\ Stacked /\ Territories /\ Parted /\ Results /\ Apart /\ Names /\ InList /\ AtEnd
  BY DEF IInv
<1>1. /\ top \in Places /\ Call(top) = Top(t) /\ Over(top) \notin Places /\ Top(t) \in FrameType
      /\ calls' \in [Threads -> Seq(FrameType)]
      /\ new \notin Places /\ Places' = Places \cup {new} /\ Call(top)' = f /\ Call(new)' = g
      /\ \A x \in Places \ {top} : Call(x)' = Call(x)
  <2>1. top \in Places /\ Call(top) = Top(t) /\ Over(top) \notin Places /\ Top(t) \in FrameType
    BY <1>0, <1>t, TopIs
  <2>2. /\ calls' \in [Threads -> Seq(FrameType)]
        /\ new \notin Places /\ Places' = Places \cup {new} /\ Call(top)' = f /\ Call(new)' = g
        /\ \A x \in Places \ {top} : Call(x)' = Call(x)
    BY <1>0, <1>t, <1>n, Pushed
  <2> QED
    BY <2>1, <2>2
<1>2. /\ new[2] > 1 /\ Under(new) = top /\ Over(new) \notin Places'
      /\ \A x \in Places' : Over(x) = new => x = top
  BY <1>0, <1>1, <1>n, OverTop
<1>4. /\ \A x \in Places :
             /\ Call(x)'.rest = Call(x).rest /\ Call(x)'.chunk = Call(x).chunk
             /\ Call(x)'.pivot = Call(x).pivot /\ Call(x)'.higher = Call(x).higher
             /\ Call(x)'.result = Call(x).result
             /\ Working(Call(x))' <=> Working(Call(x))
      /\ \A x \in Places \ {top} : Open(Call(x))' <=> Open(Call(x))
      /\ Open(Call(top)) /\ Call(top).pivot # None /\ ~Open(Call(top))'
      /\ Open(Call(new))' /\ ~Working(Call(new))'
      /\ Waiting' = Waiting
  BY <1>0, <1>1 DEF Open, Working, Waiting, Stacked
<1>5. TypeOK'
  BY <1>0, <1>1 DEF TypeOK
<1>6. \A e : Pending(e)' => Pending(e)
  <2> SUFFICES ASSUME NEW e, Pending(e)' PROVE Pending(e)
    OBVIOUS
  <2>1. CASE \E x \in Places' : Open(Call(x))' /\ e \in Call(x)'.rest
    BY <1>1, <1>4, <2>1 DEF Pending
  <2>2. CASE \E c \in Waiting' : e \in data'[c]
    BY <1>4, <2>2 DEF Pending
  <2>3. CASE \E x \in Places' : Working(Call(x))' /\ Call(x)'.pivot = e
    BY <1>1, <1>4, <2>3 DEF Pending
  <2> QED
    BY <2>1, <2>2, <2>3 DEF Pending
<1>7. \A x \in Places : Territory(Call(x))' = Territory(Call(x))
  BY <1>4 DEF Territory
<1>8. \A s, S : Finished(s, S) => Finished(s, S)'
  BY <1>6 DEF Finished
<1>9. \A x \in Places : IsDescent(x) => Under(x) \in Places
  BY <1>0, PlacesAre DEF IsDescent
<1>10. /\ \A x \in Places : IsDescent(x)' <=> IsDescent(x)
       /\ IsDescent(new)'
       /\ \A x \in Places : HasHigher(x)' => x # top /\ HasHigher(x)
       /\ \A x \in Places : Under(x) # new \/ ~IsDescent(x)
  BY <1>1, <1>2, <1>4, <1>9 DEF IsDescent, HasHigher
<1>11. Stacked'
  <2>1. \A x \in Places : Over(x) \in Places' => Call(x)'.at = "wait"
    BY <1>0, <1>1, <1>2 DEF Stacked
  <2> QED
    BY <1>0, <1>1, <1>2, <1>4, <2>1 DEF Stacked
<1>12. Territories'
  <2>1. Territory(Call(new))' = Call(top).rest
    BY <1>1 DEF Territory
  <2>2. Call(Under(new))'.rest = Call(top).rest /\ Call(Under(new))'.pivot # None
    BY <1>1, <1>2, <1>4
  <2>3. \A x \in Places : IsDescent(x) => /\ Call(Under(x))'.rest = Call(Under(x)).rest
                                         /\ Call(Under(x))'.pivot = Call(Under(x)).pivot
    BY <1>4, <1>9
  <2>4. Call(new)'.chunk = None
    BY <1>1
  <2> QED
    BY <1>0, <1>1, <1>4, <1>7, <1>10, <2>1, <2>2, <2>3, <2>4 DEF Territories
<1>13. Parted'
  BY <1>0, <1>1, <1>4, PartedStill
<1>14. Results'
  <2>1. \A x \in Places' : Call(x)'.at = "return" => Finished(Call(x).result, Territory(Call(x)))'
    BY <1>0, <1>1, <1>4, <1>7, <1>8 DEF Results
  <2>2. \A x \in Places' : Call(x)'.at \in {"wait", "help"} /\ HasHigher(x)' =>
                             Finished(Call(x).higher, Call(x).rest)'
    BY <1>0, <1>1, <1>8, <1>10 DEF Results
  <2>3. \A c \in Elem : promise[c] # None => Finished(promise[c], data[c])'
    BY <1>0, <1>8 DEF Results
  <2> QED
    BY <1>0, <2>1, <2>2, <2>3 DEF Results
<1>15. Apart'
  <2>1. \A e : Unused(e) /\ e # None => Unused(e)'
    BY <1>1, <1>4 DEF Unused
  <2>2. \A x \in Places : Call(x).rest \subseteq Elem
    BY <1>0, PlacesAre DEF FrameType
  <2>3. \A c \in Waiting : data[c] \subseteq Elem
    BY <1>0 DEF TypeOK, Waiting, ToSet
  <2>4. \A x \in Places' : Open(Call(x))' => \A e \in Call(x)'.rest : Unused(e)'
    BY <1>0, <1>1, <1>4, <2>1, <2>2, SortAssumption DEF Apart
  <2>5. \A c \in Waiting' : \A e \in data'[c] : Unused(e)'
    BY <1>0, <1>4, <2>1, <2>3, SortAssumption DEF Apart
  <2>6. \A x, y \in Places' : Open(Call(x))' /\ Open(Call(y))' /\ x # y => Call(x)'.rest \cap Call(y)'.rest = {}
    BY <1>0, <1>1, <1>4 DEF Apart
  <2>7. \A b, c \in Waiting' : b # c => data'[b] \cap data'[c] = {}
    BY <1>0, <1>4 DEF Apart
  <2>8. \A x \in Places', c \in Waiting' : Open(Call(x))' => Call(x)'.rest \cap data'[c] = {}
    BY <1>0, <1>1, <1>4 DEF Apart
  <2> QED
    BY <2>4, <2>5, <2>6, <2>7, <2>8 DEF Apart
<1>16. Names'
  <2>1. \A x, y \in Places' : Call(x)'.pivot # None /\ Call(x)'.pivot = Call(y)'.pivot => x = y
    BY <1>0, <1>1, <1>4 DEF Names
  <2>2. \A x, y \in Places' : Call(x)'.chunk # None /\ Call(x)'.chunk = Call(y)'.chunk => x = y
    BY <1>0, <1>1, <1>4 DEF Names
  <2>3. \A x \in Places' : Call(x)'.chunk \notin Waiting'
    <3>1. None \notin Waiting
      BY <1>0, SortAssumption DEF TypeOK, Waiting, ToSet
    <3> QED
      BY <1>0, <1>1, <1>4, <3>1 DEF Names
  <2>4. ASSUME NEW c \in Elem
        PROVE  c \in Waiting' \/ (\E x \in Places' : Call(x)'.chunk = c)
                  <=> promise[c] = None /\ \E x \in Places' : Call(x)'.pivot = c /\ Working(Call(x))'
    <3>1. (\E x \in Places' : Call(x)'.chunk = c) <=> \E x \in Places : Call(x).chunk = c
      BY <1>1, <1>4, SortAssumption
    <3>2. (\E x \in Places' : Call(x)'.pivot = c /\ Working(Call(x))')
             <=> \E x \in Places : Call(x).pivot = c /\ Working(Call(x))
      BY <1>1, <1>4
    <3>3. c \in Waiting \/ (\E x \in Places : Call(x).chunk = c)
             <=> promise[c] = None /\ \E x \in Places : Call(x).pivot = c /\ Working(Call(x))
      BY <1>0 DEF Names
    <3> QED
      BY <1>4, <3>1, <3>2, <3>3
  <2> QED
    BY <1>0, <2>1, <2>2, <2>3, <2>4 DEF Names
<1>17. InList' /\ AtEnd'
  <2>1. end = FALSE
    BY NotAtEnd
  <2>2. Call(top).rest \subseteq list
    BY <1>0, <1>1 DEF InList
  <2> QED
    BY <1>0, <1>1, <1>4, <2>1, <2>2 DEF InList, AtEnd
<1> QED
  BY <1>5, <1>11, <1>12, <1>13, <1>14, <1>15, <1>16, <1>17 DEF IInv

\* A thread takes the chunk on top of the stack, and begins to sort it.
LEMMA Takes ==
    ASSUME IInv, chunks # << >>, NEW c, c = Head(chunks), NEW g \in FrameType,
           g.at = "sort", g.rest = data[c], g.chunk = c, g.pivot = None,
           NEW new, new \notin Places, Places' = Places \cup {new}, Call(new)' = g,
           new[2] > 1 \/ new[1] # Main, Over(new) \notin Places',
           \A x \in Places :
              /\ Call(x)'.rest = Call(x).rest /\ Call(x)'.chunk = Call(x).chunk
              /\ Call(x)'.pivot = Call(x).pivot /\ Call(x)'.higher = Call(x).higher
              /\ Call(x)'.result = Call(x).result
              /\ Call(x)'.at = Call(x).at \/ (Call(x).at = "help" /\ Call(x)'.at = "wait")
              /\ Over(x) = new => Call(x)'.at = "wait",
           calls' \in [Threads -> Seq(FrameType)], chunks' = Tail(chunks), end = FALSE,
           UNCHANGED <<list, max_thread_count_, data, promise, started, ended, end, output>>
    PROVE  IInv'
<1>0. TypeOK /\ Stacked /\ Territories /\ Parted /\ Results /\ Apart /\ Names /\ InList /\ AtEnd
  BY DEF IInv
<1>1. /\ c \in Elem /\ c \in Waiting /\ c # None
      /\ chunks' \in Seq(Elem) /\ Waiting' = Waiting \ {c} /\ IsInjective(chunks')
  <2>1. chunks \in Seq(Elem) /\ IsInjective(chunks)
    BY <1>0 DEF TypeOK, Names, IsInjective
  <2> QED
    BY <2>1, WithoutFirst, SortAssumption DEF Waiting
<1>2. /\ \A x \in Places : (Open(Call(x))' <=> Open(Call(x))) /\ (Working(Call(x))' <=> Working(Call(x)))
      /\ \A x \in Places : Call(x)'.at \in {"wait", "help"} <=> Call(x).at \in {"wait", "help"}
      /\ \A x \in Places : Call(x)'.at = "return" <=> Call(x).at = "return"
      /\ \A x \in Places : Call(x)'.at = "sort" <=> Call(x).at = "sort"
      /\ Open(Call(new))' /\ ~Working(Call(new))' /\ Call(new)'.at = "sort" /\ Call(new)'.pivot = None
      /\ Call(new)'.rest = data[c] /\ Call(new)'.chunk = c
  BY DEF Open, Working
<1>3. TypeOK'
  BY <1>0, <1>1 DEF TypeOK
<1>4. \A e : Pending(e)' => Pending(e)
  <2> SUFFICES ASSUME NEW e, Pending(e)' PROVE Pending(e)
    OBVIOUS
  <2>1. CASE \E x \in Places' : Open(Call(x))' /\ e \in Call(x)'.rest
    BY <1>1, <1>2, <2>1 DEF Pending
  <2>2. CASE \E b \in Waiting' : e \in data'[b]
    BY <1>1, <2>2 DEF Pending
  <2>3. CASE \E x \in Places' : Working(Call(x))' /\ Call(x)'.pivot = e
    BY <1>2, <2>3 DEF Pending
  <2> QED
    BY <2>1, <2>2, <2>3 DEF Pending
<1>5. \A x \in Places : Territory(Call(x))' = Territory(Call(x))
  BY DEF Territory
<1>6. \A s, S : Finished(s, S) => Finished(s, S)'
  BY <1>4 DEF Finished
<1>7. \A x \in Places : IsDescent(x) => Under(x) \in Places
  BY <1>0, PlacesAre DEF IsDescent
<1>8. /\ \A x \in Places : (IsDescent(x)' <=> IsDescent(x)) /\ (HasHigher(x)' <=> HasHigher(x))
      /\ ~IsDescent(new)'
  BY <1>1, <1>2 DEF IsDescent, HasHigher
<1>9. Stacked'
  <2>1. \A x \in Places : Over(x) \in Places' => Call(x)'.at = "wait"
    BY <1>0 DEF Stacked
  <2>2. \A x \in Places : /\ Call(x)'.at = "sort" => Call(x)'.pivot = None
                          /\ Call(x)'.at \notin {"sort", "return"} => Call(x)'.pivot # None
                          /\ x[2] = 1 => (Call(x)'.chunk = None <=> x[1] = Main)
    BY <1>0, <1>2 DEF Stacked
  <2> QED
    BY <1>1, <1>2, <2>1, <2>2 DEF Stacked
<1>10. Territories'
  <2>1. Territory(Call(new))' = data[c]
    BY <1>2 DEF Territory
  <2>2. ASSUME NEW x \in Places
        PROVE  /\ Call(x)'.chunk # None => Territory(Call(x))' = data'[Call(x)'.chunk]
               /\ Call(x)'.chunk = None => Territory(Call(x))' =
                                              IF IsDescent(x)' THEN Call(Under(x))'.rest ELSE list'
               /\ IsDescent(x)' => Call(Under(x))'.pivot # None
    <3>1. IsDescent(x) => /\ Call(Under(x))'.rest = Call(Under(x)).rest
                          /\ Call(Under(x))'.pivot = Call(Under(x)).pivot
      BY <1>7
    <3>2. Call(x)'.chunk = Call(x).chunk /\ Territory(Call(x))' = Territory(Call(x))
          /\ (IsDescent(x)' <=> IsDescent(x))
      BY <1>5, <1>8
    <3> QED
      BY <1>0, <3>1, <3>2 DEF Territories
  <2> QED
    BY <1>1, <1>2, <1>8, <2>1, <2>2 DEF Territories
<1>11. Parted'
  BY <1>0, <1>2, PartedStill
<1>12. Results'
  <2>1. \A x \in Places' : Call(x)'.at = "return" => Finished(Call(x).result, Territory(Call(x)))'
    BY <1>0, <1>2, <1>5, <1>6 DEF Results
  <2>2. \A x \in Places' : Call(x)'.at \in {"wait", "help"} /\ HasHigher(x)' =>
                             Finished(Call(x).higher, Call(x).rest)'
    BY <1>0, <1>2, <1>6, <1>8 DEF Results
  <2>3. \A b \in Elem : promise[b] # None => Finished(promise[b], data[b])'
    BY <1>0, <1>6 DEF Results
  <2> QED
    BY <1>0, <2>1, <2>2, <2>3 DEF Results
<1>13. Apart'
  <2>1. ~Unused(c)
    BY <1>1 DEF Unused
  <2>3. \A e : e # None /\ Unused(e) => Unused(e)'
    BY <1>1, <1>2, <2>1 DEF Unused
  <2>4. \A x \in Places : Call(x).rest \subseteq Elem
    BY <1>0, PlacesAre DEF FrameType
  <2>5. \A b \in Waiting : data[b] \subseteq Elem
    BY <1>0 DEF TypeOK, Waiting, ToSet
  <2>6. \A b \in Waiting : \A e \in data[b] : Unused(e)'
    BY <1>0, <2>3, <2>5, SortAssumption DEF Apart
  <2>7. \A x \in Places' : Open(Call(x))' => \A e \in Call(x)'.rest : Unused(e)'
    BY <1>0, <1>1, <1>2, <2>3, <2>4, <2>6, SortAssumption DEF Apart
  <2>8. \A b \in Waiting' : \A e \in data'[b] : Unused(e)'
    BY <1>1, <2>6
  <2>9. \A x, y \in Places' : Open(Call(x))' /\ Open(Call(y))' /\ x # y => Call(x)'.rest \cap Call(y)'.rest = {}
    BY <1>0, <1>1, <1>2 DEF Apart
  <2>10. \A a, b \in Waiting' : a # b => data'[a] \cap data'[b] = {}
    BY <1>0, <1>1 DEF Apart
  <2>11. \A x \in Places', b \in Waiting' : Open(Call(x))' => Call(x)'.rest \cap data'[b] = {}
    BY <1>0, <1>1, <1>2 DEF Apart
  <2> QED
    BY <2>7, <2>8, <2>9, <2>10, <2>11 DEF Apart
<1>14. Names'
  <2>1. \A i, j \in DOMAIN chunks' : chunks'[i] = chunks'[j] => i = j
    BY <1>1 DEF IsInjective
  <2>2. \A x, y \in Places' : Call(x)'.pivot # None /\ Call(x)'.pivot = Call(y)'.pivot => x = y
    BY <1>0, <1>2 DEF Names
  <2>3. \A x \in Places : Call(x).chunk # c
    BY <1>0, <1>1 DEF Names
  <2>4. \A x, y \in Places' : Call(x)'.chunk # None /\ Call(x)'.chunk = Call(y)'.chunk => x = y
    BY <1>0, <1>2, <2>3 DEF Names
  <2>5. \A x \in Places' : Call(x)'.chunk \notin Waiting'
    BY <1>0, <1>1, <1>2 DEF Names
  <2>6. ASSUME NEW b \in Elem
        PROVE  b \in Waiting' \/ (\E x \in Places' : Call(x)'.chunk = b)
                  <=> promise[b] = None /\ \E x \in Places' : Call(x)'.pivot = b /\ Working(Call(x))'
    <3>1. b \in Waiting' \/ (\E x \in Places' : Call(x)'.chunk = b)
             <=> b \in Waiting \/ (\E x \in Places : Call(x).chunk = b)
      <4>1. CASE b = c
        BY <1>1, <1>2, <4>1
      <4>2. CASE b # c
        BY <1>1, <1>2, <4>2
      <4> QED
        BY <4>1, <4>2
    <3>2. (\E x \in Places' : Call(x)'.pivot = b /\ Working(Call(x))')
             <=> \E x \in Places : Call(x).pivot = b /\ Working(Call(x))
      BY <1>2
    <3>3. b \in Waiting \/ (\E x \in Places : Call(x).chunk = b)
             <=> promise[b] = None /\ \E x \in Places : Call(x).pivot = b /\ Working(Call(x))
      BY <1>0 DEF Names
    <3> QED
      BY <3>1, <3>2, <3>3
  <2> QED
    BY <2>1, <2>2, <2>4, <2>5, <2>6 DEF Names
<1>15. InList' /\ AtEnd'
  BY <1>0, <1>1, <1>2 DEF InList, AtEnd
<1> QED
  BY <1>3, <1>9, <1>10, <1>11, <1>12, <1>13, <1>14, <1>15 DEF IInv

\* The promise of a chunk is set.
LEMMA SetPromiseKeeps ==
    ASSUME IInv, NEW t \in Threads, Busy(t), Top(t).at = "return", NEW c, c = Top(t).chunk, c # None,
           Pops(t), NEW r, r = Top(t).result, promise' = [promise EXCEPT ![c] = r],
           UNCHANGED <<list, max_thread_count_, chunks, data, started, ended, end, output>>
    PROVE  IInv'
<1>t. PICK top : top = TopPlace(t)
  OBVIOUS
<1>0. TypeOK /\ Stacked /\ Territories /\ Parted /\ Results /\ Apart /\ Names /\ InList /\ AtEnd
  BY DEF IInv
<1>1. /\ top \in Places /\ Call(top) = Top(t) /\ Over(top) \notin Places /\ Top(t) \in FrameType
      /\ calls' \in [Threads -> Seq(FrameType)]
      /\ Places' = Places \ {top}
      /\ \A x \in Places \ {top} : Call(x)' = Call(x)
  <2>1. top \in Places /\ Call(top) = Top(t) /\ Over(top) \notin Places /\ Top(t) \in FrameType
    BY <1>0, <1>t, TopIs
  <2>2. /\ calls' \in [Threads -> Seq(FrameType)]
        /\ Places' = Places \ {top}
        /\ \A x \in Places \ {top} : Call(x)' = Call(x)
    BY <1>0, <1>t, Popped
  <2> QED
    BY <2>1, <2>2
<1>2. c \in Elem /\ r \in Seq(Elem) /\ r # None
  BY <1>1, SortAssumption DEF FrameType
<1>3. /\ promise' \in [Elem -> Seq(Elem) \cup {None}]
      /\ promise'[c] = r /\ \A b \in Elem \ {c} : promise'[b] = promise[b]
  BY <1>0, <1>2 DEF TypeOK
<1>4. /\ Waiting' = Waiting
      /\ ~Open(Call(top)) /\ ~Working(Call(top)) /\ ~IsDescent(top)
      /\ \A x \in Places' : (Open(Call(x))' <=> Open(Call(x))) /\ (Working(Call(x))' <=> Working(Call(x)))
  BY <1>1 DEF Waiting, Open, Working, IsDescent
<1>5. TypeOK'
  BY <1>0, <1>1, <1>3 DEF TypeOK
<1>6. \A e : Pending(e)' => Pending(e)
  BY <1>1, <1>4 DEF Pending
<1>7. \A x \in Places' : Territory(Call(x))' = Territory(Call(x))
  BY <1>1 DEF Territory
<1>8. \A s, S : Finished(s, S) => Finished(s, S)'
  BY <1>6 DEF Finished
<1>9. \A x \in Places : IsDescent(x) => Under(x) \in Places'
  <2>1. \A x \in Places : IsDescent(x) => Under(x) \in Places
    BY <1>0, PlacesAre DEF IsDescent
  <2>2. HasHigher(top)
    BY <1>0, <1>1, NoneOver
  <2> QED
    BY <1>1, <2>1, <2>2 DEF HasHigher
<1>10. \A x \in Places' : (IsDescent(x)' <=> IsDescent(x)) /\ (HasHigher(x)' <=> HasHigher(x))
  BY <1>1, <1>4 DEF IsDescent, HasHigher
<1>11. Stacked'
  BY <1>0, <1>1 DEF Stacked
<1>12. Territories'
  BY <1>0, <1>1, <1>7, <1>9, <1>10 DEF Territories
<1>13. Parted'
  BY <1>0, <1>1, PartedStill
<1>14. Results'
  <2>1. \A x \in Places' : Call(x)'.at = "return" => Finished(Call(x).result, Territory(Call(x)))'
    BY <1>0, <1>1, <1>7, <1>8 DEF Results
  <2>2. \A x \in Places' : Call(x)'.at \in {"wait", "help"} /\ HasHigher(x)' =>
                             Finished(Call(x).higher, Call(x).rest)'
    BY <1>0, <1>1, <1>8, <1>10 DEF Results
  <2>3. Finished(r, data[c])
    BY <1>0, <1>1 DEF Results, Territories
  <2>4. \A b \in Elem : promise'[b] # None => Finished(promise[b], data[b])'
    BY <1>0, <1>3, <1>8, <2>3 DEF Results
  <2> QED
    BY <1>0, <2>1, <2>2, <2>4 DEF Results
<1>15. Apart'
  <2>1. ~Unused(c)
    BY <1>1 DEF Unused
  <2>2. \A e \in Elem : Unused(e) => Unused(e)'
    BY <1>1, <1>3, <1>4, <2>1 DEF Unused
  <2>3. \A x \in Places : Call(x).rest \subseteq Elem
    BY <1>0, PlacesAre DEF FrameType
  <2>4. \A b \in Waiting : data[b] \subseteq Elem
    BY <1>0 DEF TypeOK, Waiting, ToSet
  <2>5. \A x \in Places' : Open(Call(x))' => \A e \in Call(x)'.rest : Unused(e)'
    BY <1>0, <1>1, <1>4, <2>2, <2>3 DEF Apart
  <2>6. \A b \in Waiting' : \A e \in data'[b] : Unused(e)'
    BY <1>0, <1>4, <2>2, <2>4 DEF Apart
  <2> QED
    BY <1>0, <1>1, <1>4, <2>5, <2>6 DEF Apart
<1>16. Names'
  <2>1. \A x \in Places' : Call(x)'.chunk # c
    BY <1>0, <1>1 DEF Names
  <2>2. c \notin Waiting
    BY <1>0, <1>1 DEF Names
  <2>3. ASSUME NEW b \in Elem
        PROVE  b \in Waiting' \/ (\E x \in Places' : Call(x)'.chunk = b)
                  <=> promise'[b] = None /\ \E x \in Places' : Call(x)'.pivot = b /\ Working(Call(x))'
    <3>1. CASE b = c
      BY <1>2, <1>3, <1>4, <2>1, <2>2, <3>1
    <3>2. CASE b # c
      <4>1. (\E x \in Places' : Call(x)'.chunk = b) <=> \E x \in Places : Call(x).chunk = b
        BY <1>1, <3>2
      <4>2. (\E x \in Places' : Call(x)'.pivot = b /\ Working(Call(x))')
               <=> \E x \in Places : Call(x).pivot = b /\ Working(Call(x))
        BY <1>1, <1>4
      <4>3. b \in Waiting \/ (\E x \in Places : Call(x).chunk = b)
               <=> promise[b] = None /\ \E x \in Places : Call(x).pivot = b /\ Working(Call(x))
        BY <1>0 DEF Names
      <4> QED
        BY <1>3, <1>4, <3>2, <4>1, <4>2, <4>3
    <3> QED
      BY <3>1, <3>2
  <2> QED
    BY <1>0, <1>1, <1>4, <2>3 DEF Names
<1>17. InList' /\ AtEnd'
  BY <1>0, <1>1 DEF InList, AtEnd
<1> QED
  BY <1>5, <1>11, <1>12, <1>13, <1>14, <1>15, <1>16, <1>17 DEF IInv

\* A recursive call returns to the one below it.
LEMMA ReturnHigherKeeps ==
    ASSUME IInv, NEW t \in Threads, Busy(t), Top(t).at = "return", Top(t).chunk = None, Len(calls[t]) > 1,
           NEW f \in FrameType, Returns(t, f), NEW low, low = Last(Front(calls[t])),
           f.at = low.at, f.rest = low.rest, f.chunk = low.chunk, f.pivot = low.pivot,
           f.higher = Top(t).result, f.result = low.result,
           UNCHANGED <<list, max_thread_count_, chunks, data, promise, started, ended, end, output>>
    PROVE  IInv'
<1>t. PICK top : top = TopPlace(t)
  OBVIOUS
<1>b. PICK below : below = Under(top)
  OBVIOUS
<1>0. TypeOK /\ Stacked /\ Territories /\ Parted /\ Results /\ Apart /\ Names /\ InList /\ AtEnd
  BY DEF IInv
<1>1. /\ top \in Places /\ Call(top) = Top(t) /\ Over(top) \notin Places
      /\ calls' \in [Threads -> Seq(FrameType)]
      /\ below \in Places /\ below # top /\ Call(below) = low
      /\ Places' = Places \ {top} /\ Call(below)' = f
      /\ \A x \in Places \ {top, below} : Call(x)' = Call(x)
  <2>1. top \in Places /\ Call(top) = Top(t) /\ Over(top) \notin Places
    BY <1>0, <1>t, TopIs
  <2>2. /\ calls' \in [Threads -> Seq(FrameType)]
        /\ below \in Places /\ below # top /\ Call(below) = Last(Front(calls[t]))
        /\ Places' = Places \ {top} /\ Call(below)' = f
        /\ \A x \in Places \ {top, below} : Call(x)' = Call(x)
    BY <1>0, <1>t, <1>b, Returned
  <2> QED
    BY <2>1, <2>2
<1>2. IsDescent(top)
  <2>1. top[2] > 1
    BY <1>t DEF TopPlace
  <2> QED
    BY <1>1, <2>1 DEF IsDescent
<1>3. Finished(f.higher, f.rest)
  <2>1. Territory(Call(top)) = Call(below).rest
    BY <1>0, <1>1, <1>2, <1>b DEF Territories, IsDescent
  <2> QED
    BY <1>0, <1>1, <2>1 DEF Results
<1>4. /\ Waiting' = Waiting
      /\ ~Open(Call(top)) /\ ~Working(Call(top))
      /\ \A x \in Places' :
            /\ Call(x)'.at = Call(x).at /\ Call(x)'.rest = Call(x).rest /\ Call(x)'.chunk = Call(x).chunk
            /\ Call(x)'.pivot = Call(x).pivot /\ Call(x)'.result = Call(x).result
            /\ Open(Call(x))' <=> Open(Call(x))
            /\ Working(Call(x))' <=> Working(Call(x))
  BY <1>1 DEF Waiting, Open, Working
<1>5. TypeOK'
  BY <1>0, <1>1 DEF TypeOK
<1>6. \A e : Pending(e)' => Pending(e)
  BY <1>1, <1>4 DEF Pending
<1>7. \A x \in Places' : Territory(Call(x))' = Territory(Call(x))
  BY <1>4 DEF Territory
<1>8. \A s, S : Finished(s, S) => Finished(s, S)'
  BY <1>6 DEF Finished
<1>9. \A x \in Places : IsDescent(x) => Under(x) \in Places'
  <2>1. \A x \in Places : IsDescent(x) => Under(x) \in Places
    BY <1>0, PlacesAre DEF IsDescent
  <2>2. HasHigher(top)
    BY <1>0, <1>1, NoneOver
  <2> QED
    BY <1>1, <2>1, <2>2 DEF HasHigher
<1>10. /\ \A x \in Places' : IsDescent(x)' <=> IsDescent(x)
       /\ \A x \in Places' : x # below => (HasHigher(x)' <=> HasHigher(x))
  BY <1>1, <1>4, <1>b DEF IsDescent, HasHigher
<1>11. Stacked'
  BY <1>0, <1>1, <1>4 DEF Stacked
<1>12. Territories'
  BY <1>0, <1>1, <1>4, <1>7, <1>9, <1>10 DEF Territories
<1>13. Parted'
  BY <1>0, <1>1, <1>4, PartedStill
<1>14. Results'
  <2>1. \A x \in Places' : Call(x)'.at = "return" => Finished(Call(x).result, Territory(Call(x)))'
    BY <1>0, <1>1, <1>4, <1>7, <1>8 DEF Results
  <2>2. \A x \in Places' : Call(x)'.at \in {"wait", "help"} /\ HasHigher(x)' =>
                             Finished(Call(x).higher, Call(x).rest)'
    <3>1. Finished(Call(below).higher, Call(below).rest)'
      BY <1>1, <1>3, <1>8
    <3> QED
      BY <1>0, <1>1, <1>8, <1>10, <3>1 DEF Results
  <2>3. \A b \in Elem : promise[b] # None => Finished(promise[b], data[b])'
    BY <1>0, <1>8 DEF Results
  <2> QED
    BY <1>0, <2>1, <2>2, <2>3 DEF Results
<1>15. Apart'
  <2>1. \A e : Unused(e) => Unused(e)'
    BY <1>1, <1>4 DEF Unused
  <2> QED
    BY <1>0, <1>1, <1>4, <2>1 DEF Apart
<1>16. Names'
  <2>1. ASSUME NEW b \in Elem
        PROVE  b \in Waiting' \/ (\E x \in Places' : Call(x)'.chunk = b)
                  <=> promise[b] = None /\ \E x \in Places' : Call(x)'.pivot = b /\ Working(Call(x))'
    <3>1. (\E x \in Places' : Call(x)'.chunk = b) <=> \E x \in Places : Call(x).chunk = b
      BY <1>1, <1>4, SortAssumption
    <3>2. (\E x \in Places' : Call(x)'.pivot = b /\ Working(Call(x))')
             <=> \E x \in Places : Call(x).pivot = b /\ Working(Call(x))
      BY <1>1, <1>4
    <3>3. b \in Waiting \/ (\E x \in Places : Call(x).chunk = b)
             <=> promise[b] = None /\ \E x \in Places : Call(x).pivot = b /\ Working(Call(x))
      BY <1>0 DEF Names
    <3> QED
      BY <1>4, <3>1, <3>2, <3>3
  <2> QED
    BY <1>0, <1>1, <1>4, <2>1 DEF Names
<1>17. InList' /\ AtEnd'
  BY <1>0, <1>1, <1>4 DEF InList, AtEnd
<1> QED
  BY <1>5, <1>11, <1>12, <1>13, <1>14, <1>15, <1>16, <1>17 DEF IInv

\* parallel_quick_sort has its list back, and nothing is left to be done.
LEMMA ReturnOutputKeeps ==
    ASSUME IInv, ReturnOutput, UNCHANGED <<list, max_thread_count_>>
    PROVE  IInv'
<1>t. PICK top : top = <<Main, 1>>
  OBVIOUS
<1>0. TypeOK /\ Stacked /\ Territories /\ Parted /\ Results /\ Apart /\ Names /\ InList /\ AtEnd
  BY DEF IInv
<1>1. /\ Busy(Main) /\ Top(Main).at = "return" /\ Len(calls[Main]) = 1 /\ output' = Top(Main).result
      /\ end' = TRUE /\ calls' = [calls EXCEPT ![Main] = << >>]
      /\ chunks' = chunks /\ data' = data /\ promise' = promise /\ started' = started /\ ended' = ended
      /\ list' = list /\ max_thread_count_' = max_thread_count_
  BY DEF ReturnOutput, At
<1>2. top \in Places /\ Call(top).at = "return" /\ Call(top) \in FrameType /\ output' = Call(top).result
  <2>1. top = TopPlace(Main) /\ Main \in Threads
    BY <1>1, <1>t DEF TopPlace, Threads
  <2>2. Busy(Main)
    BY <1>1
  <2>3. TopPlace(Main) \in Places /\ Call(TopPlace(Main)) = Top(Main) /\ Top(Main) \in FrameType
    BY <1>0, <2>1, <2>2, TopIs
  <2>4. top \in Places /\ Call(top) = Top(Main) /\ Top(Main) \in FrameType
    BY <2>1, <2>3
  <2>5. Top(Main).at = "return" /\ output' = Top(Main).result
    BY <1>1
  <2> QED
    BY <2>4, <2>5
<1>3. Finished(Call(top).result, list)
  <2>1. top[1] = Main /\ top[2] = 1
    BY <1>t
  <2>2. Call(top).chunk = None /\ ~IsDescent(top)
    BY <1>0, <1>2, <2>1 DEF Stacked, IsDescent
  <2> QED
    BY <1>0, <1>2, <2>2 DEF Results, Territories
<1>4. \A c \in Elem : c \notin Waiting /\ \A x \in Places : Call(x).chunk # c
  <2> SUFFICES ASSUME NEW c \in Elem, c \in Waiting \/ \E x \in Places : Call(x).chunk = c PROVE FALSE
    OBVIOUS
  <2>1. PICK y \in Places : Call(y).pivot = c /\ Working(Call(y))
    BY <1>0 DEF Names
  <2>2. c \in list /\ Pending(c)
    BY <1>0, <2>1, SortAssumption DEF InList, Pending
  <2> QED
    BY <1>3, <2>2 DEF Finished
<1>5. chunks = << >> /\ Waiting = {}
  <2>1. chunks \in Seq(Elem) /\ DOMAIN chunks = 1 .. Len(chunks) /\ Len(chunks) \in Nat
    BY <1>0 DEF TypeOK
  <2>2. 1 \notin DOMAIN chunks
    BY <1>4, <2>1 DEF Waiting, ToSet
  <2>3. Len(chunks) = 0
    BY <2>1, <2>2
  <2> QED
    BY <2>1, <2>2, <2>3 DEF Waiting, ToSet
<1>6. \A u \in Threads \ {Main} : calls[u] = << >>
  <2> SUFFICES ASSUME NEW u \in Threads \ {Main}, calls[u] # << >> PROVE FALSE
    OBVIOUS
  <2>1. calls[u] \in Seq(FrameType) /\ Len(calls[u]) >= 1
    BY <1>0, PlacesAre
  <2>2. PICK x : x = <<u, 1>>
    OBVIOUS
  <2>3. x \in Places /\ x[1] = u /\ x[2] = 1
    BY <1>0, <2>1, <2>2, PlacesAre
  <2>4. Call(x).chunk # None /\ Call(x).chunk \in Elem \cup {None}
    BY <1>0, <2>3, PlacesAre DEF Stacked, FrameType
  <2> QED
    BY <1>4, <2>3, <2>4
<1>7. calls' \in [Threads -> Seq(FrameType)] /\ Places' = {}
  <2>1. calls' = [u \in Threads |-> << >>]
    BY <1>0, <1>1, <1>6 DEF TypeOK
  <2>2. << >> \in Seq(FrameType) /\ DOMAIN << >> = {}
    OBVIOUS
  <2>3. \A x : x \in Places' <=> \E u \in Threads : \E i \in DOMAIN calls'[u] : x = <<u, i>>
    BY DEF Places
  <2>4. \A x : x \notin Places'
    BY <2>1, <2>2, <2>3
  <2> QED
    BY <2>1, <2>2, <2>4
<1>8. chunks' = << >> /\ Waiting' = {} /\ DOMAIN chunks' = {}
  BY <1>1, <1>5 DEF Waiting
<1>9. \A e : ~Pending(e)'
  BY <1>7, <1>8 DEF Pending
<1>10. output' \in Seq(Elem)
  BY <1>2 DEF FrameType
<1>11. TypeOK'
  BY <1>0, <1>1, <1>7, <1>10 DEF TypeOK
<1>12. Stacked' /\ Territories' /\ Parted'
  BY <1>7 DEF Stacked, Territories, Parted
<1>13. Results'
  <2>1. \A c \in Elem : promise'[c] # None => Finished(promise[c], data[c])'
    BY <1>0, <1>1, <1>9 DEF Results, Finished
  <2>2. IsSortOf(output', list')
    BY <1>1, <1>2, <1>3 DEF Finished
  <2> QED
    BY <1>7, <2>1, <2>2 DEF Results
<1>14. Apart'
  BY <1>7, <1>8 DEF Apart
<1>15. Names'
  <2>1. \A c \in Elem : promise'[c] = None /\ (\E x \in Places' : Call(x)'.pivot = c /\ Working(Call(x))') <=> FALSE
    BY <1>7
  <2> QED
    BY <1>7, <1>8, <2>1 DEF Names
<1>16. InList' /\ AtEnd'
  BY <1>0, <1>1, <1>7, <1>8 DEF InList, AtEnd
<1> QED
  BY <1>11, <1>12, <1>13, <1>14, <1>15, <1>16 DEF IInv

\* What a step does to threads that are in no call.
LEMMA CallsUnchanged ==
    ASSUME IInv, UNCHANGED <<list, max_thread_count_, calls, chunks, data, promise, started, end, output>>,
           ended' \in SUBSET started
    PROVE  IInv'
<1>0. TypeOK /\ Stacked /\ Territories /\ Parted /\ Results /\ Apart /\ Names /\ InList /\ AtEnd
  BY DEF IInv
<1>1. Places' = Places /\ Waiting' = Waiting /\ \A x : Call(x)' = Call(x)
  BY DEF Places, Waiting, Call
<1>2. TypeOK'
  BY <1>0 DEF TypeOK
<1>3. \A e : Pending(e)' <=> Pending(e)
  BY <1>1 DEF Pending
<1>4. \A x : Territory(Call(x))' = Territory(Call(x)) /\ (HasHigher(x)' <=> HasHigher(x))
             /\ (IsDescent(x)' <=> IsDescent(x))
  BY <1>1 DEF Territory, HasHigher, IsDescent
<1>5. \A s, S : Finished(s, S)' <=> Finished(s, S)
  BY <1>3 DEF Finished
<1>6. Stacked' /\ Parted' /\ InList' /\ AtEnd'
  BY <1>0, <1>1 DEF Stacked, Parted, InList, AtEnd
<1>7. Territories'
  BY <1>0, <1>1, <1>4 DEF Territories
<1>8. Results'
  BY <1>0, <1>1, <1>4, <1>5 DEF Results
<1>9. Apart'
  BY <1>0, <1>1 DEF Apart, Unused
<1>10. Names'
  BY <1>0, <1>1 DEF Names
<1> QED
  BY <1>2, <1>6, <1>7, <1>8, <1>9, <1>10 DEF IInv

LEMMA StepKeeps ==
    ASSUME IInv, NEW t \in Threads, Step(t)
    PROVE  IInv'
<1>0. TypeOK /\ Stacked /\ list' = list /\ max_thread_count_' = max_thread_count_
  BY DEF IInv, Step
<1>1. ASSUME Busy(t)
      PROVE  /\ Top(t) \in FrameType /\ end = FALSE
             /\ Top(t).rest \in SUBSET Elem /\ Top(t).result \in Seq(Elem)
             /\ Top(t).at = "sort" => Top(t).pivot = None
             /\ Top(t).at = "wait" => Top(t).pivot \in Elem
  <2>1. PICK top : top = TopPlace(t)
    OBVIOUS
  <2>2. top \in Places /\ Call(top) = Top(t) /\ Top(t) \in FrameType
    BY <1>0, <1>1, <2>1, TopIs
  <2>3. end = FALSE
    BY <1>1, NotAtEnd
  <2> QED
    BY <1>0, <2>2, <2>3 DEF Stacked, FrameType
<1>2. {"sort", "hire", "spawn", "descend", "wait", "help", "return"} \subseteq Here
  BY DEF Here
<1>3. CASE SortShort(t)
  <2>1. /\ Busy(t) /\ Top(t).at = "sort" /\ Cardinality(Top(t).rest) <= 1
        /\ Becomes(t, [Top(t) EXCEPT !.at = "return", !.result = SetToSeq(Top(t).rest)])
        /\ UNCHANGED <<chunks, data, promise, started, ended, end, output>>
    BY <1>3 DEF SortShort, At
  <2>2. Top(t) \in FrameType /\ Top(t).rest \in SUBSET Elem /\ Top(t).pivot = None
    BY <1>1, <2>1 DEF FrameType
  <2>3. PICK s \in Seq(Elem) : s = SetToSeq(Top(t).rest) /\ IsSortOf(s, Top(t).rest)
    BY <2>1, <2>2, SortedShort
  <2>4. Territory(Top(t)) = Top(t).rest
    BY <2>2 DEF Territory
  <2>5. PICK f : f = Returning(Top(t), s)
    OBVIOUS
  <2>5f. /\ f \in FrameType /\ f.at = "return" /\ f.result = s /\ f.rest = Top(t).rest
         /\ f.chunk = Top(t).chunk /\ f.pivot = Top(t).pivot
         /\ f.higher = Top(t).higher
    BY <1>1, <1>2, <2>2, <2>3, <2>5, FrameReturns
  <2>6. Becomes(t, f)
    BY <2>1, <2>3, <2>5 DEF Returning
  <2> QED
    BY <1>0, <2>1, <2>3, <2>4, <2>5f, <2>6, Finishes
<1>4. CASE Split(t)
  <2>1. Busy(t) /\ Top(t).at = "sort" /\ UNCHANGED <<promise, started, ended, end, output>>
    BY <1>4 DEF Split, At
  <2>2. PICK p \in Top(t).rest : \E low :
           /\ low = {e \in Top(t).rest \ {p} : Less(e, p)}
           /\ data' = [data EXCEPT ![p] = low] /\ chunks' = <<p>> \o chunks
           /\ Becomes(t, [Top(t) EXCEPT !.at = "hire", !.pivot = p, !.rest = @ \ (low \cup {p})])
    BY <1>4 DEF Split
  <2>3. PICK low :
           /\ low = {e \in Top(t).rest \ {p} : Less(e, p)}
           /\ data' = [data EXCEPT ![p] = low] /\ chunks' = <<p>> \o chunks
           /\ Becomes(t, [Top(t) EXCEPT !.at = "hire", !.pivot = p, !.rest = @ \ (low \cup {p})])
    BY <2>2
  <2>4. Top(t) \in FrameType /\ Top(t).rest \in SUBSET Elem
    BY <1>1, <2>1 DEF FrameType
  <2>5. PICK f : f = Parting(Top(t), p, low)
    OBVIOUS
  <2>5f. /\ f \in FrameType /\ f.at = "hire" /\ f.rest = Top(t).rest \ (low \cup {p})
         /\ f.chunk = Top(t).chunk /\ f.pivot = p
    BY <1>1, <1>2, <2>4, <2>5, FrameSplit
  <2>6. Becomes(t, f)
    BY <2>3, <2>5 DEF Parting
  <2> QED
    BY <1>0, <2>1, <2>3, <2>5f, <2>6, SplitKeeps
<1>5. CASE Hire(t)
  <2>1. /\ Busy(t) /\ Top(t).at = "hire"
        /\ UNCHANGED <<chunks, data, promise, started, ended, end, output>>
    BY <1>5 DEF Hire, At
  <2>2. PICK place \in {"spawn", "descend"} : Becomes(t, [Top(t) EXCEPT !.at = place])
    BY <1>5 DEF Hire
  <2>3. PICK f : f = [Top(t) EXCEPT !.at = place]
    OBVIOUS
  <2>3f. /\ f \in FrameType /\ f.at = place /\ f.rest = Top(t).rest
         /\ f.chunk = Top(t).chunk /\ f.pivot = Top(t).pivot
         /\ f.higher = Top(t).higher /\ f.result = Top(t).result
    BY <1>1, <1>2, <2>1, <2>3, FrameAt
  <2>4. Becomes(t, f) /\ started' \in SUBSET Workers /\ ended' \in SUBSET started'
    BY <1>0, <2>1, <2>2, <2>3 DEF TypeOK
  <2> QED
    BY <1>0, <2>1, <2>3f, <2>4, MovesOn
<1>6. CASE Spawn(t)
  <2>1. /\ Busy(t) /\ Top(t).at = "spawn" /\ Becomes(t, [Top(t) EXCEPT !.at = "descend"])
        /\ UNCHANGED <<chunks, data, promise, ended, end, output>>
    BY <1>6 DEF Spawn, At
  <2>2. started' \in SUBSET Workers /\ ended' \in SUBSET started'
    <3>1. started # Workers /\ started' = started \cup {CHOOSE w \in Workers : w \notin started}
      BY <1>6 DEF Spawn
    <3>2. \E w \in Workers : w \notin started
      BY <1>0, <3>1 DEF TypeOK
    <3>3. (CHOOSE w \in Workers : w \notin started) \in Workers
      BY <3>2
    <3> QED
      BY <1>0, <2>1, <3>1, <3>3 DEF TypeOK
  <2>3. PICK f : f = [Top(t) EXCEPT !.at = "descend"]
    OBVIOUS
  <2>3f. /\ f \in FrameType /\ f.at = "descend" /\ f.rest = Top(t).rest
         /\ f.chunk = Top(t).chunk /\ f.pivot = Top(t).pivot
         /\ f.higher = Top(t).higher /\ f.result = Top(t).result
    BY <1>1, <1>2, <2>1, <2>3, FrameAt
  <2>4. Becomes(t, f)
    BY <2>1, <2>3
  <2> QED
    BY <1>0, <2>1, <2>2, <2>3f, <2>4, MovesOn
<1>7. CASE Descend(t)
  <2>1. /\ Busy(t) /\ Top(t).at = "descend"
        /\ Calls(t, [Top(t) EXCEPT !.at = "wait"], Frame(Top(t).rest, None))
        /\ UNCHANGED <<chunks, data, promise, started, ended, end, output>>
    BY <1>7 DEF Descend, At, Calls
  <2>2. PICK f : f = [Top(t) EXCEPT !.at = "wait"]
    OBVIOUS
  <2>2f. /\ f \in FrameType /\ f.at = "wait" /\ f.rest = Top(t).rest
         /\ f.chunk = Top(t).chunk /\ f.pivot = Top(t).pivot
         /\ f.higher = Top(t).higher /\ f.result = Top(t).result
    BY <1>1, <1>2, <2>1, <2>2, FrameAt
  <2>3. PICK g : g = Frame(Top(t).rest, None)
    OBVIOUS
  <2>3f. /\ g \in FrameType /\ g.at = "sort" /\ g.rest = Top(t).rest /\ g.chunk = None
         /\ g.pivot = None
    BY <1>1, <1>2, <2>1, <2>3, FrameIs
  <2>4. Calls(t, f, g)
    BY <2>1, <2>2, <2>3
  <2> QED
    BY <1>0, <2>1, <2>2f, <2>3f, <2>4, DescendKeeps
<1>8. CASE Collect(t)
  <2>1. /\ Busy(t) /\ Top(t).at = "wait" /\ promise[Top(t).pivot] # None
        /\ Becomes(t, [Top(t) EXCEPT !.at = "return",
                                     !.result = promise[Top(t).pivot] \o <<Top(t).pivot>> \o Top(t).higher])
        /\ UNCHANGED <<chunks, data, promise, started, ended, end, output>>
    BY <1>8 DEF Collect, At
  <2>2. PICK top : top = TopPlace(t)
    OBVIOUS
  <2>3. /\ top \in Places /\ Call(top) = Top(t) /\ Top(t) \in FrameType /\ Top(t).pivot \in Elem
        /\ HasHigher(top)
    BY <1>0, <1>1, <2>1, <2>2, TopIs, NoneOver
  <2>4. PICK p \in Elem : p = Top(t).pivot
    BY <2>3
  <2>5. /\ IsSortOf(promise[p], data[p]) /\ promise[p] \in Seq(Elem)
        /\ IsSortOf(Top(t).higher, Top(t).rest) /\ Top(t).higher \in Seq(Elem)
    BY <2>1, <2>3, <2>4 DEF IInv, Results, Finished, FrameType, TypeOK
  <2>6. (\A e \in data[p] : Less(e, p)) /\ \A e \in Top(t).rest : ~Less(e, p) /\ e # p
    BY <2>3, <2>4, SortAssumption DEF IInv, Parted
  <2>7. Territory(Top(t)) = Top(t).rest \cup ({p} \cup data[p])
    BY <2>4, SortAssumption DEF Territory
  <2>8. PICK s : s = promise[p] \o <<p>> \o Top(t).higher
    OBVIOUS
  <2>8f. s \in Seq(Elem) /\ IsSortOf(s, Territory(Top(t)))
    BY <2>5, <2>6, <2>7, <2>8, SortedJoin
  <2>9. PICK f : f = Returning(Top(t), s)
    OBVIOUS
  <2>9f. /\ f \in FrameType /\ f.at = "return" /\ f.result = s /\ f.rest = Top(t).rest
         /\ f.chunk = Top(t).chunk /\ f.pivot = Top(t).pivot
         /\ f.higher = Top(t).higher
    BY <1>1, <1>2, <2>3, <2>8f, <2>9, FrameReturns
  <2>10. Becomes(t, f)
    BY <2>1, <2>4, <2>8, <2>9 DEF Returning
  <2> QED
    BY <1>0, <2>1, <2>8f, <2>9f, <2>10, Finishes
<1>9. CASE WaitOn(t)
  <2>1. /\ Busy(t) /\ Top(t).at = "wait" /\ Becomes(t, [Top(t) EXCEPT !.at = "help"])
        /\ UNCHANGED <<chunks, data, promise, started, ended, end, output>>
    BY <1>9 DEF WaitOn, At
  <2>2. PICK f : f = [Top(t) EXCEPT !.at = "help"]
    OBVIOUS
  <2>2f. /\ f \in FrameType /\ f.at = "help" /\ f.rest = Top(t).rest
         /\ f.chunk = Top(t).chunk /\ f.pivot = Top(t).pivot
         /\ f.higher = Top(t).higher /\ f.result = Top(t).result
    BY <1>1, <1>2, <2>1, <2>2, FrameAt
  <2>3. Becomes(t, f) /\ started' \in SUBSET Workers /\ ended' \in SUBSET started'
    BY <1>0, <2>1, <2>2 DEF TypeOK
  <2> QED
    BY <1>0, <2>1, <2>2f, <2>3, MovesOn
<1>10. CASE Help(t)
  <2>1. Busy(t) /\ Top(t).at = "help" /\ UNCHANGED <<data, promise, started, ended, end, output>>
    BY <1>10 DEF Help, At
  <2>2. PICK f : f = [Top(t) EXCEPT !.at = "wait"]
    OBVIOUS
  <2>2f. /\ f \in FrameType /\ f.at = "wait" /\ f.rest = Top(t).rest
         /\ f.chunk = Top(t).chunk /\ f.pivot = Top(t).pivot
         /\ f.higher = Top(t).higher /\ f.result = Top(t).result
    BY <1>1, <1>2, <2>1, <2>2, FrameAt
  <2>3. CASE chunks = << >>
    <3>1. Becomes(t, [Top(t) EXCEPT !.at = "wait"]) /\ chunks' = chunks
      BY <1>10, <2>3 DEF Help
    <3>2. Becomes(t, f) /\ started' \in SUBSET Workers /\ ended' \in SUBSET started'
      BY <1>0, <2>1, <2>2, <3>1 DEF TypeOK
    <3> QED
      BY <1>0, <2>1, <2>2f, <3>1, <3>2, MovesOn
  <2>4. CASE chunks # << >>
    <3>1. PICK c \in Elem : c = Head(chunks)
      BY <1>0, <2>4 DEF TypeOK
    <3>2. /\ Calls(t, [Top(t) EXCEPT !.at = "wait"], Frame(data[c], c)) /\ chunks' = Tail(chunks)
      BY <1>10, <2>4, <3>1 DEF Help, Calls
    <3>3. PICK g : g = Frame(data[c], c)
      OBVIOUS
    <3>3f. /\ g \in FrameType /\ g.at = "sort" /\ g.rest = data[c] /\ g.chunk = c
           /\ g.pivot = None
      BY <1>1, <1>2, <1>0, <3>3, FrameIs DEF TypeOK
    <3>4. Calls(t, f, g)
      BY <2>2, <3>2, <3>3
    <3>5. PICK top : top = TopPlace(t)
      OBVIOUS
    <3>6. PICK new : new = Over(top)
      OBVIOUS
    <3>7. top \in Places /\ Call(top) = Top(t)
      BY <1>0, <2>1, <3>5, TopIs
    <3>8. /\ calls' \in [Threads -> Seq(FrameType)]
          /\ new \notin Places /\ Places' = Places \cup {new} /\ Call(top)' = f /\ Call(new)' = g
          /\ \A x \in Places \ {top} : Call(x)' = Call(x)
      BY <1>0, <2>1, <2>2f, <3>3f, <3>4, <3>5, <3>6, Pushed
    <3>9. new[2] > 1 /\ Over(new) \notin Places' /\ \A x \in Places : Over(x) = new => x = top
      BY <1>0, <3>6, <3>7, <3>8, OverTop
    <3>10. \A x \in Places :
              /\ Call(x)'.rest = Call(x).rest /\ Call(x)'.chunk = Call(x).chunk
              /\ Call(x)'.pivot = Call(x).pivot /\ Call(x)'.higher = Call(x).higher
              /\ Call(x)'.result = Call(x).result
              /\ Call(x)'.at = Call(x).at \/ (Call(x).at = "help" /\ Call(x)'.at = "wait")
              /\ Over(x) = new => Call(x)'.at = "wait"
      BY <2>1, <2>2f, <3>7, <3>8, <3>9
    <3>11. end = FALSE
      BY <1>1, <2>1
    <3> QED
      BY <1>0, <2>1, <2>4, <3>1, <3>2, <3>3f, <3>8, <3>9, <3>10, <3>11, Takes
  <2> QED
    BY <2>3, <2>4
<1>11. CASE SetPromise(t)
  <2>1. /\ Busy(t) /\ Top(t).at = "return" /\ Top(t).chunk # None /\ Pops(t)
        /\ promise' = [promise EXCEPT ![Top(t).chunk] = Top(t).result]
        /\ UNCHANGED <<chunks, data, started, ended, end, output>>
    BY <1>11 DEF SetPromise, At, Pops
  <2>2. PICK c, r : c = Top(t).chunk /\ r = Top(t).result
    OBVIOUS
  <2>3. promise' = [promise EXCEPT ![c] = r]
    BY <2>1, <2>2
  <2> QED
    BY <1>0, <2>1, <2>2, <2>3, SetPromiseKeeps
<1>12. CASE ReturnHigher(t)
  <2>1. /\ Busy(t) /\ Top(t).at = "return" /\ Top(t).chunk = None /\ Len(calls[t]) > 1
        /\ Returns(t, [Last(Front(calls[t])) EXCEPT !.higher = Top(t).result])
        /\ UNCHANGED <<chunks, data, promise, started, ended, end, output>>
    BY <1>12 DEF ReturnHigher, At, Returns
  <2>2. PICK low : low = Last(Front(calls[t]))
    OBVIOUS
  <2>3. low \in FrameType
    <3>1. PICK s : s = calls[t]
      OBVIOUS
    <3>2. s \in Seq(FrameType) /\ Len(s) > 1 /\ Len(s) \in Nat
      BY <1>0, <2>1, <3>1, PlacesAre
    <3>3. Front(s) \in Seq(FrameType) /\ Len(Front(s)) = Len(s) - 1
      BY <3>2, FrontIs
    <3> QED
      BY <2>2, <3>1, <3>2, <3>3 DEF Last
  <2>4. PICK f : f = [low EXCEPT !.higher = Top(t).result]
    OBVIOUS
  <2>4f. /\ f \in FrameType /\ f.at = low.at /\ f.rest = low.rest
         /\ f.chunk = low.chunk /\ f.pivot = low.pivot /\ f.higher = Top(t).result
         /\ f.result = low.result
    BY <1>1, <1>2, <2>1, <2>3, <2>4, FrameHigher
  <2>5. Returns(t, f)
    BY <2>1, <2>2, <2>4
  <2> QED
    BY <1>0, <2>1, <2>2, <2>4f, <2>5, ReturnHigherKeeps
<1>13. CASE t = Main /\ ReturnOutput
  BY <1>0, <1>13, ReturnOutputKeeps
<1>14. CASE t \in Workers /\ TakeChunk(t)
  <2>1. /\ ~Busy(t) /\ end = FALSE /\ chunks # << >> /\ chunks' = Tail(chunks)
        /\ Starts(t, Frame(data[Head(chunks)], Head(chunks)))
        /\ UNCHANGED <<data, promise, started, ended, end, output>>
    BY <1>0, <1>14 DEF TakeChunk, Starts, TypeOK
  <2>2. PICK c \in Elem : c = Head(chunks)
    BY <1>0, <2>1 DEF TypeOK
  <2>3. PICK g : g = Frame(data[c], c)
    OBVIOUS
  <2>3f. /\ g \in FrameType /\ g.at = "sort" /\ g.rest = data[c] /\ g.chunk = c
         /\ g.pivot = None
    BY <1>1, <1>2, <1>0, <2>3, FrameIs DEF TypeOK
  <2>4. Starts(t, g)
    BY <2>1, <2>2, <2>3
  <2>5. PICK new : new = <<t, 1>>
    OBVIOUS
  <2>6. /\ calls' \in [Threads -> Seq(FrameType)]
        /\ new \notin Places /\ Places' = Places \cup {new} /\ Call(new)' = g
        /\ \A x \in Places : x[1] # t /\ Call(x)' = Call(x)
    BY <1>0, <2>1, <2>3f, <2>4, <2>5, Taken
  <2>7. new[1] # Main /\ Over(new) \notin Places' /\ \A x \in Places : Over(x) # new
    <3>1. new[1] = t /\ Over(new)[1] = t /\ Over(new)[2] = 2 /\ new[2] = 1
      BY <2>5 DEF Over
    <3>2. Over(new) # new /\ Over(new) \notin Places
      BY <2>6, <3>1
    <3>3. \A x \in Places : Over(x)[1] # t
      BY <2>6 DEF Over
    <3> QED
      BY <1>14, <2>6, <3>1, <3>2, <3>3, SortAssumption
  <2> QED
    BY <1>0, <2>1, <2>2, <2>3f, <2>6, <2>7, Takes
<1>15. CASE t \in Workers /\ EndThread(t)
  <2>1. /\ t \in started /\ ended' = ended \cup {t}
        /\ UNCHANGED <<calls, chunks, data, promise, started, end, output>>
    BY <1>15 DEF EndThread
  <2>2. ended' \in SUBSET started
    BY <1>0, <2>1 DEF TypeOK
  <2> QED
    BY <1>0, <2>1, <2>2, CallsUnchanged
<1> QED
  BY <1>3, <1>4, <1>5, <1>6, <1>7, <1>8, <1>9, <1>10, <1>11, <1>12, <1>13, <1>14, <1>15 DEF Step, DoSort
------------------------------------------------------------------------------
THEOREM InvariantHolds == Spec => []IInv
<1>1. IInv /\ [Next]_vars => IInv'
  <2> SUFFICES ASSUME IInv, [Next]_vars PROVE IInv'
    OBVIOUS
  <2>1. CASE \E t \in Threads : Step(t)
    BY <2>1, StepKeeps
  <2>2. CASE UNCHANGED vars
    <3>1. UNCHANGED <<list, max_thread_count_, calls, chunks, data, promise, started, end, output>>
          /\ ended' \in SUBSET started
      BY <2>2 DEF vars, IInv, TypeOK
    <3> QED
      BY <3>1, CallsUnchanged
  <2> QED
    BY <2>1, <2>2 DEF Next
<1> QED
  BY <1>1, InitIInv, PTL DEF Spec

\* The variables of the sort have their types.
THEOREM TypeCorrect == Spec => []TypeOK
<1>1. IInv => TypeOK
  BY DEF IInv
<1> QED
  BY <1>1, InvariantHolds, PTL

\* A chunk is a local variable of a call that waits for it: it is on the stack once,
\* or one call sorts it, and none outlives parallel_quick_sort.
THEOREM ChunksAlive == Spec => []ChunkAlive
<1>1. IInv => ChunkAlive
  <2> SUFFICES ASSUME IInv PROVE ChunkAlive
    OBVIOUS
  <2>0. TypeOK /\ Names /\ AtEnd
    BY DEF IInv
  <2>1. ASSUME NEW c \in Elem
        PROVE  (\E x \in Places : Call(x).pivot = c /\ Working(Call(x)))
                  <=> \E x \in Places : Call(x).pivot = c /\ Call(x).at # "return"
    BY SortAssumption DEF Working
  <2>2. ASSUME end
        PROVE  chunks = << >> /\ \A t \in Threads : ~Busy(t)
    <3>1. Places = {} /\ chunks = << >>
      BY <2>0, <2>2 DEF AtEnd
    <3> QED
      BY <2>0, <3>1, TopIs
  <2> QED
    BY <2>0, <2>1, <2>2 DEF ChunkAlive, Names, Waiting
<1> QED
  BY <1>1, InvariantHolds, PTL

\* Every chunk's result, and what parallel_quick_sort returns, holds the elements it
\* was to sort, each once, in their order.
THEOREM InputSorted == Spec => []SortsInput
<1>1. IInv => SortsInput
  BY DEF IInv, Results, Finished, SortsInput
<1> QED
  BY <1>1, InvariantHolds, PTL
==============================================================================
