------------------------------- MODULE TreePLRU -------------------------------
(***************************************************************************)
(* PLRU of common/PLRU.h and PLRU.cpp: one bit for each inner node of a    *)
(* binary tree whose leaves are the ways of a cache; using a way makes the *)
(* bits on the path to it point at it.  plru_value_ is the set of the bits *)
(* that are 1.  The loops of the constructor and of update_plru are taken  *)
(* round by round.                                                         *)
(*                                                                         *)
(* A cache has any number of ways, as in the source.  If that is a power   *)
(* of two, level_ is one more than the tree has levels, and the last round *)
(* clears the bit of a leaf.  pos grows past the width of the word in a    *)
(* cache of as many ways as the word has bits, or more: such a shift is    *)
(* undefined, and modelled as what x86 does, modulo the width.  (That pos  *)
(* wraps at 2^32 itself makes no difference modulo 32.)                    *)
(***************************************************************************)
EXTENDS Integers

CONSTANTS WayNums,  \* the sizes of the caches
          WordBits  \* 32, the width of uint32_t

PowerOfTwo(n) == n > 0 /\ \A p, q \in 1 .. n : p * q = n /\ p # 1 => p % 2 = 0

ASSUME WayAssumption ==
    /\ WayNums \subseteq Nat
    /\ WordBits \in Nat /\ PowerOfTwo(WordBits)

VARIABLES way_num_, level_, plru_value_,
          plruPc,       \* "constructor", "update_plru" or "idle"
          loop,         \* i and, in update_plru, way, pos and mid
          used          \* history: the way of the last call, -1 before the first

plruVars == <<way_num_, level_, plru_value_, plruPc, loop, used>>

PlruInit ==
    /\ way_num_ \in WayNums
    /\ level_ = 0
    /\ plru_value_ = {}
    /\ plruPc = "constructor"
    /\ loop = [i |-> way_num_, way |-> 0, pos |-> 0, mid |-> 0]
    /\ used = -1

CountLevel ==
    /\ plruPc = "constructor"
    /\ loop.i > 0
    /\ level_' = level_ + 1
    /\ loop' = [loop EXCEPT !.i = @ \div 2]
    /\ UNCHANGED <<way_num_, plru_value_, plruPc, used>>

Constructed ==
    /\ plruPc = "constructor"
    /\ loop.i = 0
    /\ plruPc' = "idle"
    /\ UNCHANGED <<way_num_, level_, plru_value_, loop, used>>
------------------------------------------------------------------------------
(* update_plru                                                             *)

\* A way the cache does not have is refused with an exception.
RefuseWay(way) ==
    /\ plruPc = "idle"
    /\ way >= way_num_
    /\ UNCHANGED plruVars

UpdatePlru(way) ==
    /\ plruPc = "idle"
    /\ way < way_num_
    /\ plruPc' = "update_plru"
    /\ loop' = [i |-> 0, way |-> way, pos |-> 0, mid |-> way_num_ \div 2]
    /\ used' = way
    /\ UNCHANGED <<way_num_, level_, plru_value_>>

\* Mutant: the children of a node are counted from 1.
RoundFromOne ==
    /\ plruPc = "update_plru"
    /\ loop.i < level_
    /\ \/ /\ loop.way >= loop.mid
          /\ plru_value_' = plru_value_ \ {loop.pos % WordBits}
          /\ loop' = [i |-> loop.i + 1, way |-> loop.way - loop.mid,
                      pos |-> 2 * loop.pos + 1, mid |-> loop.mid \div 2]
       \/ /\ loop.way < loop.mid
          /\ plru_value_' = plru_value_ \cup {loop.pos % WordBits}
          /\ loop' = [i |-> loop.i + 1, way |-> loop.way,
                      pos |-> 2 * loop.pos, mid |-> loop.mid \div 2]
    /\ UNCHANGED <<way_num_, level_, plruPc, used>>

Round ==
    /\ plruPc = "update_plru"
    /\ loop.i < level_
    /\ \/ /\ loop.way >= loop.mid
          /\ plru_value_' = plru_value_ \ {loop.pos % WordBits}
          /\ loop' = [i |-> loop.i + 1, way |-> loop.way - loop.mid,
                      pos |-> 2 * loop.pos + 2, mid |-> loop.mid \div 2]
       \/ /\ loop.way < loop.mid
          /\ plru_value_' = plru_value_ \cup {loop.pos % WordBits}
          /\ loop' = [i |-> loop.i + 1, way |-> loop.way,
                      pos |-> 2 * loop.pos + 1, mid |-> loop.mid \div 2]
    /\ UNCHANGED <<way_num_, level_, plruPc, used>>

Updated ==
    /\ plruPc = "update_plru"
    /\ loop.i >= level_
    /\ plruPc' = "idle"
    /\ UNCHANGED <<way_num_, level_, plru_value_, loop, used>>

PlruNext ==
    \/ CountLevel \/ Constructed
    \/ \E way \in 0 .. way_num_ : UpdatePlru(way) \/ RefuseWay(way)
    \/ Round \/ Updated

PlruSpec == PlruInit /\ [][PlruNext]_plruVars
------------------------------------------------------------------------------
Ways == 0 .. way_num_ - 1

\* The bit of the node above way that has size ways below it points at the other
\* half of them.
Avoided(way, size) ==
    LET bit == (way_num_ \div size) - 1 + way \div size
    IN  way % size < size \div 2 <=> bit \notin plru_value_

\* The ways that all bits above them avoid, in a cache of 2, 4, 8... ways.
Victims == {way \in Ways : \A size \in 2 .. way_num_ : PowerOfTwo(size) => Avoided(way, size)}

\* In a cache with fewer ways than the word has bits only bits of inner nodes
\* are 1, and the root's says in which half the way used last is, whatever the
\* number of ways.
RootNamesHalf ==
    plruPc = "idle" /\ way_num_ < WordBits =>
        /\ plru_value_ \subseteq 0 .. way_num_ - 2
        /\ way_num_ >= 2 /\ used # -1 => (0 \in plru_value_ <=> used < way_num_ \div 2)

\* In a cache of 2, 4, 8... ways, up to the width of the word, the bits leave
\* one way to be replaced, which is not the one used last.  It is in the other
\* half of the cache, with one exception: with as many ways as bits the round too
\* many clears the bit of an inner node, and after way 1 that is the root's.
VictimIsOther ==
    /\ RootNamesHalf
    /\ plruPc = "idle" /\ PowerOfTwo(way_num_) /\ way_num_ \in 2 .. WordBits =>
          LET rootCleared == way_num_ = WordBits /\ way_num_ > 2 /\ used = 1
          IN  \E victim \in Ways :
                 /\ Victims = {victim}
                 /\ used # victim
                 /\ used # -1 =>
                       (rootCleared <=> (victim < way_num_ \div 2 <=> used < way_num_ \div 2))
==============================================================================
