------------------------------ MODULE LRUHashMap ------------------------------
(***************************************************************************)
(* LRUHashMap of common/lru_hash_map.h: a hash map, and a list of its keys *)
(* in the order they were last set.  A record knows its place in the list  *)
(* and the second it was set in, by the system clock, which can be set     *)
(* back.  Get does not move a key, and the values do not matter here.      *)
(*                                                                         *)
(* A place in the list is a node of its own: a key set again gets a new    *)
(* one.  age counts the calls of Set, to say which key was set first.      *)
(***************************************************************************)
EXTENDS Integers, Sequences, SequencesExt, FiniteSets

CONSTANTS LruKey,   \* the keys
          Seconds,  \* bound: the clock shows 0 .. Seconds
          Sets      \* bound: the calls of Set

ASSUME LruAssumption == Seconds \in Nat /\ Sets \in Nat

Second == 0 .. Seconds

VARIABLES
    order_,     \* nodes, each with its key
    records_,   \* a function on the keys there are: order_ptr_, timestamp_
    clock,      \* what system_clock::now() shows
    steady,     \* history: the clock was never set back
    lastSet,    \* history: for each key, the number of the call that set it last
    setCount    \* history: how many calls of Set there were

lruVars == <<order_, records_, clock, steady, lastSet, setCount>>

LruInit ==
    /\ order_ = << >>
    /\ records_ = << >>
    /\ clock = 0 /\ steady = TRUE
    /\ lastSet = [k \in LruKey |-> 0]
    /\ setCount = 0

\* records_.find(key) != records_.end()
Held(k) == k \in DOMAIN records_
Without(f, keys) == [k \in DOMAIN f \ keys |-> f[k]]
KeyAt(i) == order_[i].key
PlaceOf(node) == CHOOSE i \in DOMAIN order_ : order_[i].node = node
------------------------------------------------------------------------------
\* Mutant: a key that is set again stays where it was.
SetInPlace(k) ==
    /\ setCount < Sets
    /\ setCount' = setCount + 1
    /\ lastSet' = [lastSet EXCEPT ![k] = setCount']
    /\ order_' = IF Held(k) THEN order_ ELSE Append(order_, [key |-> k, node |-> setCount'])
    /\ records_' = [h \in DOMAIN records_ \cup {k} |->
                       IF h # k THEN records_[h]
                       ELSE [order_ptr_ |-> IF Held(k) THEN records_[k].order_ptr_ ELSE setCount',
                             timestamp_ |-> clock]]
    /\ UNCHANGED <<clock, steady>>

\* Take the key's node, if it has one, out of the list, and append a new one.
Set(k) ==
    /\ setCount < Sets
    /\ setCount' = setCount + 1
    /\ lastSet' = [lastSet EXCEPT ![k] = setCount']
    /\ LET erased == IF Held(k) THEN RemoveAt(order_, PlaceOf(records_[k].order_ptr_)) ELSE order_
       IN  order_' = Append(erased, [key |-> k, node |-> setCount'])
    /\ records_' = [h \in DOMAIN records_ \cup {k} |->
                       IF h = k THEN [order_ptr_ |-> setCount', timestamp_ |-> clock]
                                ELSE records_[h]]
    /\ UNCHANGED <<clock, steady>>

\* Erase the first n nodes of the list, and the records of their keys.
Retire(n) ==
    /\ order_' = SubSeq(order_, n + 1, Len(order_))
    /\ records_' = Without(records_, {KeyAt(i) : i \in 1 .. n})
    /\ UNCHANGED <<clock, steady, lastSet, setCount>>

\* As far as the first node that was set after time.
RetireByTime(time) ==
    \E n \in 0 .. Len(order_) :
        /\ \A i \in 1 .. n : records_[KeyAt(i)].timestamp_ <= time
        /\ n < Len(order_) => time < records_[KeyAt(n + 1)].timestamp_
        /\ Retire(n)

\* A negative number never counts down to 0.
RetireNum(num) ==
    Retire(IF num < 0 \/ num > Len(order_) THEN Len(order_) ELSE num)

\* Time passes, or the clock is set.
Tick ==
    /\ clock' \in Second \ {clock}
    /\ steady' = (steady /\ clock' > clock)
    /\ UNCHANGED <<order_, records_, lastSet, setCount>>
------------------------------------------------------------------------------
LruNext ==
    \/ \E k \in LruKey : Set(k)
    \/ \E time \in Second : RetireByTime(time)
    \/ \E num \in -1 .. 2 : RetireNum(num)
    \/ Tick

LruSpec == LruInit /\ [][LruNext]_lruVars
------------------------------------------------------------------------------
\* What a call retires was set before everything it keeps, whatever the clock
\* shows.  And as long as the clock was never set back, RetireByTime leaves just
\* the records that were set after the time it is given.  (A clock set back
\* leaves older records behind a younger one, and these are kept.)
RetiresOldest ==
    [][ /\ \A gone \in DOMAIN records_ \ DOMAIN records_', kept \in DOMAIN records_' :
              lastSet[gone] < lastSet[kept]
        /\ \A time \in Second :
              steady /\ RetireByTime(time) =>
                  DOMAIN records_' = {k \in DOMAIN records_ : records_[k].timestamp_ > time}
      ]_lruVars
==============================================================================
