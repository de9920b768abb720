--------------------------- MODULE SafeLookupTable ---------------------------
(***************************************************************************)
(* SafeLookupTable of common/safe_lookup_table.h: a vector of buckets,     *)
(* each a list of pairs behind a shared mutex (boost's, external: which of *)
(* those who wait gets it is left open).  get_map locks every bucket in    *)
(* the order of the indices before it reads the first.                     *)
(*                                                                         *)
(* The repository only constructs a table (test_safe/main.cpp:131), and of *)
(* its templates only the constructor compiles: get_bucket names hasher    *)
(* instead of hasher_, find_entry_for returns an iterator of a const list, *)
(* and get_map reads members of a unique_ptr, and members that are private *)
(* to BucketType.  What is modelled is what the methods say once these     *)
(* four slips are read as they are meant; the threads here call them as    *)
(* they like.  std::hash<int> is the identity.                             *)
(***************************************************************************)
EXTENDS Integers, Sequences, SequencesExt

CONSTANTS
    TableThreads, TableKeys, TableValues,
    Buckets,        \* num_buckets
    TableTimes,     \* bound: how many calls each thread makes
    Free            \* no thread, no call, no value, no answer

ASSUME TableAssumption ==
    /\ Buckets \in Nat \ {0}
    /\ TableKeys \subseteq Nat /\ TableKeys # {}
    /\ TableTimes \in Nat
    /\ Free \notin TableThreads \cup TableValues
    /\ Free \notin [op : {"value_for", "add", "remove", "get_map"},
                    key : TableKeys, value : TableValues \cup {Free}]
    /\ \A answer \in (SUBSET (TableValues \cup {Free})) \cup (SUBSET (TableKeys \X TableValues)) :
           answer # Free

Bucket == 0 .. Buckets - 1

VARIABLES
    data_,              \* the list of each bucket
    readers, writer,    \* who holds its mutex_, shared and exclusively
    tablePc, tableCall, \* where each thread is, and its call: [op, key, value]
    foundEntry,         \* found_entry; in get_map i, the bucket it is at
    res,                \* the map get_map is building
    tableAnswer, tableLeft

tableVars == <<data_, readers, writer, tablePc, tableCall, foundEntry, res, tableAnswer, tableLeft>>

TableInit ==
    /\ data_ = [b \in Bucket |-> <<>>]
    /\ readers = [b \in Bucket |-> {}]
    /\ writer = [b \in Bucket |-> Free]
    /\ tablePc = [t \in TableThreads |-> "call"]
    /\ tableCall = [t \in TableThreads |-> Free]
    /\ foundEntry = [t \in TableThreads |-> 0]
    /\ res = [t \in TableThreads |-> {}]
    /\ tableAnswer = [t \in TableThreads |-> Free]
    /\ tableLeft = [t \in TableThreads |-> TableTimes]

TableGoto(t, from, to) == tablePc[t] = from /\ tablePc' = [tablePc EXCEPT ![t] = to]

get_bucket(key) == key % Buckets

At(t) == get_bucket(tableCall[t].key)

\* The place of the first pair of a bucket's list with the key, or the end.
find_entry_for(list, key) ==
    CHOOSE i \in 1 .. Len(list) + 1 :
        /\ i <= Len(list) => list[i].key = key
        /\ \A j \in 1 .. i - 1 : list[j].key # key
------------------------------------------------------------------------------
TableCalls ==
    {[op |-> "value_for", key |-> k, value |-> Free] : k \in TableKeys}
    \cup {[op |-> "add", key |-> k, value |-> v] : k \in TableKeys, v \in TableValues}
    \cup {[op |-> "remove", key |-> k, value |-> Free] : k \in TableKeys}
    \cup {[op |-> "get_map", key |-> k, value |-> Free] : k \in {CHOOSE k \in TableKeys : TRUE}}

CallTable(t) ==
    /\ tableLeft[t] > 0
    /\ tableLeft' = [tableLeft EXCEPT ![t] = @ - 1]
    /\ \E c \in TableCalls :
          /\ tableCall' = [tableCall EXCEPT ![t] = c]
          /\ TableGoto(t, "call", IF c.op = "get_map" THEN "lock_all" ELSE "lock")
    /\ foundEntry' = [foundEntry EXCEPT ![t] = 0]
    /\ UNCHANGED <<data_, readers, writer, res, tableAnswer>>

LockBucket(t) ==
    /\ TableGoto(t, "lock", "find")
    /\ writer[At(t)] = Free
    /\ IF tableCall[t].op = "value_for"
       THEN readers' = [readers EXCEPT ![At(t)] = @ \cup {t}] /\ UNCHANGED writer
       ELSE readers[At(t)] = {} /\ writer' = [writer EXCEPT ![At(t)] = t] /\ UNCHANGED readers
    /\ UNCHANGED <<data_, tableCall, foundEntry, res, tableAnswer, tableLeft>>

FindEntry(t) ==
    /\ TableGoto(t, "find", "act")
    /\ foundEntry' = [foundEntry EXCEPT ![t] = find_entry_for(data_[At(t)], tableCall[t].key)]
    /\ UNCHANGED <<data_, readers, writer, tableCall, res, tableAnswer, tableLeft>>

\* The end is not erased.
UseEntry(t) ==
    LET c == tableCall[t]
        d == data_[At(t)]
        i == foundEntry[t]
        new == [key |-> c.key, value |-> c.value]
    IN  /\ TableGoto(t, "act", "return")
        /\ data_' = [data_ EXCEPT ![At(t)] =
                        CASE c.op = "add" -> IF i > Len(d) THEN Append(d, new) ELSE [d EXCEPT ![i] = new]
                          [] c.op = "remove" -> IF i > Len(d) THEN d ELSE RemoveAt(d, i)
                          [] OTHER -> d]
        /\ tableAnswer' = [tableAnswer EXCEPT ![t] =
                              IF c.op # "value_for" THEN {}
                              ELSE IF i > Len(d) THEN {Free} ELSE {d[i].value}]
        /\ UNCHANGED <<readers, writer, tableCall, foundEntry, res, tableLeft>>
------------------------------------------------------------------------------
\* Mutant: get_map locks nothing.
LockNoBucket(t) ==
    LET i == foundEntry[t] IN
    /\ TableGoto(t, "lock_all", IF i = Buckets - 1 THEN "copy" ELSE "lock_all")
    /\ foundEntry' = [foundEntry EXCEPT ![t] = IF i = Buckets - 1 THEN 0 ELSE i + 1]
    /\ UNCHANGED <<data_, readers, writer, tableCall, res, tableAnswer, tableLeft>>

LockNextBucket(t) ==
    LET i == foundEntry[t] IN
    /\ TableGoto(t, "lock_all", IF i = Buckets - 1 THEN "copy" ELSE "lock_all")
    /\ writer[i] = Free /\ readers[i] = {}
    /\ writer' = [writer EXCEPT ![i] = t]
    /\ foundEntry' = [foundEntry EXCEPT ![t] = IF i = Buckets - 1 THEN 0 ELSE i + 1]
    /\ UNCHANGED <<data_, readers, tableCall, res, tableAnswer, tableLeft>>

\* insert leaves a key alone that is there already.
CopyNextBucket(t) ==
    LET i == foundEntry[t]
        d == data_[i]
        first == {j \in 1 .. Len(d) : \A h \in 1 .. j - 1 : d[h].key # d[j].key}
        copied == res[t] \cup {<<d[j].key, d[j].value>> : j \in first}
        last == i = Buckets - 1
    IN  /\ TableGoto(t, "copy", IF last THEN "return" ELSE "copy")
        /\ foundEntry' = [foundEntry EXCEPT ![t] = i + 1]
        /\ res' = [res EXCEPT ![t] = IF last THEN {} ELSE copied]
        /\ tableAnswer' = [tableAnswer EXCEPT ![t] = IF last THEN copied ELSE @]
        /\ UNCHANGED <<data_, readers, writer, tableCall, tableLeft>>

\* The locks are released when the method returns.
ReturnFromTable(t) ==
    /\ TableGoto(t, "return", "call")
    /\ readers' = [b \in Bucket |-> readers[b] \ {t}]
    /\ writer' = [b \in Bucket |-> IF writer[b] = t THEN Free ELSE writer[b]]
    /\ tableCall' = [tableCall EXCEPT ![t] = Free]
    /\ tableAnswer' = [tableAnswer EXCEPT ![t] = Free]
    /\ foundEntry' = [foundEntry EXCEPT ![t] = 0]
    /\ UNCHANGED <<data_, res, tableLeft>>
------------------------------------------------------------------------------
TableStep(t) ==
    \/ CallTable(t) \/ LockBucket(t) \/ FindEntry(t) \/ UseEntry(t)
    \/ LockNextBucket(t) \/ CopyNextBucket(t) \/ ReturnFromTable(t)

TableDone ==
    /\ \A t \in TableThreads : tablePc[t] = "call" /\ tableLeft[t] = 0
    /\ UNCHANGED tableVars

TableNext == (\E t \in TableThreads : TableStep(t)) \/ TableDone

TableSpec == TableInit /\ [][TableNext]_tableVars
------------------------------------------------------------------------------
\* A key's value is that of the first pair of its bucket that has the key.
ValueIn(list, key) ==
    LET i == find_entry_for(list, key) IN IF i > Len(list) THEN Free ELSE list[i].value

TableMap == [k \in TableKeys |-> ValueIn(data_[get_bucket(k)], k)]

TableShared == INSTANCE LookupMap WITH
    Thread <- TableThreads, Key <- TableKeys, Value <- TableValues, None <- Free,
    map <- TableMap, call <- tableCall, answer <- tableAnswer

\* The buckets together are one map, which each call reads or changes at one
\* moment; the map get_map returns is one the table was in between its call and
\* its return, though it reads the buckets one after another.
TableIsMap == TableShared!Spec
==============================================================================
