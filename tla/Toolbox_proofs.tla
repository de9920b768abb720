---------------------------- MODULE Toolbox_proofs ----------------------------
(***************************************************************************)
(* The repository's small programs that have nothing to do with each       *)
(* other, one after the other:                                             *)
(*                                                                         *)
(*   EchoAnswers of UdpEcho, for every number of arguments and any number  *)
(*   of lost and duplicated datagrams;                                     *)
(*                                                                         *)
(*   AssertsHold of MemoryOrder, for every number of cells;                *)
(*                                                                         *)
(*   RetiresOldest of LRUHashMap, for every number of keys, calls of Set   *)
(*   and seconds;                                                          *)
(*                                                                         *)
(*   CoarseIsSet of CoarseSafeSet, for every number of threads, calls and  *)
(*   keys;                                                                 *)
(*                                                                         *)
(*   TableIsMap of SafeLookupTable, for every number of threads, calls,    *)
(*   keys, values and buckets;                                             *)
(*                                                                         *)
(*   RootNamesHalf of TreePLRU, for every number of ways that is below the *)
(*   width of the word, whatever that is.                                  *)
(***************************************************************************)
EXTENDS UdpEcho, MemoryOrder, LRUHashMap, CoarseSafeSet, SafeLookupTable,
        TreePLRU, TLAPS, SequenceTheorems

------------------------------------------------------------------------------
(* The echo client and its server.  EchoAnswers speaks of what the client  *)
(* printed; what it will print is under way.  So the inductive invariant   *)
(* says which datagrams can be: those of arguments that were sent, and, if *)
(* none was duplicated, one at most, that of the argument whose answer the *)
(* client waits for.                                                       *)

EchoTypeOK ==
    /\ echoPc \in {"send", "read", "success", "failure"}
    /\ arg \in 1 .. Args + 1
    /\ echoPc = "read" => arg \in Message
    /\ printed \in [Message -> Message \cup {Nothing}]
    /\ toServer \in [Message -> Nat]
    /\ toClient \in [Message -> Nat]
    /\ serverBuf \in Message \cup {Nothing}
    /\ duplicated \in Nat

Copies(m) == toServer[m] + toClient[m] + (IF serverBuf = m THEN 1 ELSE 0)

Sent(m) == m < arg \/ (m = arg /\ echoPc \in {"read", "failure"})

OnlySentUnderWay == \A m \in Message : Copies(m) > 0 => Sent(m)

OneUnderWay ==
    duplicated = 0 =>
        \A m \in Message :
            /\ Copies(m) <= 1
            /\ Copies(m) = 1 => m = arg /\ echoPc \in {"read", "failure"}

EchoInv == EchoTypeOK /\ OnlySentUnderWay /\ OneUnderWay /\ EchoAnswers
------------------------------------------------------------------------------
\* The client starts with nothing under way and nothing printed.
LEMMA EchoInitially == EchoInit => EchoInv
<1> SUFFICES ASSUME EchoInit PROVE EchoInv
  OBVIOUS
<1> USE EchoAssumption DEF EchoInit, Message, Nothing
<1>1. EchoTypeOK
  BY DEF EchoTypeOK
<1>2. \A m \in Message : Copies(m) = 0
  BY DEF Copies
<1>3. OnlySentUnderWay /\ OneUnderWay
  BY <1>2 DEF OnlySentUnderWay, OneUnderWay
<1>4. EchoAnswers
  BY DEF EchoAnswers
<1> QED
  BY <1>1, <1>3, <1>4 DEF EchoInv

\* Only a step of the client changes what was sent or printed.  A step that
\* moves a datagram, or loses it, leaves no more copies than there were.
LEMMA FewerCopies ==
    ASSUME EchoInv, EchoTypeOK',
           UNCHANGED <<arg, printed, duplicated>>,
           echoPc' = echoPc \/ echoPc' = "failure" \/ (echoPc = "send" /\ echoPc' = "success"),
           \A m \in Message : Copies(m)' <= Copies(m) /\ Copies(m)' \in Nat /\ Copies(m) \in Nat
    PROVE  EchoInv'
<1>1. OnlySentUnderWay'
  BY DEF EchoInv, OnlySentUnderWay, Sent, EchoTypeOK, Message
<1>2. OneUnderWay'
  BY DEF EchoInv, OneUnderWay, EchoTypeOK, Message
<1>3. EchoAnswers'
  BY DEF EchoInv, EchoAnswers
<1> QED
  BY <1>1, <1>2, <1>3 DEF EchoInv

\* Copies are counted by natural numbers.
LEMMA CopiesType ==
    ASSUME EchoTypeOK, NEW m \in Message
    PROVE  Copies(m) \in Nat
BY DEF EchoTypeOK, Copies

\* The same of the state after a step.
LEMMA CopiesNextType ==
    ASSUME EchoTypeOK', NEW m \in Message
    PROVE  Copies(m)' \in Nat
BY DEF EchoTypeOK, Copies

\* One copy more, and one copy less of those there are.
LEMMA CopyAdded ==
    ASSUME NEW f \in [Message -> Nat], NEW m \in Message
    PROVE  /\ [f EXCEPT ![m] = @ + 1] \in [Message -> Nat]
           /\ \A n \in Message : [f EXCEPT ![m] = @ + 1][n] > 0 => n = m \/ f[n] > 0
OBVIOUS

LEMMA CopyTaken ==
    ASSUME NEW f \in [Message -> Nat], NEW m \in Message, f[m] > 0
    PROVE  /\ [f EXCEPT ![m] = @ - 1] \in [Message -> Nat]
           /\ \A n \in Message : [f EXCEPT ![m] = @ - 1][n] <= f[n]
<1>1. f[m] - 1 \in Nat
  OBVIOUS
<1> QED
  BY <1>1

LEMMA ClientKeeps == ASSUME EchoInv, Client \/ ClientFails PROVE EchoInv'
<1> USE EchoAssumption DEF Message, Nothing
<1>0. EchoTypeOK /\ OnlySentUnderWay /\ OneUnderWay /\ EchoAnswers
  BY DEF EchoInv
<1>c. \A m \in Message : Copies(m) \in Nat
  BY <1>0, CopiesType
<1>1. CASE SkipArg
  <2>1. EchoTypeOK'
    BY <1>0, <1>1 DEF EchoTypeOK, SkipArg
  <2>2. \A m \in Message : Copies(m)' = Copies(m)
    BY <1>1 DEF SkipArg, Copies
  <2>3. OnlySentUnderWay'
    BY <1>0, <1>1, <2>2 DEF OnlySentUnderWay, Sent, SkipArg, EchoTypeOK
  <2>4. OneUnderWay'
    BY <1>0, <1>1, <1>c, <2>2 DEF OneUnderWay, SkipArg, EchoTypeOK
  <2>5. EchoAnswers'
    BY <1>0, <1>1 DEF EchoAnswers, SkipArg
  <2> QED
    BY <2>1, <2>3, <2>4, <2>5 DEF EchoInv
<1>2. CASE WriteArg
  <2>1. EchoTypeOK'
    BY <1>0, <1>2 DEF EchoTypeOK, WriteArg
  <2>2. \A m \in Message \ {arg} : Copies(m)' = Copies(m)
    BY <1>0, <1>2 DEF WriteArg, Copies, EchoTypeOK
  <2>3. Copies(arg)' = Copies(arg) + 1 /\ arg \in Message
    BY <1>0, <1>2 DEF WriteArg, Copies, EchoTypeOK
  <2>4. OnlySentUnderWay'
    BY <1>0, <1>2, <2>2 DEF OnlySentUnderWay, Sent, WriteArg, EchoTypeOK
  <2>5. OneUnderWay'
    <3> SUFFICES ASSUME duplicated' = 0, NEW m \in Message
                 PROVE  /\ Copies(m)' <= 1
                        /\ Copies(m)' = 1 => m = arg' /\ echoPc' \in {"read", "failure"}
      BY DEF OneUnderWay
    <3>1. Copies(m) = 0
      BY <1>0, <1>2, <1>c DEF OneUnderWay, WriteArg
    <3> QED
      BY <1>2, <2>2, <2>3, <3>1 DEF WriteArg
  <2>6. EchoAnswers'
    BY <1>0, <1>2 DEF EchoAnswers, WriteArg
  <2> QED
    BY <2>1, <2>4, <2>5, <2>6 DEF EchoInv
<1>3. ASSUME NEW m \in Message, ReadAnswer(m) PROVE EchoInv'
  <2>1. EchoTypeOK'
    <3>1. toClient \in [Message -> Nat] /\ arg \in Message
      BY <1>0, <1>3 DEF EchoTypeOK, ReadAnswer
    <3>2. toClient' \in [Message -> Nat]
      BY <1>3, <3>1, CopyTaken DEF ReadAnswer
    <3>3. printed' \in [Message -> Message \cup {Nothing}]
      BY <1>0, <1>3 DEF EchoTypeOK, ReadAnswer
    <3>4. /\ UNCHANGED <<toServer, serverBuf, duplicated>>
          /\ arg' = arg + 1 /\ echoPc' = "send"
      BY <1>3 DEF ReadAnswer
    <3> QED
      BY <1>0, <3>1, <3>2, <3>3, <3>4 DEF EchoTypeOK
  <2>2. Copies(m)' = Copies(m) - 1 /\ Copies(m) > 0 /\ arg \in Message
    BY <1>0, <1>3 DEF ReadAnswer, Copies, EchoTypeOK
  <2>3. \A n \in Message \ {m} : Copies(n)' = Copies(n)
    BY <1>0, <1>3 DEF ReadAnswer, Copies, EchoTypeOK
  <2>4. m <= arg
    BY <1>0, <1>3, <2>2 DEF OnlySentUnderWay, Sent, EchoTypeOK
  <2>5. duplicated = 0 => m = arg
    BY <1>0, <1>c, <2>2 DEF OneUnderWay
  <2>6. OnlySentUnderWay'
    <3> SUFFICES ASSUME NEW n \in Message, Copies(n)' > 0 PROVE Sent(n)'
      BY DEF OnlySentUnderWay
    <3>1. Copies(n) > 0
      BY <1>c, <2>2, <2>3
    <3>2. n \in Int /\ arg \in Int /\ n <= arg
      BY <1>0, <3>1 DEF OnlySentUnderWay, Sent, EchoTypeOK
    <3> QED
      BY <1>3, <3>2 DEF Sent, ReadAnswer
  <2>7. OneUnderWay'
    <3> SUFFICES ASSUME duplicated' = 0, NEW n \in Message PROVE Copies(n)' = 0
      BY DEF OneUnderWay
    <3>1. duplicated = 0
      BY <1>3 DEF ReadAnswer
    <3> QED
      BY <1>0, <1>c, <2>2, <2>3, <2>5, <3>1 DEF OneUnderWay
  <2>8. EchoAnswers'
    BY <1>0, <1>3, <2>4, <2>5 DEF EchoAnswers, ReadAnswer, EchoTypeOK
  <2> QED
    BY <2>1, <2>6, <2>7, <2>8 DEF EchoInv
<1>4. CASE ClientExits \/ ClientFails
  <2>1. EchoTypeOK'
    BY <1>0, <1>4 DEF EchoTypeOK, ClientExits, ClientFails
  <2>2. \A m \in Message : Copies(m)' = Copies(m)
    BY <1>4 DEF ClientExits, ClientFails, Copies
  <2> QED
    BY <1>4, <1>c, <2>1, <2>2, FewerCopies DEF ClientExits, ClientFails
<1> QED
  BY <1>1, <1>2, <1>3, <1>4 DEF Client

LEMMA ServerKeeps == ASSUME EchoInv, Server \/ SendFails PROVE EchoInv'
<1> USE EchoAssumption DEF Message, Nothing
<1>0. EchoTypeOK
  BY DEF EchoInv
<1>1. CASE SendBack \/ SendFails
  <2>1. EchoTypeOK'
    <3>1. toClient \in [Message -> Nat] /\ serverBuf \in Message
      BY <1>0, <1>1 DEF EchoTypeOK, SendBack, SendFails
    <3>2. toClient' \in [Message -> Nat]
      BY <1>1, <3>1, CopyAdded DEF SendBack, SendFails
    <3>3. UNCHANGED <<echoPc, arg, printed, toServer, duplicated>> /\ serverBuf' = Nothing
      BY <1>1 DEF SendBack, SendFails
    <3> QED
      BY <1>0, <3>2, <3>3 DEF EchoTypeOK
  <2>2. \A m \in Message : Copies(m)' <= Copies(m)
    <3> SUFFICES ASSUME NEW m \in Message PROVE Copies(m)' <= Copies(m)
      OBVIOUS
    <3>1. /\ toClient \in [Message -> Nat] /\ toServer'[m] = toServer[m]
          /\ serverBuf' = Nothing /\ Nothing # m
          /\ toServer[m] \in Nat /\ toClient[m] \in Nat
      BY <1>0, <1>1 DEF SendBack, SendFails, EchoTypeOK
    <3>2. toClient'[m] = toClient[m] \/ (serverBuf = m /\ toClient'[m] = toClient[m] + 1)
      BY <1>1, <3>1 DEF SendBack, SendFails
    <3> QED
      BY <3>1, <3>2 DEF Copies
  <2>3. \A m \in Message : Copies(m) \in Nat /\ Copies(m)' \in Nat
    BY <1>0, <2>1, CopiesType, CopiesNextType
  <2> QED
    BY <1>1, <2>1, <2>2, <2>3, FewerCopies DEF SendBack, SendFails
<1>2. ASSUME NEW m \in Message, Receive(m) PROVE EchoInv'
  <2>1. EchoTypeOK'
    <3>1. toServer \in [Message -> Nat]
      BY <1>0 DEF EchoTypeOK
    <3>2. toServer' \in [Message -> Nat]
      BY <1>2, <3>1, CopyTaken DEF Receive
    <3>3. UNCHANGED <<echoPc, arg, printed, toClient, duplicated>> /\ serverBuf' = m
      BY <1>2 DEF Receive
    <3> QED
      BY <1>0, <3>2, <3>3 DEF EchoTypeOK
  <2>2. \A n \in Message : Copies(n)' <= Copies(n)
    BY <1>0, <1>2 DEF Receive, Copies, EchoTypeOK
  <2>3. \A n \in Message : Copies(n) \in Nat /\ Copies(n)' \in Nat
    BY <1>0, <2>1, CopiesType, CopiesNextType
  <2> QED
    BY <1>2, <2>1, <2>2, <2>3, FewerCopies DEF Receive
<1> QED
  BY <1>1, <1>2 DEF Server

LEMMA NetworkKeeps == ASSUME EchoInv, Network PROVE EchoInv'
<1> USE EchoAssumption DEF Message, Nothing
<1>0. EchoTypeOK /\ OnlySentUnderWay /\ EchoAnswers
  BY DEF EchoInv
<1>1. ASSUME NEW m \in Message, Lose(m) PROVE EchoInv'
  <2>0. /\ toServer' \in [Message -> Nat] /\ toClient' \in [Message -> Nat]
        /\ \A n \in Message : toServer'[n] <= toServer[n] /\ toClient'[n] <= toClient[n]
    <3>0. toServer \in [Message -> Nat] /\ toClient \in [Message -> Nat]
      BY <1>0 DEF EchoTypeOK
    <3>1. CASE toServer[m] > 0 /\ toServer' = [toServer EXCEPT ![m] = @ - 1] /\ UNCHANGED toClient
      BY <3>0, <3>1, CopyTaken
    <3>2. CASE toClient[m] > 0 /\ toClient' = [toClient EXCEPT ![m] = @ - 1] /\ UNCHANGED toServer
      BY <3>0, <3>2, CopyTaken
    <3> QED
      BY <1>1, <3>1, <3>2 DEF Lose
  <2>1. EchoTypeOK'
    <3>1. UNCHANGED <<echoPc, arg, printed, serverBuf, duplicated>>
      BY <1>1 DEF Lose
    <3> QED
      BY <1>0, <2>0, <3>1 DEF EchoTypeOK
  <2>2. \A n \in Message : Copies(n)' <= Copies(n)
    <3> SUFFICES ASSUME NEW n \in Message PROVE Copies(n)' <= Copies(n)
      OBVIOUS
    <3>1. serverBuf' = serverBuf
      BY <1>1 DEF Lose
    <3>2. /\ toServer[n] \in Nat /\ toClient[n] \in Nat
          /\ toServer'[n] \in Nat /\ toClient'[n] \in Nat
          /\ toServer'[n] <= toServer[n] /\ toClient'[n] <= toClient[n]
      BY <1>0, <2>0 DEF EchoTypeOK
    <3> QED
      BY <3>1, <3>2 DEF Copies
  <2>3. \A n \in Message : Copies(n) \in Nat /\ Copies(n)' \in Nat
    BY <1>0, <2>1, CopiesType, CopiesNextType
  <2> QED
    BY <1>1, <2>1, <2>2, <2>3, FewerCopies DEF Lose
<1>2. ASSUME NEW m \in Message, Duplicate(m) PROVE EchoInv'
  <2>0. /\ toServer' \in [Message -> Nat] /\ toClient' \in [Message -> Nat]
        /\ \A n \in Message :
             (toServer'[n] > 0 => toServer[n] > 0) /\ (toClient'[n] > 0 => toClient[n] > 0)
    <3>0. toServer \in [Message -> Nat] /\ toClient \in [Message -> Nat]
      BY <1>0 DEF EchoTypeOK
    <3>1. CASE toServer[m] > 0 /\ toServer' = [toServer EXCEPT ![m] = @ + 1] /\ UNCHANGED toClient
      BY <3>0, <3>1, CopyAdded
    <3>2. CASE toClient[m] > 0 /\ toClient' = [toClient EXCEPT ![m] = @ + 1] /\ UNCHANGED toServer
      BY <3>0, <3>2, CopyAdded
    <3> QED
      BY <1>2, <3>1, <3>2 DEF Duplicate
  <2>1. EchoTypeOK' /\ duplicated' # 0
    <3>1. /\ UNCHANGED <<echoPc, arg, printed, serverBuf>>
          /\ duplicated' = duplicated + 1
      BY <1>2 DEF Duplicate
    <3> QED
      BY <1>0, <2>0, <3>1 DEF EchoTypeOK
  <2>2. \A n \in Message : Copies(n)' > 0 => Copies(n) > 0
    <3> SUFFICES ASSUME NEW n \in Message, Copies(n)' > 0 PROVE Copies(n) > 0
      OBVIOUS
    <3>1. serverBuf' = serverBuf
      BY <1>2 DEF Duplicate
    <3>2. /\ toServer[n] \in Nat /\ toClient[n] \in Nat
          /\ toServer'[n] \in Nat /\ toClient'[n] \in Nat
          /\ toServer'[n] > 0 => toServer[n] > 0
          /\ toClient'[n] > 0 => toClient[n] > 0
      BY <1>0, <2>0 DEF EchoTypeOK
    <3> QED
      BY <3>1, <3>2 DEF Copies
  <2>3. OnlySentUnderWay'
    BY <1>0, <1>2, <2>2 DEF OnlySentUnderWay, Sent, Duplicate
  <2>4. OneUnderWay'
    BY <2>1 DEF OneUnderWay
  <2>5. EchoAnswers'
    BY <1>0, <1>2, <2>1 DEF EchoAnswers, Duplicate
  <2> QED
    BY <2>1, <2>3, <2>4, <2>5 DEF EchoInv
<1> QED
  BY <1>1, <1>2 DEF Network

\* Every step of the two programs and of the network keeps the invariant.
LEMMA EchoKeeps == EchoInv /\ [EchoNext]_echoVars => EchoInv'
<1> SUFFICES ASSUME EchoInv, [EchoNext]_echoVars PROVE EchoInv'
  OBVIOUS
<1>1. CASE UNCHANGED echoVars
  BY <1>1 DEF EchoInv, EchoTypeOK, OnlySentUnderWay, OneUnderWay, EchoAnswers, Sent, Copies, echoVars
<1>2. CASE EchoRests
  BY <1>1, <1>2 DEF EchoRests
<1> QED
  BY <1>1, <1>2, ClientKeeps, ServerKeeps, NetworkKeeps DEF EchoNext

\* socket_program/client.cpp: whatever the network does, the client never takes
\* a datagram for the answer to a message before it has sent that datagram's,
\* and without duplicates each answer is that to its message.
THEOREM AnswersInOrder == EchoSpec => []EchoAnswers
<1>1. EchoInv => EchoAnswers
  BY DEF EchoInv
<1> QED
  BY <1>1, EchoInitially, EchoKeeps, PTL DEF EchoSpec

------------------------------------------------------------------------------
(* The assertions of the memory-order test.  What thread_1 knew when it    *)
(* stored to sync is known to whoever reads from sync what came of that    *)
(* store; the inductive invariant says so of the values sync has had.      *)

Cell == 1 .. Cells
View == [Location -> Nat \ {0}]
Entry == [value : Nat, view : View]

OrderTypeOK ==
    /\ memory \in [Location -> Seq(Entry)]
    /\ view \in [OrderThread -> View]
    /\ orderPc \in [OrderThread -> {"run", "assert", "done"}]

\* A cell is written once, by thread_1, which knows it.
CellsWritten ==
    \A c \in Cell :
        \/ Len(memory[c]) = 1 /\ view[1][c] = 1
        \/ Len(memory[c]) = 2 /\ view[1][c] = 2 /\ memory[c][2].value = Written

\* Whoever reads from sync more than its first value comes to know all cells:
\* the release store and the exchange that follows it carry what thread_1 knew.
HandedOn ==
    /\ Len(memory[sync]) > 0 /\ memory[sync][1].value = 0
    /\ \A i \in 2 .. Len(memory[sync]) : \A c \in Cell : memory[sync][i].view[c] > 1

\* thread_3 knows all cells when it begins to assert.
Told == orderPc[3] # "run" => \A c \in Cell : view[3][c] > 1

OrderInv == OrderTypeOK /\ CellsWritten /\ HandedOn /\ Told /\ AssertsHold
------------------------------------------------------------------------------
LEMMA Locations ==
    /\ Cells \in Nat /\ sync \in Location /\ Cell \subseteq Location /\ sync \notin Cell
    /\ Location = Cell \cup {sync}
BY CellsAssumption DEF Location, Cell, sync

LEMMA Entries ==
    ASSUME OrderTypeOK, NEW l \in Location
    PROVE  /\ memory[l] \in Seq(Entry) /\ Len(memory[l]) \in Nat
           /\ \A i \in 1 .. Len(memory[l]) : memory[l][i] \in Entry
                                             /\ memory[l][i].view \in View
<1>1. memory[l] \in Seq(Entry)
  BY DEF OrderTypeOK
<1>2. Len(memory[l]) \in Nat /\ \A i \in 1 .. Len(memory[l]) : memory[l][i] \in Entry
  BY <1>1
<1> QED
  BY <1>1, <1>2 DEF Entry

LEMMA ViewTypes ==
    ASSUME OrderTypeOK, NEW t \in OrderThread
    PROVE  /\ view[t] \in View /\ Unseen \in View
           /\ \A l \in Location, i \in Nat \ {0} : Known(t, l, i) \in View
           /\ \A v, w \in View : Newer(v, w) \in View
BY DEF OrderTypeOK, View, Unseen, Known, Newer

LEMMA OrderInitially == OrderInit => OrderInv
<1> SUFFICES ASSUME OrderInit PROVE OrderInv
  OBVIOUS
<1> USE Locations DEF OrderInit
<1>1. Unseen \in View
  BY DEF Unseen, View
<1>2. [value |-> 0, view |-> Unseen] \in Entry
  BY <1>1 DEF Entry
<1>3. \A l \in Location : /\ memory[l] = <<[value |-> 0, view |-> Unseen]>>
                          /\ memory[l] \in Seq(Entry) /\ Len(memory[l]) = 1
  BY <1>2
<1>4. OrderTypeOK
  BY <1>1, <1>3 DEF OrderTypeOK, OrderThread
<1>5. CellsWritten /\ HandedOn /\ Told /\ AssertsHold
  BY <1>3 DEF CellsWritten, HandedOn, Told, AssertsHold, Unseen, OrderThread
<1> QED
  BY <1>4, <1>5 DEF OrderInv

\* What a store appends.
LEMMA Appended ==
    ASSUME OrderTypeOK, NEW l \in Location, NEW e \in Entry,
           memory' = [memory EXCEPT ![l] = Append(@, e)]
    PROVE  /\ memory' \in [Location -> Seq(Entry)]
           /\ \A k \in Location : k # l => memory'[k] = memory[k]
           /\ Len(memory[l]) \in Nat /\ Len(memory'[l]) = Len(memory[l]) + 1
           /\ \A i \in 1 .. Len(memory[l]) : memory'[l][i] = memory[l][i]
           /\ memory'[l][Len(memory[l]) + 1] = e
<1>1. memory[l] \in Seq(Entry)
  BY DEF OrderTypeOK
<1>2. memory'[l] = Append(memory[l], e) /\ \A k \in Location : k # l => memory'[k] = memory[k]
  BY DEF OrderTypeOK
<1>3. memory' \in [Location -> Seq(Entry)]
  BY <1>1 DEF OrderTypeOK
<1> QED
  BY <1>1, <1>2, <1>3

\* thread_1 writes a cell.
LEMMA StoreCellKeeps ==
    ASSUME OrderInv, NEW c \in Cell, StoreCell(c) PROVE OrderInv'
<1> DEFINE n == Len(memory[c]) + 1
           e == [value |-> Written, view |-> [Unseen EXCEPT ![c] = n]]
<1>1. /\ view[1][c] = 1 /\ UNCHANGED <<orderPc, failed>>
      /\ memory' = [memory EXCEPT ![c] = Append(@, e)]
      /\ view' = [view EXCEPT ![1] = Known(1, c, n)]
  BY DEF StoreCell, StoreRelaxed
<1>2. Len(memory[c]) = 1 /\ c \in Location /\ c # sync
  BY <1>1, Locations DEF OrderInv, CellsWritten
<1>3. e \in Entry
  BY <1>2 DEF Entry, View, Unseen, Written
<1>4. /\ memory' \in [Location -> Seq(Entry)] /\ Len(memory'[c]) = 2
      /\ \A k \in Location : k # c => memory'[k] = memory[k]
      /\ memory'[c][2] = e /\ e.value = Written
  <2>1. e.value = Written
    OBVIOUS
  <2> HIDE DEF e
  <2>2. /\ memory' \in [Location -> Seq(Entry)] /\ Len(memory'[c]) = 1 + 1
        /\ \A k \in Location : k # c => memory'[k] = memory[k]
        /\ memory'[c][1 + 1] = e
    BY <1>1, <1>2, <1>3, Appended DEF OrderInv
  <2> QED
    BY <2>1, <2>2
<1> HIDE DEF e
<1>5. /\ view' \in [OrderThread -> View] /\ \A t \in OrderThread : t # 1 => view'[t] = view[t]
      /\ view'[1][c] = 2 /\ \A k \in Location : k # c => view'[1][k] = view[1][k]
  <2>1. 1 \in OrderThread
    BY DEF OrderThread
  <2>2. Known(1, c, 2) \in View
    BY <1>2, <2>1, ViewTypes DEF OrderInv
  <2>3. view' = [view EXCEPT ![1] = Known(1, c, 2)]
    BY <1>1, <1>2
  <2> QED
    BY <1>2, <2>1, <2>2, <2>3 DEF OrderInv, OrderTypeOK, Known, View
<1>6. OrderTypeOK'
  BY <1>1, <1>4, <1>5 DEF OrderInv, OrderTypeOK
<1>7. CellsWritten'
  BY <1>4, <1>5, Locations DEF OrderInv, CellsWritten
<1>8. HandedOn'
  BY <1>2, <1>4, Locations DEF OrderInv, HandedOn
<1>9. Told' /\ AssertsHold'
  BY <1>1, <1>5 DEF OrderInv, Told, AssertsHold, OrderThread
<1> QED
  BY <1>6, <1>7, <1>8, <1>9 DEF OrderInv

\* A value is given to sync by someone who knows all cells.
LEMMA SyncKeeps ==
    ASSUME OrderInv, NEW t \in {1, 2}, NEW v \in Nat, NEW w \in View,
           \A c \in Cell : w[c] > 1,
           t = 1 => \A c \in Cell : w[c] = view[1][c],
           memory' = [memory EXCEPT ![sync] = Append(@, [value |-> v, view |-> w])],
           view' = [view EXCEPT ![t] = w], orderPc' = [orderPc EXCEPT ![t] = "done"],
           failed' = failed
    PROVE  OrderInv'
<1> DEFINE e == [value |-> v, view |-> w]
<1>1. e \in Entry /\ e.view = w
  BY DEF Entry
<1>2. memory' = [memory EXCEPT ![sync] = Append(@, e)]
  OBVIOUS
<1> HIDE DEF e
<1>3. /\ memory' \in [Location -> Seq(Entry)]
      /\ \A k \in Location : k # sync => memory'[k] = memory[k]
      /\ Len(memory[sync]) \in Nat /\ Len(memory'[sync]) = Len(memory[sync]) + 1
      /\ \A i \in 1 .. Len(memory[sync]) : memory'[sync][i] = memory[sync][i]
      /\ memory'[sync][Len(memory[sync]) + 1] = e
  BY <1>1, <1>2, Locations, Appended DEF OrderInv
<1>4. /\ view' \in [OrderThread -> View] /\ t \in OrderThread /\ t # 3
      /\ \A u \in OrderThread : u # t => view'[u] = view[u] /\ orderPc'[u] = orderPc[u]
      /\ view'[t] = w /\ orderPc' \in [OrderThread -> {"run", "assert", "done"}]
  BY DEF OrderInv, OrderTypeOK, OrderThread
<1>5. OrderTypeOK'
  BY <1>3, <1>4 DEF OrderTypeOK
<1>6. CellsWritten'
  <2>1. \A c \in Cell : view'[1][c] = view[1][c] /\ memory'[c] = memory[c]
    BY <1>3, <1>4, Locations DEF OrderThread
  <2> QED
    BY <2>1 DEF OrderInv, CellsWritten
<1>7. HandedOn'
  <2>1. ASSUME NEW i \in 2 .. Len(memory'[sync]), NEW c \in Cell
        PROVE  memory'[sync][i].view[c] > 1
    <3>1. CASE i = Len(memory[sync]) + 1
      BY <1>1, <1>3, <3>1
    <3>2. CASE i # Len(memory[sync]) + 1
      <4>1. i \in 1 .. Len(memory[sync]) /\ i \in 2 .. Len(memory[sync])
        BY <1>3, <3>2
      <4> QED
        BY <1>3, <4>1 DEF OrderInv, HandedOn
    <3> QED
      BY <3>1, <3>2
  <2>2. Len(memory'[sync]) > 0 /\ memory'[sync][1].value = 0
    <3>1. 1 \in 1 .. Len(memory[sync])
      BY <1>3 DEF OrderInv, HandedOn
    <3> QED
      BY <1>3, <3>1 DEF OrderInv, HandedOn
  <2> QED
    BY <2>1, <2>2 DEF HandedOn
<1>8. Told' /\ AssertsHold'
  BY <1>4 DEF OrderInv, Told, AssertsHold, OrderThread
<1> QED
  BY <1>5, <1>6, <1>7, <1>8 DEF OrderInv

LEMMA StoreSyncKeeps == ASSUME OrderInv, StoreSync PROVE OrderInv'
<1> DEFINE w == Known(1, sync, Len(memory[sync]) + 1)
<1>1. /\ \A c \in Cell : view[1][c] > 1
      /\ memory' = [memory EXCEPT ![sync] = Append(@, [value |-> 1, view |-> w])]
      /\ view' = [view EXCEPT ![1] = w] /\ orderPc' = [orderPc EXCEPT ![1] = "done"]
      /\ failed' = failed
  BY DEF StoreSync, StoreRelease, OrderGoto, Cell
<1>2. 1 \in OrderThread /\ Len(memory[sync]) + 1 \in Nat \ {0}
  BY Locations, Entries DEF OrderInv, OrderThread
<1>3. w \in View /\ \A c \in Cell : w[c] = view[1][c]
  <2>1. w \in View
    BY <1>2, Locations, ViewTypes DEF OrderInv
  <2>2. \A c \in Cell : w[c] = view[1][c]
    BY <1>2, Locations DEF OrderInv, OrderTypeOK, Known, View
  <2> QED
    BY <2>1, <2>2
<1> HIDE DEF w
<1> QED
  BY <1>1, <1>3, SyncKeeps

\* thread_2 finds the 1 of thread_1, and passes on what came with it.
LEMMA ExchangeKeeps == ASSUME OrderInv, ExchangeSync PROVE OrderInv'
<1>0. PICK last \in Nat : last = Len(memory[sync])
  BY Locations, Entries DEF OrderInv
<1> DEFINE known == Known(2, sync, last + 1)
           w == Newer(known, memory[sync][last].view)
<1>1. /\ memory[sync][last].value = 1
      /\ memory' = [memory EXCEPT ![sync] = Append(@, [value |-> 2, view |-> w])]
      /\ view' = [view EXCEPT ![2] = w] /\ orderPc' = [orderPc EXCEPT ![2] = "done"]
      /\ failed' = failed
  BY <1>0 DEF ExchangeSync, ExchangeAcqRel, OrderGoto
<1>2. 2 \in OrderThread /\ last > 0
  BY <1>0 DEF OrderInv, HandedOn, OrderThread
<1>3. last \in 2 .. Len(memory[sync]) /\ last \in 1 .. Len(memory[sync])
  <2>1. last # 1
    BY <1>1 DEF OrderInv, HandedOn
  <2>2. last \in 2 .. last /\ last \in 1 .. last
    BY <1>2, <2>1
  <2> QED
    BY <1>0, <2>2
<1>4. /\ memory[sync][last].view \in View
      /\ \A c \in Cell : memory[sync][last].view[c] > 1
  BY <1>3, Locations, Entries DEF OrderInv, HandedOn
<1>5. known \in View
  BY <1>2, Locations, ViewTypes DEF OrderInv
<1> HIDE DEF known
<1>6. w \in View
  BY <1>2, <1>4, <1>5, ViewTypes DEF OrderInv
<1>7. \A c \in Cell : w[c] > 1
  <2> SUFFICES ASSUME NEW c \in Cell PROVE w[c] > 1
    OBVIOUS
  <2>1. known[c] \in Nat /\ memory[sync][last].view[c] \in Nat /\ c \in Location
    BY <1>4, <1>5, Locations DEF View
  <2>2. w[c] = IF known[c] < memory[sync][last].view[c] THEN memory[sync][last].view[c] ELSE known[c]
    BY <2>1 DEF Newer
  <2> QED
    BY <1>4, <2>1, <2>2
<1> HIDE DEF w
<1>8. 2 \in {1, 2} /\ 2 \in Nat /\ 2 # 1
  OBVIOUS
<1> QED
  BY <1>1, <1>6, <1>7, <1>8, SyncKeeps

\* An acquire load takes over what came with the value.
LEMMA Acquired ==
    ASSUME OrderInv, NEW t \in {2, 3}, NEW i \in Readable(t, sync),
           LoadAcquire(t, sync, i)
    PROVE  /\ view' \in [OrderThread -> View]
           /\ \A u \in OrderThread : u # t => view'[u] = view[u]
           /\ \A c \in Cell : view'[t][c] >= view[t][c]
           /\ memory[sync][i].value # 0 => \A c \in Cell : view'[t][c] > 1
<1>1. t \in OrderThread /\ t # 1 /\ view[t] \in View
  BY DEF OrderInv, OrderTypeOK, OrderThread
<1>2. i \in 1 .. Len(memory[sync]) /\ i \in Nat \ {0}
  <2>1. view[t][sync] \in Nat \ {0} /\ Len(memory[sync]) \in Nat
    BY <1>1, Locations, Entries DEF View, OrderInv
  <2> QED
    BY <2>1 DEF Readable
<1>3. memory[sync][i].view \in View
  BY <1>2, Locations, Entries DEF OrderInv
<1> DEFINE known == Known(t, sync, i)
           w == Newer(known, memory[sync][i].view)
<1>4. known \in View /\ \A c \in Cell : known[c] = view[t][c]
  <2>1. known \in View
    BY <1>1, <1>2, Locations, ViewTypes DEF OrderInv
  <2>2. \A c \in Cell : known[c] = view[t][c]
    BY <1>1, Locations DEF Known, View
  <2> QED
    BY <2>1, <2>2
<1> HIDE DEF known
<1>5. w \in View
  BY <1>1, <1>3, <1>4, ViewTypes DEF OrderInv
<1>6. ASSUME NEW c \in Cell
      PROVE  /\ w[c] >= view[t][c]
             /\ memory[sync][i].value # 0 => w[c] > 1
  <2>1. known[c] \in Nat /\ memory[sync][i].view[c] \in Nat /\ c \in Location
    BY <1>3, <1>4, Locations DEF View
  <2>2. w[c] = IF known[c] < memory[sync][i].view[c] THEN memory[sync][i].view[c] ELSE known[c]
    BY <2>1 DEF Newer
  <2>3. memory[sync][i].value # 0 => memory[sync][i].view[c] > 1
    <3>1. memory[sync][i].value # 0 => i # 1
      BY DEF OrderInv, HandedOn
    <3>2. i # 1 => i \in 2 .. Len(memory[sync])
      BY <1>1, <1>2
    <3> QED
      BY <3>1, <3>2 DEF OrderInv, HandedOn
  <2> QED
    BY <1>4, <2>1, <2>2, <2>3
<1>7. view' = [view EXCEPT ![t] = w]
  BY DEF LoadAcquire, known
<1> HIDE DEF w
<1> QED
  BY <1>1, <1>5, <1>6, <1>7 DEF OrderInv, OrderTypeOK

\* A load of sync leaves the assertions to come true.
LEMMA LoadKeeps ==
    ASSUME OrderInv, UNCHANGED <<memory, failed>>,
           NEW t \in {2, 3}, NEW i \in Readable(t, sync), LoadAcquire(t, sync, i),
           orderPc' \in [OrderThread -> {"run", "assert", "done"}],
           orderPc'[3] = orderPc[3] \/ (t = 3 /\ memory[sync][i].value # 0)
    PROVE  OrderInv'
<1>1. /\ view' \in [OrderThread -> View]
      /\ \A u \in OrderThread : u # t => view'[u] = view[u]
      /\ \A c \in Cell : view'[t][c] >= view[t][c]
      /\ memory[sync][i].value # 0 => \A c \in Cell : view'[t][c] > 1
  BY Acquired
<1>2. OrderTypeOK' /\ AssertsHold'
  BY <1>1 DEF OrderInv, OrderTypeOK, AssertsHold
<1>3. CellsWritten' /\ HandedOn'
  BY <1>1 DEF OrderInv, CellsWritten, HandedOn, OrderThread
<1>4. Told'
  <2> SUFFICES ASSUME orderPc'[3] # "run", NEW c \in Cell PROVE view'[3][c] > 1
    BY DEF Told
  <2>1. CASE orderPc'[3] # orderPc[3]
    BY <1>1, <2>1
  <2>2. CASE orderPc'[3] = orderPc[3]
    <3>1. view[3][c] > 1 /\ view[3] \in View /\ view'[3] \in View /\ c \in Location
      BY <1>1, <2>2, Locations DEF OrderInv, OrderTypeOK, Told, OrderThread
    <3>2. view'[3][c] >= view[3][c]
      <4>1. CASE t = 3
        BY <1>1, <4>1
      <4>2. CASE t # 3
        <5>1. view'[3] = view[3]
          BY <1>1, <4>2 DEF OrderThread
        <5> QED
          BY <3>1, <5>1 DEF View
      <4> QED
        BY <4>1, <4>2
    <3> QED
      BY <3>1, <3>2 DEF View
  <2> QED
    BY <2>1, <2>2
<1> QED
  BY <1>2, <1>3, <1>4 DEF OrderInv

LEMMA ReadersKeep ==
    ASSUME OrderInv, ExchangeFails \/ AwaitSync PROVE OrderInv'
<1>1. CASE ExchangeFails
  <2>1. PICK i \in Readable(2, sync) : LoadAcquire(2, sync, i)
    BY <1>1 DEF ExchangeFails
  <2>2. UNCHANGED <<memory, failed, orderPc>>
    BY <1>1 DEF ExchangeFails
  <2> QED
    BY <2>1, <2>2, LoadKeeps DEF OrderInv, OrderTypeOK
<1>2. CASE AwaitSync
  <2>1. PICK i \in Readable(3, sync) :
           /\ LoadAcquire(3, sync, i)
           /\ orderPc' = IF memory[sync][i].value < 2 THEN orderPc
                         ELSE [orderPc EXCEPT ![3] = "assert"]
    BY <1>2 DEF AwaitSync
  <2>2. UNCHANGED <<memory, failed>>
    BY <1>2 DEF AwaitSync
  <2>3. orderPc' \in [OrderThread -> {"run", "assert", "done"}]
    BY <2>1 DEF OrderInv, OrderTypeOK
  <2>4. orderPc'[3] = orderPc[3] \/ memory[sync][i].value # 0
    BY <2>1
  <2> QED
    BY <2>1, <2>2, <2>3, <2>4, LoadKeeps
<1> QED
  BY <1>1, <1>2

\* thread_3 reads of each cell what thread_1 wrote.
LEMMA AssertKeeps == ASSUME OrderInv, AssertCells PROVE OrderInv'
<1>1. PICK read \in [1 .. Cells -> 1 .. 2] :
         /\ \A c \in 1 .. Cells : read[c] \in Readable(3, c)
         /\ view' = [view EXCEPT ![3] = [l \in Location |-> IF l = sync THEN @[l] ELSE read[l]]]
         /\ failed' = (\E c \in 1 .. Cells : memory[c][read[c]].value # Written)
  BY DEF AssertCells
<1>2. /\ memory' = memory /\ orderPc[3] = "assert"
      /\ orderPc' = [orderPc EXCEPT ![3] = "done"]
  BY DEF AssertCells, OrderGoto
<1>3. ASSUME NEW c \in Cell
      PROVE  read[c] = 2 /\ memory[c][read[c]].value = Written
  <2>1. view[3][c] > 1 /\ view[3][c] \in Nat
    BY <1>2, <1>3, Locations DEF OrderInv, OrderTypeOK, Told, OrderThread, View
  <2>2. read[c] \in view[3][c] .. Len(memory[c]) /\ read[c] \in 1 .. 2
    BY <1>1 DEF Readable, Cell
  <2>3. PICK n \in Nat : n = Len(memory[c])
    BY Locations, Entries DEF OrderInv
  <2>4. PICK r \in {1, 2} : r = read[c] /\ view[3][c] <= r /\ r <= n
    BY <2>1, <2>2, <2>3
  <2>5. r = 2 /\ n # 1
    <3> DEFINE v == view[3][c]
    <3>1. v > 1 /\ v \in Nat /\ v <= r /\ r <= n
      BY <2>1, <2>4
    <3> HIDE DEF v
    <3> QED
      BY <3>1
  <2>6. n = 2 /\ memory[c][2].value = Written
    BY <2>3, <2>5 DEF OrderInv, CellsWritten
  <2> QED
    BY <2>4, <2>5, <2>6
<1>4. AssertsHold'
  BY <1>1, <1>3 DEF AssertsHold, Cell
<1>5. /\ view' \in [OrderThread -> View] /\ \A u \in OrderThread : u # 3 => view'[u] = view[u]
      /\ \A c \in Cell : view'[3][c] = 2
  <2> DEFINE w == [l \in Location |-> IF l = sync THEN view[3][l] ELSE read[l]]
  <2>1. view' = [view EXCEPT ![3] = w] /\ 3 \in OrderThread
    BY <1>1 DEF OrderThread
  <2>2. w \in View /\ \A c \in Cell : w[c] = 2
    BY <1>3, <2>1, Locations DEF OrderInv, OrderTypeOK, View
  <2> HIDE DEF w
  <2> QED
    BY <2>1, <2>2 DEF OrderInv, OrderTypeOK
<1>6. OrderTypeOK'
  BY <1>2, <1>5 DEF OrderInv, OrderTypeOK
<1>7. CellsWritten' /\ HandedOn' /\ Told'
  BY <1>2, <1>5 DEF OrderInv, CellsWritten, HandedOn, Told, OrderThread
<1> QED
  BY <1>4, <1>6, <1>7 DEF OrderInv

LEMMA OrderKeeps == OrderInv /\ [OrderNext]_orderVars => OrderInv'
<1> SUFFICES ASSUME OrderInv, [OrderNext]_orderVars PROVE OrderInv'
  OBVIOUS
<1>1. CASE UNCHANGED orderVars
  BY <1>1 DEF orderVars, OrderInv, OrderTypeOK, CellsWritten, HandedOn, Told, AssertsHold
<1>2. CASE OrderNext /\ ~UNCHANGED orderVars
  BY <1>2, StoreCellKeeps, StoreSyncKeeps, ExchangeKeeps, ReadersKeep, AssertKeeps
     DEF OrderNext, OrderDone, Cell
<1> QED
  BY <1>1, <1>2

\* The assertions of thread_3 hold for any number of cells, whatever the three
\* threads read of what C++ lets them read (multi_thread/mem_order_test.cpp:46).
THEOREM AssertionsHold == OrderSpec => []AssertsHold
<1>1. OrderInv => AssertsHold
  BY DEF OrderInv
<1> QED
  BY <1>1, OrderInitially, OrderKeeps, PTL DEF OrderSpec
------------------------------------------------------------------------------
(* The LRU map.  The list is in the order of the calls of Set, and as long *)
(* as the clock was never set back it is in the order of the time stamps.  *)

LruNode == [key : LruKey, node : Nat]

Stamp(k) == records_[k].timestamp_

LruTypeOK ==
    /\ order_ \in Seq(LruNode)
    /\ DOMAIN records_ \subseteq LruKey
    /\ \A k \in DOMAIN records_ : Stamp(k) \in Second
    /\ clock \in Second /\ steady \in BOOLEAN
    /\ lastSet \in [LruKey -> Nat] /\ setCount \in Nat

\* The list is in the order of the calls of Set that made its nodes.
InOrder ==
    /\ \A i, j \in 1 .. Len(order_) : i < j => order_[i].node < order_[j].node
    /\ \A i \in 1 .. Len(order_) : order_[i].node <= setCount

\* A key that is held has one node, and its record knows it.
OneNodeEach ==
    /\ \A i \in 1 .. Len(order_) :
           /\ Held(KeyAt(i))
           /\ records_[KeyAt(i)].order_ptr_ = order_[i].node
           /\ lastSet[KeyAt(i)] = order_[i].node
    /\ \A k \in DOMAIN records_ : \E i \in 1 .. Len(order_) : KeyAt(i) = k

\* As long as the clock was never set back, the list is in its order too.
StampsGrow ==
    steady => /\ \A i, j \in 1 .. Len(order_) : i < j => Stamp(KeyAt(i)) <= Stamp(KeyAt(j))
              /\ \A k \in DOMAIN records_ : Stamp(k) <= clock

LruInv == LruTypeOK /\ InOrder /\ OneNodeEach /\ StampsGrow
------------------------------------------------------------------------------
LEMMA LruInitially == LruInit => LruInv
<1> SUFFICES ASSUME LruInit PROVE LruInv
  OBVIOUS
<1>1. /\ order_ \in Seq(LruNode) /\ Len(order_) = 0 /\ DOMAIN records_ = {}
      /\ lastSet \in [LruKey -> Nat] /\ setCount \in Nat /\ clock \in Second /\ steady \in BOOLEAN
  BY LruAssumption DEF LruInit, Second
<1> QED
  BY <1>1 DEF LruInv, LruTypeOK, InOrder, OneNodeEach, StampsGrow

LEMMA LruNodes ==
    ASSUME LruTypeOK, NEW i \in 1 .. Len(order_)
    PROVE  /\ Len(order_) \in Nat /\ order_[i] \in LruNode
           /\ KeyAt(i) \in LruKey /\ order_[i].node \in Nat
<1>1. order_[i] \in LruNode
  BY DEF LruTypeOK
<1> QED
  BY <1>1 DEF LruTypeOK, LruNode, KeyAt

LEMMA KeysDiffer ==
    ASSUME LruInv, NEW i \in 1 .. Len(order_), NEW j \in 1 .. Len(order_), i < j
    PROVE  KeyAt(i) # KeyAt(j) /\ lastSet[KeyAt(i)] < lastSet[KeyAt(j)]
<1>1. order_[i].node < order_[j].node /\ order_[i].node \in Nat /\ order_[j].node \in Nat
  BY LruNodes DEF LruInv, InOrder
<1>2. lastSet[KeyAt(i)] = order_[i].node /\ lastSet[KeyAt(j)] = order_[j].node
  BY DEF LruInv, OneNodeEach
<1> QED
  BY <1>1, <1>2

\* What is left of a sequence without one of its elements.
LEMMA RemovedAt ==
    ASSUME NEW S, NEW s \in Seq(S), NEW p \in 1 .. Len(s)
    PROVE  /\ RemoveAt(s, p) \in Seq(S) /\ Len(RemoveAt(s, p)) = Len(s) - 1
           /\ \A i \in 1 .. Len(s) - 1 :
                  RemoveAt(s, p)[i] = IF i < p THEN s[i] ELSE s[i + 1]
<1> DEFINE a == SubSeq(s, 1, p - 1)
           b == SubSeq(s, p + 1, Len(s))
<1>1. Len(s) \in Nat /\ p \in Nat
  OBVIOUS
<1>2. /\ a \in Seq(S) /\ Len(a) = p - 1
      /\ \A i \in 1 .. p - 1 : a[i] = s[i]
  <2>1. /\ a \in Seq(S) /\ Len(a) = IF 1 <= p - 1 THEN p - 1 - 1 + 1 ELSE 0
        /\ \A i \in 1 .. p - 1 - 1 + 1 : a[i] = s[1 + i - 1]
    BY <1>1, SubSeqProperties
  <2> QED
    BY <1>1, <2>1
<1>3. /\ b \in Seq(S) /\ Len(b) = Len(s) - p
      /\ \A i \in 1 .. Len(s) - p : b[i] = s[p + i]
  <2>1. /\ b \in Seq(S) /\ Len(b) = IF p + 1 <= Len(s) THEN Len(s) - (p + 1) + 1 ELSE 0
        /\ \A i \in 1 .. Len(s) - (p + 1) + 1 : b[i] = s[(p + 1) + i - 1]
    BY <1>1, SubSeqProperties
  <2> QED
    BY <1>1, <2>1
<1> HIDE DEF a, b
<1>4. /\ a \o b \in Seq(S) /\ Len(a \o b) = Len(a) + Len(b)
      /\ \A i \in 1 .. Len(a) + Len(b) : (a \o b)[i] = IF i <= Len(a) THEN a[i] ELSE b[i - Len(a)]
  BY <1>2, <1>3, ConcatProperties
<1>5. RemoveAt(s, p) = a \o b
  BY DEF RemoveAt, a, b
<1>6. ASSUME NEW i \in 1 .. Len(s) - 1
      PROVE  RemoveAt(s, p)[i] = IF i < p THEN s[i] ELSE s[i + 1]
  <2>1. CASE i < p
    BY <1>1, <1>2, <1>3, <1>4, <1>5, <2>1
  <2>2. CASE i >= p
    <3>1. i - (p - 1) \in 1 .. Len(s) - p /\ p + (i - (p - 1)) = i + 1
      BY <1>1, <2>2
    <3>2. (a \o b)[i] = b[i - (p - 1)]
      BY <1>1, <1>2, <1>3, <1>4, <2>2
    <3>3. b[i - (p - 1)] = s[p + (i - (p - 1))]
      BY <1>3, <3>1
    <3> QED
      BY <1>1, <1>5, <2>2, <3>1, <3>2, <3>3
  <2> QED
    BY <1>1, <2>1, <2>2
<1>7. Len(a) + Len(b) = Len(s) - 1
  BY <1>1, <1>2, <1>3
<1> QED
  BY <1>4, <1>5, <1>6, <1>7

\* Retiring a prefix of the list leaves the rest of it and its records.
LEMMA RetireKeeps ==
    ASSUME LruInv, NEW n \in 0 .. Len(order_), Retire(n)
    PROVE  /\ LruInv'
           /\ DOMAIN records_' = {KeyAt(i) : i \in n + 1 .. Len(order_)}
           /\ DOMAIN records_ \ DOMAIN records_' = {KeyAt(i) : i \in 1 .. n}
<1> DEFINE gone == {KeyAt(i) : i \in 1 .. n}
           m == Len(order_)
<1>1. m \in Nat /\ n \in Nat
  BY DEF LruInv, LruTypeOK
<1>2. /\ order_' \in Seq(LruNode) /\ Len(order_') = m - n
      /\ \A i \in 1 .. m - n : order_'[i] = order_[n + i]
  <2>1. /\ order_' \in Seq(LruNode) /\ Len(order_') = IF n + 1 <= m THEN m - (n + 1) + 1 ELSE 0
        /\ \A i \in 1 .. m - (n + 1) + 1 : order_'[i] = order_[(n + 1) + i - 1]
    BY <1>1, SubSeqProperties DEF Retire, LruInv, LruTypeOK
  <2> QED
    BY <1>1, <2>1
<1>3. /\ DOMAIN records_' = DOMAIN records_ \ gone
      /\ \A k \in DOMAIN records_' : records_'[k] = records_[k]
      /\ UNCHANGED <<clock, steady, lastSet, setCount>>
  BY DEF Retire, Without
<1>4. \A i \in 1 .. m, j \in 1 .. m : KeyAt(i) = KeyAt(j) => i = j
  BY <1>1, KeysDiffer
<1>5. DOMAIN records_ = {KeyAt(i) : i \in 1 .. m}
  BY DEF LruInv, OneNodeEach, Held
<1>6. DOMAIN records_' = {KeyAt(i) : i \in n + 1 .. m}
  <2>1. \A i \in n + 1 .. m : KeyAt(i) \notin gone
    BY <1>1, <1>4
  <2>2. \A k \in DOMAIN records_ \ gone : \E i \in n + 1 .. m : KeyAt(i) = k
    BY <1>1, <1>5
  <2>3. \A i \in n + 1 .. m : KeyAt(i) \in DOMAIN records_
    BY <1>1, <1>5
  <2> HIDE DEF m, gone
  <2> QED
    BY <1>3, <2>1, <2>2, <2>3
<1>7. DOMAIN records_ \ DOMAIN records_' = gone
  <2>1. gone \subseteq DOMAIN records_
    BY <1>1, <1>5
  <2> QED
    BY <1>3, <2>1
<1>8. ASSUME NEW i \in 1 .. m - n
      PROVE  /\ n + i \in 1 .. m /\ n + i \in n + 1 .. m
             /\ KeyAt(i)' = KeyAt(n + i) /\ order_'[i].node = order_[n + i].node
             /\ KeyAt(i)' \in DOMAIN records_'
  <2>1. n + i \in 1 .. m /\ n + i \in n + 1 .. m
    BY <1>1
  <2>2. KeyAt(i)' = KeyAt(n + i) /\ order_'[i].node = order_[n + i].node
    BY <1>2 DEF KeyAt
  <2> QED
    BY <1>6, <2>1, <2>2
<1> HIDE DEF m
<1>9. LruTypeOK'
  BY <1>2, <1>3 DEF LruInv, LruTypeOK, Stamp
<1>10. InOrder'
  <2>1. \A i, j \in 1 .. m - n : i < j => order_'[i].node < order_'[j].node
    <3> TAKE i, j \in 1 .. m - n
    <3> HAVE i < j
    <3>1. n + i < n + j
      BY <1>1
    <3> QED
      BY <1>8, <3>1 DEF LruInv, InOrder, m
  <2>2. \A i \in 1 .. m - n : order_'[i].node <= setCount
    BY <1>8 DEF LruInv, InOrder, m
  <2> QED
    BY <1>2, <1>3, <2>1, <2>2 DEF InOrder
<1>11. OneNodeEach'
  <2>1. \A i \in 1 .. m - n : /\ KeyAt(i)' \in DOMAIN records_'
                              /\ records_'[KeyAt(i)'].order_ptr_ = order_'[i].node
                              /\ lastSet'[KeyAt(i)'] = order_'[i].node
    BY <1>3, <1>8 DEF LruInv, OneNodeEach, m
  <2>2. ASSUME NEW k \in DOMAIN records_' PROVE \E i \in 1 .. m - n : KeyAt(i)' = k
    <3>1. PICK i \in n + 1 .. m : KeyAt(i) = k
      BY <1>6 DEF m
    <3>2. i - n \in 1 .. m - n /\ n + (i - n) = i
      BY <1>1
    <3> QED
      BY <1>8, <3>1, <3>2
  <2> QED
    BY <1>2, <2>1, <2>2 DEF OneNodeEach, Held
<1>12. StampsGrow'
  <2> SUFFICES ASSUME steady
               PROVE  /\ \A i, j \in 1 .. m - n : i < j => Stamp(KeyAt(i))' <= Stamp(KeyAt(j))'
                      /\ \A k \in DOMAIN records_' : Stamp(k)' <= clock
    BY <1>2, <1>3 DEF StampsGrow
  <2>1. \A k \in DOMAIN records_' : Stamp(k)' = Stamp(k) /\ k \in DOMAIN records_
    BY <1>3 DEF Stamp
  <2>2. \A i \in 1 .. m - n : Stamp(KeyAt(i))' = Stamp(KeyAt(n + i))
    BY <1>3, <1>8 DEF Stamp
  <2>3. ASSUME NEW i \in 1 .. m - n, NEW j \in 1 .. m - n, i < j
        PROVE  Stamp(KeyAt(i))' <= Stamp(KeyAt(j))'
    <3>1. n + i < n + j /\ n + i \in 1 .. m /\ n + j \in 1 .. m
      BY <1>1, <1>8, <2>3
    <3> QED
      BY <2>2, <3>1 DEF LruInv, StampsGrow, m
  <2> QED
    BY <2>1, <2>3 DEF LruInv, StampsGrow
<1> QED
  BY <1>6, <1>7, <1>9, <1>10, <1>11, <1>12 DEF LruInv, m

\* Setting a key puts a new node behind what is left of the list.
LEMMA SetKeeps == ASSUME LruInv, NEW k \in LruKey, Set(k) PROVE LruInv'
<1> DEFINE m == Len(order_)
           new == [key |-> k, node |-> setCount + 1]
           erased == IF Held(k) THEN RemoveAt(order_, PlaceOf(records_[k].order_ptr_)) ELSE order_
           from(i) == IF Held(k) /\ i >= PlaceOf(records_[k].order_ptr_) THEN i + 1 ELSE i
           left == IF Held(k) THEN m - 1 ELSE m
<1>1. /\ m \in Nat /\ setCount \in Nat /\ order_ \in Seq(LruNode) /\ new \in LruNode
      /\ new.key = k /\ new.node = setCount + 1
  BY DEF LruInv, LruTypeOK, LruNode
<1>2. /\ order_' = Append(erased, new) /\ setCount' = setCount + 1
      /\ lastSet' = [lastSet EXCEPT ![k] = setCount + 1]
      /\ UNCHANGED <<clock, steady>>
  BY DEF Set
<1>3. /\ DOMAIN records_' = DOMAIN records_ \cup {k}
      /\ records_'[k] = [order_ptr_ |-> setCount + 1, timestamp_ |-> clock]
      /\ \A h \in DOMAIN records_ \ {k} : records_'[h] = records_[h]
  BY DEF Set
<1>4. Held(k) => LET p == PlaceOf(records_[k].order_ptr_) IN p \in 1 .. m /\ KeyAt(p) = k
  <2> SUFFICES ASSUME Held(k)
               PROVE  LET p == PlaceOf(records_[k].order_ptr_) IN p \in 1 .. m /\ KeyAt(p) = k
    OBVIOUS
  <2>1. PICK i \in 1 .. m : KeyAt(i) = k
    BY DEF LruInv, OneNodeEach, Held
  <2>2. order_[i].node = records_[k].order_ptr_ /\ DOMAIN order_ = 1 .. m
    BY <1>1, <2>1 DEF LruInv, OneNodeEach
  <2>3. /\ PlaceOf(records_[k].order_ptr_) \in 1 .. m
        /\ order_[PlaceOf(records_[k].order_ptr_)].node = records_[k].order_ptr_
    BY <2>2 DEF PlaceOf
  <2>4. \A j \in 1 .. m : order_[j].node = order_[i].node => j = i
    <3> SUFFICES ASSUME NEW j \in 1 .. m, order_[j].node = order_[i].node PROVE j = i
      OBVIOUS
    <3>1. order_[j].node \in Nat /\ order_[i].node \in Nat
      BY LruNodes DEF LruInv
    <3>2. ~(i < j) /\ ~(j < i)
      BY <3>1 DEF LruInv, InOrder
    <3> QED
      BY <1>1, <3>2
  <2> QED
    BY <2>1, <2>2, <2>3, <2>4
<1>5. /\ erased \in Seq(LruNode) /\ Len(erased) = left /\ left \in Nat
      /\ \A i \in 1 .. left : erased[i] = order_[from(i)] /\ from(i) \in 1 .. m /\ KeyAt(from(i)) # k
      /\ \A i, j \in 1 .. left : i < j => from(i) < from(j)
      /\ \A j \in 1 .. m : KeyAt(j) # k => \E i \in 1 .. left : from(i) = j
  <2>1. CASE ~Held(k)
    <3>1. \A i \in 1 .. m : KeyAt(i) # k
      BY <2>1 DEF LruInv, OneNodeEach
    <3> QED
      BY <1>1, <2>1, <3>1
  <2>2. CASE Held(k)
    <3> DEFINE p == PlaceOf(records_[k].order_ptr_)
    <3>1. p \in 1 .. m /\ KeyAt(p) = k
      BY <1>4, <2>2
    <3>2. \A j \in 1 .. m : j # p => KeyAt(j) # k
      BY <1>1, <3>1, KeysDiffer
    <3> HIDE DEF p
    <3>3. /\ RemoveAt(order_, p) \in Seq(LruNode) /\ Len(RemoveAt(order_, p)) = m - 1
          /\ \A i \in 1 .. m - 1 : RemoveAt(order_, p)[i] = IF i < p THEN order_[i] ELSE order_[i + 1]
      BY <1>1, <3>1, RemovedAt
    <3>4. /\ left = m - 1 /\ erased = RemoveAt(order_, p)
          /\ \A i \in 1 .. m - 1 : from(i) = IF i >= p THEN i + 1 ELSE i
      BY <2>2 DEF p
    <3> HIDE DEF left, erased, from, m
    <3>5. \A i \in 1 .. left : /\ from(i) \in 1 .. m /\ from(i) # p
                               /\ erased[i] = order_[from(i)]
      BY <1>1, <3>1, <3>3, <3>4
    <3>6. \A i, j \in 1 .. left : i < j => from(i) < from(j)
      BY <1>1, <3>1, <3>4
    <3>7. ASSUME NEW j \in 1 .. m, j # p PROVE \E i \in 1 .. left : from(i) = j
      <4>1. CASE j < p
        <5>1. j \in 1 .. left /\ from(j) = j
          BY <1>1, <3>1, <3>4, <4>1
        <5> QED
          BY <5>1
      <4>2. CASE j > p
        <5>1. j - 1 \in 1 .. left /\ from(j - 1) = j
          BY <1>1, <3>1, <3>4, <4>2
        <5> QED
          BY <5>1
      <4> QED
        BY <1>1, <3>1, <3>7, <4>1, <4>2
    <3>8. erased \in Seq(LruNode) /\ Len(erased) = left /\ left \in Nat
      BY <1>1, <3>1, <3>3, <3>4
    <3>9. \A j \in 1 .. m : KeyAt(j) # k => \E i \in 1 .. left : from(i) = j
      BY <3>1, <3>7
    <3> QED
      BY <3>2, <3>5, <3>6, <3>8, <3>9
  <2> QED
    BY <2>1, <2>2
<1> HIDE DEF erased, from, left, new
<1>6. /\ order_' \in Seq(LruNode) /\ Len(order_') = left + 1
      /\ \A i \in 1 .. left : order_'[i] = order_[from(i)]
      /\ order_'[left + 1] = new
  BY <1>1, <1>2, <1>5
<1>7. /\ \A i \in 1 .. left : KeyAt(i)' = KeyAt(from(i)) /\ KeyAt(i)' # k
      /\ \A i \in 1 .. left + 1 : i \in 1 .. left \/ (i = left + 1 /\ KeyAt(i)' = k)
  <2>1. \A i \in 1 .. left : KeyAt(i)' = KeyAt(from(i))
    BY <1>6 DEF KeyAt
  <2>2. \A i \in 1 .. left : KeyAt(from(i)) # k
    BY <1>5
  <2>3. ASSUME NEW i \in 1 .. left + 1, i = left + 1 PROVE KeyAt(i)' = k
    BY <1>1, <1>6, <2>3 DEF KeyAt
  <2>4. \A i \in 1 .. left + 1 : i \in 1 .. left \/ i = left + 1
    BY <1>5
  <2> QED
    BY <2>1, <2>2, <2>3, <2>4
<1> HIDE DEF m
<1>8. LruTypeOK'
  <2>1. \A h \in DOMAIN records_' : Stamp(h)' \in Second
    BY <1>3 DEF LruInv, LruTypeOK, Stamp
  <2> QED
    BY <1>1, <1>2, <1>3, <1>6, <2>1 DEF LruInv, LruTypeOK
<1>9. InOrder'
  <2>1. \A i \in 1 .. left : order_'[i].node <= setCount /\ order_'[i].node \in Nat
    BY <1>5, <1>6, LruNodes DEF LruInv, InOrder, m
  <2>2. ASSUME NEW i \in 1 .. left + 1, NEW j \in 1 .. left + 1, i < j
        PROVE  order_'[i].node < order_'[j].node
    <3>1. i \in 1 .. left
      BY <1>5, <2>2
    <3>2. CASE j = left + 1
      BY <1>1, <1>6, <2>1, <3>1, <3>2
    <3>3. CASE j \in 1 .. left
      <4>1. from(i) \in 1 .. m /\ from(j) \in 1 .. m /\ from(i) < from(j)
        BY <1>5, <2>2, <3>1, <3>3
      <4> QED
        BY <1>6, <3>1, <3>3, <4>1 DEF LruInv, InOrder, m
    <3> QED
      BY <1>7, <3>2, <3>3
  <2>3. \A i \in 1 .. left + 1 : order_'[i].node <= setCount + 1
    BY <1>1, <1>6, <1>7, <2>1
  <2> QED
    BY <1>2, <1>6, <2>2, <2>3 DEF InOrder
<1>10. OneNodeEach'
  <2>1. ASSUME NEW i \in 1 .. left
        PROVE  /\ KeyAt(i)' \in DOMAIN records_'
               /\ records_'[KeyAt(i)'].order_ptr_ = order_'[i].node
               /\ lastSet'[KeyAt(i)'] = order_'[i].node
    <3>1. /\ KeyAt(from(i)) \in DOMAIN records_ \ {k} /\ KeyAt(from(i)) \in LruKey
          /\ records_[KeyAt(from(i))].order_ptr_ = order_[from(i)].node
          /\ lastSet[KeyAt(from(i))] = order_[from(i)].node
      BY <1>5, LruNodes DEF LruInv, OneNodeEach, Held, m
    <3> QED
      BY <1>2, <1>3, <1>6, <1>7, <3>1 DEF LruInv, LruTypeOK
  <2>2. /\ k \in DOMAIN records_' /\ records_'[k].order_ptr_ = setCount + 1
        /\ lastSet'[k] = setCount + 1 /\ order_'[left + 1].node = setCount + 1
    BY <1>1, <1>2, <1>3, <1>6 DEF LruInv, LruTypeOK
  <2>3. ASSUME NEW h \in DOMAIN records_' PROVE \E i \in 1 .. left + 1 : KeyAt(i)' = h
    <3>1. CASE h = k
      <4>1. left + 1 \in 1 .. left + 1 /\ left + 1 \notin 1 .. left
        BY <1>5
      <4> QED
        BY <1>7, <3>1, <4>1
    <3>2. CASE h # k
      <4>1. PICK j \in 1 .. m : KeyAt(j) = h
        BY <1>3, <3>2 DEF LruInv, OneNodeEach, m
      <4>2. PICK i \in 1 .. left : from(i) = j
        BY <1>5, <3>2, <4>1
      <4>3. i \in 1 .. left + 1
        BY <1>5
      <4> QED
        BY <1>7, <4>1, <4>2, <4>3
    <3> QED
      BY <3>1, <3>2
  <2> QED
    BY <1>6, <1>7, <2>1, <2>2, <2>3 DEF OneNodeEach, Held
<1>11. StampsGrow'
  <2> SUFFICES ASSUME steady
               PROVE  /\ \A i, j \in 1 .. left + 1 : i < j => Stamp(KeyAt(i))' <= Stamp(KeyAt(j))'
                      /\ \A h \in DOMAIN records_' : Stamp(h)' <= clock
    BY <1>2, <1>6 DEF StampsGrow
  <2>1. clock \in Int /\ clock <= clock
    BY DEF LruInv, LruTypeOK, Second
  <2>2. ASSUME NEW h \in DOMAIN records_' PROVE Stamp(h)' <= clock
    BY <1>3, <2>1, <2>2 DEF LruInv, StampsGrow, Stamp
  <2>3. ASSUME NEW i \in 1 .. left
        PROVE  Stamp(KeyAt(i))' = Stamp(KeyAt(from(i))) /\ KeyAt(i)' \in DOMAIN records_'
    <3>1. KeyAt(from(i)) \in DOMAIN records_ \ {k}
      BY <1>5 DEF LruInv, OneNodeEach, Held, m
    <3> QED
      BY <1>3, <1>7, <3>1 DEF Stamp
  <2>4. ASSUME NEW i \in 1 .. left + 1, NEW j \in 1 .. left + 1, i < j
        PROVE  Stamp(KeyAt(i))' <= Stamp(KeyAt(j))'
    <3>1. i \in 1 .. left
      BY <1>5, <2>4
    <3>2. CASE j = left + 1
      <4>1. Stamp(KeyAt(j))' = clock
        <5>1. KeyAt(j)' = k /\ records_'[k].timestamp_ = clock
          BY <1>3, <1>5, <1>7, <3>2
        <5> QED
          BY <5>1 DEF Stamp
      <4>2. Stamp(KeyAt(i))' <= clock
        BY <2>2, <2>3, <3>1 DEF Stamp
      <4> QED
        BY <4>1, <4>2
    <3>3. CASE j \in 1 .. left
      <4>1. from(i) \in 1 .. m /\ from(j) \in 1 .. m /\ from(i) < from(j)
        BY <1>5, <2>4, <3>1, <3>3
      <4> QED
        BY <2>3, <3>1, <3>3, <4>1 DEF LruInv, StampsGrow, m
    <3> QED
      BY <1>7, <3>2, <3>3
  <2> QED
    BY <2>2, <2>4
<1> QED
  BY <1>8, <1>9, <1>10, <1>11 DEF LruInv

LEMMA TickKeeps == ASSUME LruInv, Tick PROVE LruInv'
<1>1. /\ UNCHANGED <<order_, records_, lastSet, setCount>> /\ clock' \in Second
      /\ steady' \in BOOLEAN /\ (steady' => steady /\ clock < clock')
  BY DEF Tick
<1>2. clock \in Int /\ clock' \in Int /\ \A k \in DOMAIN records_ : Stamp(k) \in Int
  BY <1>1 DEF LruInv, LruTypeOK, Second
<1>3. LruTypeOK' /\ InOrder' /\ OneNodeEach'
  BY <1>1 DEF LruInv, LruTypeOK, InOrder, OneNodeEach, Held, KeyAt, Stamp
<1>4. StampsGrow'
  BY <1>1, <1>2 DEF LruInv, StampsGrow, KeyAt, Stamp
<1> QED
  BY <1>3, <1>4 DEF LruInv

\* How many nodes RetireByTime and RetireNum take from the list.
LEMMA HowMany ==
    ASSUME LruInv, (\E time \in Second : RetireByTime(time)) \/ (\E num \in -1 .. 2 : RetireNum(num))
    PROVE  \E n \in 0 .. Len(order_) : Retire(n)
<1>1. Len(order_) \in Nat
  BY DEF LruInv, LruTypeOK
<1>2. ASSUME NEW num \in -1 .. 2, RetireNum(num) PROVE \E n \in 0 .. Len(order_) : Retire(n)
  <2>1. (IF num < 0 \/ num > Len(order_) THEN Len(order_) ELSE num) \in 0 .. Len(order_)
    BY <1>1
  <2> QED
    BY <1>2, <2>1 DEF RetireNum
<1> QED
  BY <1>2 DEF RetireByTime

LEMMA LruKeeps == LruInv /\ [LruNext]_lruVars => LruInv'
<1> SUFFICES ASSUME LruInv, [LruNext]_lruVars PROVE LruInv'
  OBVIOUS
<1>1. CASE \E k \in LruKey : Set(k)
  BY <1>1, SetKeeps
<1>2. CASE (\E time \in Second : RetireByTime(time)) \/ (\E num \in -1 .. 2 : RetireNum(num))
  BY <1>2, HowMany, RetireKeeps
<1>3. CASE Tick
  BY <1>3, TickKeeps
<1>4. CASE UNCHANGED lruVars
  BY <1>4 DEF lruVars, LruInv, LruTypeOK, InOrder, OneNodeEach, StampsGrow, Held, KeyAt, Stamp
<1> QED
  BY <1>1, <1>2, <1>3, <1>4 DEF LruNext

\* What is retired was set before what is kept, for any number of keys, calls
\* and seconds (common/lru_hash_map.h:64 and :74).
THEOREM OldestRetired == LruSpec => RetiresOldest
<1> DEFINE Before == \A gone \in DOMAIN records_ \ DOMAIN records_', kept \in DOMAIN records_' :
                        lastSet[gone] < lastSet[kept]
           ByTime == \A time \in Second :
                        steady /\ RetireByTime(time) =>
                            DOMAIN records_' = {k \in DOMAIN records_ : records_[k].timestamp_ > time}
<1>1. ASSUME LruInv, [LruNext]_lruVars PROVE Before
  <2>1. CASE (\E time \in Second : RetireByTime(time)) \/ (\E num \in -1 .. 2 : RetireNum(num))
    <3>1. PICK n \in 0 .. Len(order_) : Retire(n)
      BY <1>1, <2>1, HowMany
    <3>2. /\ DOMAIN records_' = {KeyAt(i) : i \in n + 1 .. Len(order_)}
          /\ DOMAIN records_ \ DOMAIN records_' = {KeyAt(i) : i \in 1 .. n}
      BY <1>1, <3>1, RetireKeeps
    <3>3. Len(order_) \in Nat
      BY <1>1 DEF LruInv, LruTypeOK
    <3>4. \A i \in 1 .. n, j \in n + 1 .. Len(order_) :
             i \in 1 .. Len(order_) /\ j \in 1 .. Len(order_) /\ i < j
      BY <3>3
    <3>5. \A i \in 1 .. n, j \in n + 1 .. Len(order_) : lastSet[KeyAt(i)] < lastSet[KeyAt(j)]
      BY <1>1, <3>4, KeysDiffer
    <3> QED
      BY <3>2, <3>5
  <2>2. CASE (\E k \in LruKey : Set(k)) \/ Tick \/ UNCHANGED lruVars
    <3>1. DOMAIN records_ \subseteq DOMAIN records_'
      BY <2>2 DEF Set, Tick, lruVars
    <3> QED
      BY <3>1
  <2> QED
    BY <1>1, <2>1, <2>2 DEF LruNext
<1>2. ASSUME LruInv PROVE ByTime
  <2> SUFFICES ASSUME NEW time \in Second, steady, RetireByTime(time)
               PROVE  DOMAIN records_' = {k \in DOMAIN records_ : Stamp(k) > time}
    BY DEF Stamp
  <2>0. Len(order_) \in Nat
    BY <1>2 DEF LruInv, LruTypeOK
  <2>1. PICK n \in 0 .. Len(order_) :
           /\ \A i \in 1 .. n : Stamp(KeyAt(i)) <= time
           /\ n < Len(order_) => time < Stamp(KeyAt(n + 1))
           /\ Retire(n)
    BY DEF RetireByTime, Stamp
  <2>2. /\ DOMAIN records_' = {KeyAt(i) : i \in n + 1 .. Len(order_)}
        /\ DOMAIN records_ \ DOMAIN records_' = {KeyAt(i) : i \in 1 .. n}
    BY <1>2, <2>1, RetireKeeps
  <2>3. \A i \in 1 .. Len(order_) : KeyAt(i) \in DOMAIN records_ /\ Stamp(KeyAt(i)) \in Int
    BY <1>2 DEF LruInv, LruTypeOK, OneNodeEach, Held, Second
  <2>4. time \in Int
    BY DEF Second
  <2>5. ASSUME NEW j \in n + 1 .. Len(order_)
        PROVE  Stamp(KeyAt(j)) > time /\ KeyAt(j) \in DOMAIN records_
    <3>1. /\ n + 1 \in 1 .. Len(order_) /\ j \in 1 .. Len(order_) /\ n < Len(order_)
          /\ n + 1 < j \/ n + 1 = j
      BY <2>0
    <3>2. Stamp(KeyAt(n + 1)) <= Stamp(KeyAt(j))
      <4>1. CASE n + 1 < j
        BY <1>2, <3>1, <4>1 DEF LruInv, StampsGrow
      <4>2. CASE n + 1 = j
        <5>1. Stamp(KeyAt(j)) \in Int
          BY <2>3, <3>1
        <5> QED
          BY <4>2, <5>1
      <4> QED
        BY <3>1, <4>1, <4>2
    <3>3. time < Stamp(KeyAt(n + 1))
      BY <2>1, <3>1
    <3>4. Stamp(KeyAt(n + 1)) \in Int /\ Stamp(KeyAt(j)) \in Int /\ KeyAt(j) \in DOMAIN records_
      BY <2>3, <3>1
    <3> QED
      BY <2>4, <3>2, <3>3, <3>4
  <2>6. \A i \in 1 .. n : ~(Stamp(KeyAt(i)) > time)
    <3> TAKE i \in 1 .. n
    <3>1. i \in 1 .. Len(order_)
      BY <2>0
    <3> QED
      BY <2>1, <2>3, <2>4, <3>1
  <2>7. \A k \in DOMAIN records_' : k \in DOMAIN records_ /\ Stamp(k) > time
    BY <2>2, <2>5
  <2>8. \A k \in DOMAIN records_ \ DOMAIN records_' : ~(Stamp(k) > time)
    BY <2>2, <2>6
  <2> QED
    BY <2>7, <2>8
<1>3. LruInv /\ [LruNext]_lruVars => [Before /\ ByTime]_lruVars
  BY <1>1, <1>2
<1> QED
  BY <1>3, LruInitially, LruKeeps, PTL DEF LruSpec, RetiresOldest
------------------------------------------------------------------------------
(* The set behind one mutex.  The list is sorted, and the one thread that  *)
(* holds the mutex walks along it.                                         *)

SetCallRecord == [op : {"add", "remove"}, key : SetKeys]

CoarseTypeOK ==
    /\ setNext \in [SetNodes -> SetNodes \cup {NoOne}]
    /\ setPc \in [SetThreads -> {"call", "lock", "walk", "unlock"}]
    /\ setCall \in [SetThreads -> SetCallRecord \cup {NoOne}]
    /\ setPre \in [SetThreads -> SetNodes]
    /\ setCur \in [SetThreads -> SetNodes \cup {NoOne}]
    /\ setAnswer \in [SetThreads -> BOOLEAN \cup {NoOne}]

\* The list is sorted.  A node is named by its key.
Named == [n \in SetNodes |-> n]
ListSorted == Ascending(SetList, setNext, Named, SetMax) /\ setNext[SetMax] = NoOne

\* One thread at most is between lock and unlock.
OneHolds == \A t \in SetThreads : setPc[t] \in {"walk", "unlock"} <=> mu_ = t

\* The thread that walks stands between two neighbours, before its key.
Walker(t) ==
    setPc[t] = "walk" => /\ setPre[t] \in SetList \ {SetMax}
                         /\ setNext[setPre[t]] = setCur[t]
                         /\ setPre[t] < setCall[t].key

\* A thread has an argument while it is in a call, and an answer from the moment
\* it has decided it.
CallsInPlace ==
    \A t \in SetThreads : /\ setCall[t] = NoOne <=> setPc[t] = "call"
                          /\ setAnswer[t] # NoOne <=> setPc[t] = "unlock"

\* What the history knows of the present.
SetSeenNow ==
    /\ setSeen \in [SetThreads -> SUBSET BOOLEAN]
    /\ \A t \in SetThreads :
           IF setCall[t] = NoOne THEN setSeen[t] = {}
                                 ELSE (setCall[t].key \in SetMembers) \in setSeen[t]

CoarseMain ==
    /\ CoarseTypeOK /\ ListSorted /\ OneHolds /\ CallsInPlace
    /\ \A t \in SetThreads : Walker(t)

CoarseInv == CoarseMain /\ SetSeenNow
------------------------------------------------------------------------------
LEMMA SetKeyRange ==
    /\ SetMin \in Int /\ SetMax \in Int /\ SetMin < SetMax
    /\ \A n \in SetNodes : n \in Int
    /\ \A k \in SetKeys : k \in SetNodes /\ k # SetMin /\ k # SetMax /\ SetMin < k /\ k < SetMax
<1>1. /\ SetMin \in Int /\ SetMax \in Int /\ SetMin < SetMax
      /\ SetKeys \subseteq SetMin + 1 .. SetMax - 1
  BY CoarseAssumption
<1>2. \A k \in SetKeys : k \in Int /\ SetMin < k /\ k < SetMax
  BY <1>1
<1> QED
  BY <1>1, <1>2 DEF SetNodes

LEMMA SetEnds ==
    /\ SetMin \in SetNodes /\ SetMax \in SetNodes /\ SetMin # SetMax /\ NoOne \notin SetNodes
    /\ SetKeys \subseteq SetNodes
<1>1. SetMin # SetMax
  BY SetKeyRange
<1> QED
  BY <1>1, CoarseAssumption DEF SetNodes

LEMMA SetListNodes ==
    ASSUME CoarseTypeOK
    PROVE  /\ SetList \subseteq SetNodes /\ SetMin \in SetList
           /\ \A n \in SetList : setNext[n] # NoOne => setNext[n] \in SetList
BY SetEnds, ReachedClosed DEF CoarseTypeOK, SetList, Closed

\* At first there are the sentinels only.
LEMMA SetListInit ==
    ASSUME setNext \in [SetNodes -> SetNodes \cup {NoOne}],
           setNext[SetMin] = SetMax, setNext[SetMax] = NoOne
    PROVE  SetList \subseteq {SetMin, SetMax}
<1>1. Closed({SetMin, SetMax}, SetMin, setNext, NoOne)
  BY SetEnds DEF Closed
<1>2. {SetMin, SetMax} \in SUBSET SetNodes
  BY SetEnds
<1> QED
  BY <1>1, <1>2, ReachedLeast DEF SetList

LEMMA SetLinkReaches ==
    ASSUME setNext \in [SetNodes -> SetNodes \cup {NoOne}],
           NEW p \in SetList, setNext[p] \in SetNodes, NEW n \in SetNodes, n \notin SetList,
           setNext' \in [SetNodes -> SetNodes \cup {NoOne}],
           setNext'[p] = n, setNext'[n] = setNext[p],
           \A m \in SetNodes \ {p, n} : setNext'[m] = setNext[m]
    PROVE  SetList' = SetList \cup {n}
BY SetEnds, ReachedLink DEF SetList

LEMMA SetUnlinkReaches ==
    ASSUME setNext \in [SetNodes -> SetNodes \cup {NoOne}],
           NEW p \in SetList, NEW c \in SetNodes, setNext[p] = c, c # SetMin, p # c,
           setNext[c] \in SetNodes, setNext[c] # c,
           \A m \in SetList : setNext[m] = c => m = p,
           setNext' \in [SetNodes -> SetNodes \cup {NoOne}],
           setNext'[p] = setNext[c], \A m \in SetNodes \ {p} : setNext'[m] = setNext[m]
    PROVE  SetList' = SetList \ {c}
BY SetEnds, ReachedUnlink DEF SetList

LEMMA SetLinkSorted ==
    ASSUME Ascending(SetList, setNext, Named, SetMax),
           NEW p \in SetList \ {SetMax}, NEW n, n \notin SetList,
           Named[n] \in Int, Named[p] < Named[n], Named[n] < Named[setNext[p]],
           setNext'[p] = n, setNext'[n] = setNext[p],
           \A m \in SetList \ {p} : setNext'[m] = setNext[m]
    PROVE  Ascending(SetList \cup {n}, setNext', Named, SetMax)
BY AscendingLink

LEMMA SetUnlinkSorted ==
    ASSUME Ascending(SetList, setNext, Named, SetMax),
           NEW p \in SetList \ {SetMax}, NEW c, setNext[p] = c, c # SetMax,
           setNext'[p] = setNext[c], \A m \in SetList \ {p} : setNext'[m] = setNext[m]
    PROVE  /\ Ascending(SetList \ {c}, setNext', Named, SetMax)
           /\ setNext[c] \in SetList /\ setNext[c] # c
BY AscendingUnlink

LEMMA CoarseInitially == CoarseInit => CoarseInv
<1> SUFFICES ASSUME CoarseInit PROVE CoarseInv
  OBVIOUS
<1>1. CoarseTypeOK
  BY SetEnds DEF CoarseInit, CoarseTypeOK
<1>2. SetList = {SetMin, SetMax} /\ setNext[SetMin] = SetMax /\ setNext[SetMax] = NoOne
  <2>1. setNext[SetMin] = SetMax /\ setNext[SetMax] = NoOne
    BY SetEnds DEF CoarseInit
  <2>3. SetList \subseteq {SetMin, SetMax}
    BY <1>1, <2>1, SetListInit DEF CoarseTypeOK
  <2>4. SetMin \in SetList /\ SetMax \in SetList
    BY <1>1, <2>1, SetKeyRange, SetEnds, SetListNodes
  <2> QED
    BY <2>1, <2>3, <2>4
<1>3. ListSorted
  BY <1>2, SetKeyRange, SetEnds DEF ListSorted, Ascending, Named
<1>4. OneHolds /\ CallsInPlace /\ (\A t \in SetThreads : Walker(t)) /\ SetSeenNow
  BY CoarseAssumption DEF CoarseInit, OneHolds, CallsInPlace, Walker, SetSeenNow
<1> QED
  BY <1>1, <1>3, <1>4 DEF CoarseInv, CoarseMain

\* The neighbours the walk of t stands between.
LEMMA WalkStands ==
    ASSUME CoarseMain, NEW t \in SetThreads, setPc[t] = "walk"
    PROVE  /\ setCall[t] \in SetCallRecord /\ setCall[t].key \in SetKeys /\ setCall[t].key \in Int
           /\ setPre[t] \in SetList \ {SetMax} /\ setCur[t] \in SetList
           /\ setNext[setPre[t]] = setCur[t] /\ setPre[t] < setCur[t]
           /\ setPre[t] \in Int /\ setCur[t] \in Int /\ setPre[t] < setCall[t].key
           /\ setAnswer[t] = NoOne
           /\ \A u \in SetThreads \ {t} : setPc[u] \notin {"walk", "unlock"}
<1>1. setCall[t] \in SetCallRecord /\ setAnswer[t] = NoOne
  BY DEF CoarseMain, CallsInPlace, CoarseTypeOK
<1>2. /\ setPre[t] \in SetList \ {SetMax} /\ setNext[setPre[t]] = setCur[t]
      /\ setPre[t] < setCall[t].key
  BY DEF CoarseMain, Walker
<1>3. setCur[t] \in SetList /\ setPre[t] < setCur[t] /\ setPre[t] \in SetNodes /\ setCur[t] \in SetNodes
  BY <1>2, SetListNodes DEF CoarseMain, ListSorted, Ascending, Named
<1>4. \A u \in SetThreads \ {t} : setPc[u] \notin {"walk", "unlock"}
  BY DEF CoarseMain, OneHolds
<1> QED
  BY <1>1, <1>2, <1>3, <1>4, SetKeyRange DEF SetCallRecord

\* A step that leaves the list alone.
LEMMA ListSame ==
    ASSUME CoarseMain, UNCHANGED setNext
    PROVE  SetList' = SetList /\ SetMembers' = SetMembers /\ ListSorted'
BY DEF CoarseMain, ListSorted, SetList, SetMembers, Named

LEMMA OthersWalk ==
    ASSUME CoarseMain, NEW t \in SetThreads, UNCHANGED setNext,
           \A u \in SetThreads \ {t} : /\ setPc'[u] = setPc[u] /\ setCall'[u] = setCall[u]
                                       /\ setPre'[u] = setPre[u] /\ setCur'[u] = setCur[u]
    PROVE  \A u \in SetThreads \ {t} : Walker(u)'
BY ListSame DEF CoarseMain, Walker

LEMMA CallSetKeeps == ASSUME CoarseMain, NEW t \in SetThreads, CallSet(t) PROVE CoarseMain'
<1>1. PICK op \in {"add", "remove"}, k \in SetKeys :
         setCall' = [setCall EXCEPT ![t] = [op |-> op, key |-> k]]
  BY DEF CallSet
<1>2. /\ UNCHANGED <<setNext, mu_, setPre, setCur, setAnswer>> /\ setPc[t] = "call"
      /\ setPc' = [setPc EXCEPT ![t] = "lock"]
  BY DEF CallSet, CoarseGoto
<1>3. setCall'[t] \in SetCallRecord /\ setCall'[t] # NoOne /\ setPc'[t] = "lock"
  BY <1>1, <1>2, CoarseAssumption DEF CoarseMain, CoarseTypeOK, SetCallRecord
<1>4. \A u \in SetThreads \ {t} : setPc'[u] = setPc[u] /\ setCall'[u] = setCall[u]
  BY <1>1, <1>2 DEF CoarseMain, CoarseTypeOK
<1>5. CoarseTypeOK'
  BY <1>1, <1>2, <1>3 DEF CoarseMain, CoarseTypeOK
<1>6. ListSorted' /\ \A u \in SetThreads : Walker(u)'
  BY <1>2, <1>3, <1>4, ListSame, OthersWalk DEF Walker
<1>7. OneHolds' /\ CallsInPlace'
  BY <1>2, <1>3, <1>4 DEF CoarseMain, OneHolds, CallsInPlace
<1> QED
  BY <1>5, <1>6, <1>7 DEF CoarseMain

LEMMA LockSetKeeps == ASSUME CoarseMain, NEW t \in SetThreads, LockSet(t) PROVE CoarseMain'
<1>1. /\ setPc[t] = "lock" /\ setPc' = [setPc EXCEPT ![t] = "walk"]
      /\ setPre' = [setPre EXCEPT ![t] = SetMin]
      /\ setCur' = [setCur EXCEPT ![t] = setNext[SetMin]]
      /\ mu_ = NoOne /\ mu_' = t /\ UNCHANGED <<setNext, setCall, setAnswer>>
  BY DEF LockSet, CoarseGoto
<1>2. /\ setPc'[t] = "walk" /\ setPre'[t] = SetMin /\ setCur'[t] = setNext[SetMin]
      /\ \A u \in SetThreads \ {t} : /\ setPc'[u] = setPc[u] /\ setPre'[u] = setPre[u]
                                     /\ setCur'[u] = setCur[u]
  BY <1>1 DEF CoarseMain, CoarseTypeOK
<1>3. setNext[SetMin] \in SetNodes \cup {NoOne}
  BY SetEnds DEF CoarseMain, CoarseTypeOK
<1>4. CoarseTypeOK'
  BY <1>1, <1>3, SetEnds DEF CoarseMain, CoarseTypeOK
<1>5. \A u \in SetThreads : setPc[u] \notin {"walk", "unlock"}
  BY <1>1, CoarseAssumption DEF CoarseMain, OneHolds
<1>6. OneHolds' /\ CallsInPlace'
  BY <1>1, <1>2, <1>5 DEF CoarseMain, OneHolds, CallsInPlace
<1>7. Walker(t)'
  <2>1. setCall[t] \in SetCallRecord
    BY <1>1 DEF CoarseMain, CallsInPlace, CoarseTypeOK
  <2>2. SetMin < setCall[t].key /\ SetMin \in SetList \ {SetMax}
    <3>1. setCall[t].key \in SetKeys
      BY <2>1 DEF SetCallRecord
    <3>2. SetMin \in SetList
      BY SetListNodes DEF CoarseMain
    <3>3. SetMin < setCall[t].key
      BY <3>1, SetKeyRange
    <3> QED
      BY <3>2, <3>3, SetEnds
  <2> QED
    BY <1>1, <1>2, <2>2, ListSame DEF Walker
<1>8. ListSorted' /\ \A u \in SetThreads : Walker(u)'
  BY <1>1, <1>2, <1>7, ListSame, OthersWalk
<1> QED
  BY <1>4, <1>6, <1>8 DEF CoarseMain

LEMMA WalkSetKeeps == ASSUME CoarseMain, NEW t \in SetThreads, WalkSet(t) PROVE CoarseMain'
<1>1. /\ setPc[t] = "walk" /\ setCur[t] < setCall[t].key
      /\ setPre' = [setPre EXCEPT ![t] = setCur[t]]
      /\ setCur' = [setCur EXCEPT ![t] = setNext[setCur[t]]]
      /\ UNCHANGED <<setNext, mu_, setPc, setCall, setAnswer>>
  BY DEF WalkSet
<1>2. setCur[t] \in SetList /\ setCur[t] \in SetNodes /\ setCur[t] # SetMax
  BY <1>1, WalkStands, SetKeyRange, SetEnds, SetListNodes DEF CoarseMain
<1>3. /\ setPre'[t] = setCur[t] /\ setCur'[t] = setNext[setCur[t]]
      /\ \A u \in SetThreads \ {t} : setPre'[u] = setPre[u] /\ setCur'[u] = setCur[u]
  BY <1>1 DEF CoarseMain, CoarseTypeOK
<1>4. CoarseTypeOK'
  BY <1>1, <1>2 DEF CoarseMain, CoarseTypeOK
<1>5. OneHolds' /\ CallsInPlace'
  BY <1>1 DEF CoarseMain, OneHolds, CallsInPlace
<1>6. Walker(t)'
  BY <1>1, <1>2, <1>3, ListSame DEF Walker
<1>7. ListSorted' /\ \A u \in SetThreads : Walker(u)'
  BY <1>1, <1>3, <1>6, ListSame, OthersWalk
<1> QED
  BY <1>4, <1>5, <1>7 DEF CoarseMain

\* At the first key that is not smaller, the key is in the set or not.
LEMMA KeyFound ==
    ASSUME CoarseMain, NEW t \in SetThreads, setPc[t] = "walk", setCur[t] >= setCall[t].key
    PROVE  setCall[t].key \in SetMembers <=> setCur[t] = setCall[t].key
<1>1. SetMin # setCall[t].key /\ SetMax # setCall[t].key
  BY WalkStands, SetKeyRange
<1>2. ASSUME setCur[t] # setCall[t].key PROVE setCall[t].key \notin SetList
  <2>1. setPre[t] < setCall[t].key /\ setCall[t].key < setCur[t]
    BY <1>2, WalkStands
  <2>2. Named[setPre[t]] < setCall[t].key /\ setCall[t].key < Named[setNext[setPre[t]]]
    BY <2>1, WalkStands, SetListNodes DEF Named, CoarseMain
  <2>3. \A m \in SetList : Named[m] # setCall[t].key
    BY <2>2, WalkStands, NothingBetween DEF CoarseMain, ListSorted
  <2> QED
    BY <2>3, SetListNodes DEF Named, CoarseMain
<1> QED
  BY <1>1, <1>2, WalkStands DEF SetMembers

\* add links its node between the two neighbours.
LEMMA LinkOnSet ==
    ASSUME CoarseMain, NEW t \in SetThreads, setPc[t] = "walk",
           NEW k, k = setCall[t].key, setCur[t] >= k, setCur[t] # k,
           setNext' = [setNext EXCEPT ![k] = setCur[t], ![setPre[t]] = k]
    PROVE  /\ setNext' \in [SetNodes -> SetNodes \cup {NoOne}] /\ ListSorted'
           /\ k \notin SetMembers /\ SetMembers' = SetMembers \cup {k}
<1> DEFINE p == setPre[t]
           c == setCur[t]
<1>1. /\ k \in SetKeys /\ k \in SetNodes /\ k \in Int /\ p \in SetList \ {SetMax} /\ c \in SetList
      /\ setNext[p] = c /\ p < k /\ k < c /\ p \in Int /\ c \in Int
      /\ p \in SetNodes /\ c \in SetNodes /\ k # p /\ k # SetMin /\ k # SetMax /\ c # NoOne
  BY WalkStands, SetKeyRange, SetEnds, SetListNodes DEF CoarseMain
<1>2. /\ setNext \in [SetNodes -> SetNodes \cup {NoOne}]
      /\ Ascending(SetList, setNext, Named, SetMax) /\ setNext[SetMax] = NoOne
      /\ SetList \subseteq SetNodes
  BY SetListNodes DEF CoarseMain, CoarseTypeOK, ListSorted
<1>3. k \notin SetMembers /\ k \notin SetList
  BY <1>1, KeyFound DEF SetMembers
<1> HIDE DEF p, c
<1>4. /\ setNext' \in [SetNodes -> SetNodes \cup {NoOne}]
      /\ setNext'[p] = k /\ setNext'[k] = c
      /\ \A m \in SetNodes \ {p, k} : setNext'[m] = setNext[m]
  BY <1>1, <1>2 DEF p, c
<1>5. SetList' = SetList \cup {k}
  BY <1>1, <1>2, <1>3, <1>4, SetLinkReaches
<1>6. Named[k] \in Int /\ Named[p] < Named[k] /\ Named[k] < Named[setNext[p]]
  BY <1>1 DEF Named
<1>7. Ascending(SetList \cup {k}, setNext', Named, SetMax)
  <2>1. \A m \in SetList \ {p} : setNext'[m] = setNext[m]
    BY <1>2, <1>3, <1>4
  <2>2. /\ setNext'[p] = k /\ setNext'[k] = setNext[p] /\ p \in SetList \ {SetMax}
        /\ k \notin SetList /\ Ascending(SetList, setNext, Named, SetMax)
    BY <1>1, <1>2, <1>3, <1>4
  <2> QED
    BY <1>6, <2>1, <2>2, SetLinkSorted
<1>8. setNext'[SetMax] = NoOne
  BY <1>1, <1>2, <1>4, SetEnds
<1>9. SetMembers' = SetMembers \cup {k}
  BY <1>1, <1>5 DEF SetMembers
<1> QED
  BY <1>3, <1>4, <1>5, <1>7, <1>8, <1>9 DEF ListSorted, Named

\* remove takes the node out from behind its predecessor.
LEMMA UnlinkOnSet ==
    ASSUME CoarseMain, NEW t \in SetThreads, setPc[t] = "walk",
           NEW k, k = setCall[t].key, setCur[t] = k,
           setNext' = [setNext EXCEPT ![setPre[t]] = setNext[k]]
    PROVE  /\ setNext' \in [SetNodes -> SetNodes \cup {NoOne}] /\ ListSorted'
           /\ k \in SetMembers /\ SetMembers' = SetMembers \ {k}
<1> DEFINE p == setPre[t]
<1>1. /\ k \in SetKeys /\ k \in SetNodes /\ p \in SetList \ {SetMax} /\ k \in SetList
      /\ setNext[p] = k /\ p \in SetNodes /\ p # k /\ k # SetMin /\ k # SetMax
  BY WalkStands, SetKeyRange, SetEnds, SetListNodes DEF CoarseMain
<1>2. /\ setNext \in [SetNodes -> SetNodes \cup {NoOne}]
      /\ Ascending(SetList, setNext, Named, SetMax) /\ setNext[SetMax] = NoOne
      /\ SetList \subseteq SetNodes
  BY SetListNodes DEF CoarseMain, CoarseTypeOK, ListSorted
<1> HIDE DEF p
<1>3. /\ setNext' \in [SetNodes -> SetNodes \cup {NoOne}] /\ setNext'[p] = setNext[k]
      /\ \A m \in SetNodes \ {p} : setNext'[m] = setNext[m]
  BY <1>1, <1>2 DEF p
<1>4. /\ Ascending(SetList \ {k}, setNext', Named, SetMax)
      /\ setNext[k] \in SetList /\ setNext[k] # k
  <2>1. \A m \in SetList \ {p} : setNext'[m] = setNext[m]
    BY <1>2, <1>3
  <2>2. /\ Ascending(SetList, setNext, Named, SetMax) /\ p \in SetList \ {SetMax}
        /\ setNext[p] = k /\ k # SetMax /\ setNext'[p] = setNext[k]
    BY <1>1, <1>2, <1>3
  <2> QED
    BY <2>1, <2>2, SetUnlinkSorted
<1>5. SetList' = SetList \ {k}
  <2>1. ASSUME NEW m \in SetList, setNext[m] = k PROVE m = p
    BY <1>1, <1>2, <2>1, SetEnds, OnePredecessor
  <2> QED
    BY <1>1, <1>2, <1>3, <1>4, <2>1, SetUnlinkReaches
<1>6. setNext'[SetMax] = NoOne
  BY <1>1, <1>2, <1>3, SetEnds
<1>7. k \in SetMembers /\ SetMembers' = SetMembers \ {k}
  BY <1>1, <1>5 DEF SetMembers
<1> QED
  BY <1>3, <1>4, <1>5, <1>6, <1>7 DEF ListSorted, Named

\* What a call does to the set, and what it answers.
LEMMA SetChanges ==
    ASSUME CoarseMain, NEW t \in SetThreads, ActOnSet(t)
    PROVE  /\ setNext' \in [SetNodes -> SetNodes \cup {NoOne}] /\ ListSorted'
           /\ \/ /\ setCall[t].op = "add" /\ setCall[t].key \notin SetMembers
                 /\ SetMembers' = SetMembers \cup {setCall[t].key}
                 /\ setAnswer' = [setAnswer EXCEPT ![t] = TRUE]
              \/ /\ setCall[t].op = "remove" /\ setCall[t].key \in SetMembers
                 /\ SetMembers' = SetMembers \ {setCall[t].key}
                 /\ setAnswer' = [setAnswer EXCEPT ![t] = TRUE]
              \/ /\ (setCall[t].op = "add") <=> (setCall[t].key \in SetMembers)
                 /\ SetMembers' = SetMembers
                 /\ setAnswer' = [setAnswer EXCEPT ![t] = FALSE]
<1> DEFINE k == setCall[t].key
           there == setCur[t] = k
<1>1. /\ setPc[t] = "walk" /\ setCur[t] >= k
      /\ setNext' =
            CASE setCall[t].op = "add" /\ ~there -> [setNext EXCEPT ![k] = setCur[t], ![setPre[t]] = k]
              [] setCall[t].op = "remove" /\ there -> [setNext EXCEPT ![setPre[t]] = setNext[k]]
              [] OTHER -> setNext
      /\ setAnswer' = [setAnswer EXCEPT ![t] = (setCall[t].op = "add") # there]
  BY DEF ActOnSet, CoarseGoto
<1>2. setCall[t].op \in {"add", "remove"}
  BY <1>1, WalkStands DEF SetCallRecord
<1>3. k \in SetMembers <=> there
  BY <1>1, KeyFound
<1>4. CASE setCall[t].op = "add" /\ ~there
  <2>1. setNext' = [setNext EXCEPT ![k] = setCur[t], ![setPre[t]] = k]
    BY <1>1, <1>4
  <2>2. ((setCall[t].op = "add") # there) = TRUE
    BY <1>4
  <2> QED
    BY <1>1, <1>4, <2>1, <2>2, LinkOnSet
<1>5. CASE setCall[t].op = "remove" /\ there
  <2>1. setNext' = [setNext EXCEPT ![setPre[t]] = setNext[k]]
    BY <1>1, <1>5
  <2>2. ((setCall[t].op = "add") # there) = TRUE
    BY <1>5
  <2> QED
    BY <1>1, <1>5, <2>1, <2>2, UnlinkOnSet
<1>6. CASE (setCall[t].op = "add") <=> there
  <2>1. setNext' = setNext
    BY <1>1, <1>2, <1>6
  <2>2. ((setCall[t].op = "add") # there) = FALSE
    BY <1>6
  <2>3. setNext' \in [SetNodes -> SetNodes \cup {NoOne}]
    BY <2>1 DEF CoarseMain, CoarseTypeOK
  <2> QED
    BY <1>1, <1>3, <1>6, <2>1, <2>2, <2>3, ListSame
<1> QED
  BY <1>2, <1>4, <1>5, <1>6

LEMMA ActOnSetKeeps == ASSUME CoarseMain, NEW t \in SetThreads, ActOnSet(t) PROVE CoarseMain'
<1>1. /\ setPc[t] = "walk" /\ setPc' = [setPc EXCEPT ![t] = "unlock"]
      /\ UNCHANGED <<mu_, setCall, setPre, setCur>>
  BY DEF ActOnSet, CoarseGoto
<1>2. /\ setNext' \in [SetNodes -> SetNodes \cup {NoOne}] /\ ListSorted'
      /\ \E b \in BOOLEAN : setAnswer' = [setAnswer EXCEPT ![t] = b]
  BY SetChanges
<1>3. /\ setPc'[t] = "unlock" /\ setAnswer'[t] \in BOOLEAN /\ setAnswer'[t] # NoOne
      /\ \A u \in SetThreads \ {t} : setPc'[u] = setPc[u] /\ setAnswer'[u] = setAnswer[u]
  BY <1>1, <1>2, CoarseAssumption DEF CoarseMain, CoarseTypeOK
<1>4. CoarseTypeOK'
  BY <1>1, <1>2 DEF CoarseMain, CoarseTypeOK
<1>5. OneHolds' /\ CallsInPlace'
  BY <1>1, <1>3 DEF CoarseMain, OneHolds, CallsInPlace
<1>6. \A u \in SetThreads : Walker(u)'
  <2>1. \A u \in SetThreads : setPc'[u] # "walk"
    BY <1>1, <1>3, WalkStands
  <2> QED
    BY <2>1 DEF Walker
<1> QED
  BY <1>2, <1>4, <1>5, <1>6 DEF CoarseMain

LEMMA ReturnFromSetKeeps ==
    ASSUME CoarseMain, NEW t \in SetThreads, ReturnFromSet(t) PROVE CoarseMain'
<1>1. /\ setPc[t] = "unlock" /\ setPc' = [setPc EXCEPT ![t] = "call"] /\ mu_' = NoOne
      /\ setCall' = [setCall EXCEPT ![t] = NoOne] /\ setAnswer' = [setAnswer EXCEPT ![t] = NoOne]
      /\ UNCHANGED <<setNext, setPre, setCur>>
  BY DEF ReturnFromSet, CoarseGoto
<1>2. /\ setPc'[t] = "call" /\ setCall'[t] = NoOne /\ setAnswer'[t] = NoOne
      /\ \A u \in SetThreads \ {t} : /\ setPc'[u] = setPc[u] /\ setCall'[u] = setCall[u]
                                     /\ setAnswer'[u] = setAnswer[u]
  BY <1>1 DEF CoarseMain, CoarseTypeOK
<1>3. CoarseTypeOK'
  BY <1>1 DEF CoarseMain, CoarseTypeOK
<1>4. \A u \in SetThreads \ {t} : setPc[u] \notin {"walk", "unlock"}
  BY <1>1 DEF CoarseMain, OneHolds
<1>5. OneHolds' /\ CallsInPlace'
  BY <1>1, <1>2, <1>4, CoarseAssumption DEF CoarseMain, OneHolds, CallsInPlace
<1>6. ListSorted' /\ \A u \in SetThreads : Walker(u)'
  BY <1>1, <1>2, ListSame, OthersWalk DEF Walker
<1> QED
  BY <1>3, <1>5, <1>6 DEF CoarseMain

\* What was seen is what was there after the step.
LEMMA SeenAfter ==
    ASSUME CoarseInv, CoarseMain', ObserveSet PROVE SetSeenNow'
<1>1. \A t \in SetThreads : setCall[t] = NoOne \/ setCall[t] # NoOne
  OBVIOUS
<1>2. setSeen \in [SetThreads -> SUBSET BOOLEAN]
  BY DEF CoarseInv, SetSeenNow
<1>3. ASSUME NEW t \in SetThreads
      PROVE  /\ setSeen'[t] \in SUBSET BOOLEAN
             /\ IF setCall'[t] = NoOne THEN setSeen'[t] = {}
                ELSE (setCall'[t].key \in SetMembers') \in setSeen'[t]
  <2>1. setSeen'[t] = IF setCall'[t] = NoOne THEN {}
                      ELSE {setCall'[t].key \in SetMembers'}
                               \cup (IF setCall[t] = NoOne THEN {} ELSE setSeen[t])
    BY DEF ObserveSet
  <2>2. (setCall'[t].key \in SetMembers') \in BOOLEAN
    OBVIOUS
  <2> QED
    BY <1>2, <2>1, <2>2
<1>4. setSeen' \in [SetThreads -> SUBSET BOOLEAN]
  <2>1. setSeen' = [t \in SetThreads |-> setSeen'[t]]
    BY DEF ObserveSet
  <2> QED
    BY <1>3, <2>1, Zenon
<1> QED
  BY <1>3, <1>4 DEF SetSeenNow

LEMMA CoarseStands == ASSUME CoarseInv, UNCHANGED coarseVars PROVE CoarseInv'
BY DEF coarseVars, CoarseInv, CoarseMain, CoarseTypeOK, ListSorted, Named, OneHolds, CallsInPlace,
       Walker, SetSeenNow, SetMembers, SetList

LEMMA CoarseKeeps == CoarseInv /\ [CoarseNext]_coarseVars => CoarseInv'
<1> SUFFICES ASSUME CoarseInv, [CoarseNext]_coarseVars PROVE CoarseInv'
  OBVIOUS
<1>1. ASSUME NEW t \in SetThreads, CoarseStep(t), ObserveSet PROVE CoarseInv'
  <2>1. CoarseMain'
    BY <1>1, CallSetKeeps, LockSetKeeps, WalkSetKeeps, ActOnSetKeeps, ReturnFromSetKeeps
       DEF CoarseStep, CoarseInv
  <2> QED
    BY <1>1, <2>1, SeenAfter DEF CoarseInv
<1>2. CASE UNCHANGED coarseVars \/ CoarseDone
  BY <1>2, CoarseStands DEF CoarseDone
<1> QED
  BY <1>1, <1>2 DEF CoarseNext

LEMMA CoarseObserves ==
    ASSUME CoarseInv, ObserveSet PROVE CoarseShared!Observe
<1>1. ASSUME NEW t \in SetThreads
      PROVE  setSeen'[t] = IF setCall'[t] = NoOne THEN {}
                           ELSE LET there == setCall'[t].key \in SetMembers'
                                IN  IF setCall[t] = NoOne THEN {there} ELSE setSeen[t] \cup {there}
  BY DEF ObserveSet
<1>2. setSeen' = [t \in SetThreads |-> setSeen'[t]]
  BY DEF ObserveSet
<1>3. setSeen' = [t \in SetThreads |->
                    IF setCall'[t] = NoOne THEN {}
                    ELSE LET there == setCall'[t].key \in SetMembers'
                         IN  IF setCall[t] = NoOne THEN {there} ELSE setSeen[t] \cup {there}]
  BY <1>1, <1>2, Zenon
<1> QED
  BY <1>3 DEF CoarseShared!Observe

\* A step inside a call changes nothing that is promised.
LEMMA InsideSet ==
    ASSUME CoarseInv, ObserveSet, UNCHANGED <<setNext, setCall, setAnswer>>
    PROVE  UNCHANGED CoarseShared!vars
<1>1. SetMembers' = SetMembers
  BY DEF SetMembers, SetList
<1>2. ASSUME NEW t \in SetThreads PROVE setSeen'[t] = setSeen[t]
  <2>1. setSeen'[t] = IF setCall'[t] = NoOne THEN {}
                      ELSE {setCall'[t].key \in SetMembers'}
                               \cup (IF setCall[t] = NoOne THEN {} ELSE setSeen[t])
    BY DEF ObserveSet
  <2>2. IF setCall[t] = NoOne THEN setSeen[t] = {}
                              ELSE (setCall[t].key \in SetMembers) \in setSeen[t]
    BY DEF CoarseInv, SetSeenNow
  <2> QED
    BY <1>1, <2>1, <2>2
<1>3. setSeen' = setSeen
  <2>1. setSeen' = [t \in SetThreads |-> setSeen'[t]] /\ setSeen = [t \in SetThreads |-> setSeen[t]]
    BY DEF ObserveSet, CoarseInv, SetSeenNow
  <2> QED
    BY <1>2, <2>1, Zenon
<1> QED
  BY <1>1, <1>3 DEF CoarseShared!vars

LEMMA CoarseImplements ==
    ASSUME CoarseInv, [CoarseNext]_coarseVars PROVE [CoarseShared!Next]_CoarseShared!vars
<1>1. CASE UNCHANGED coarseVars \/ CoarseDone
  BY <1>1 DEF CoarseDone, coarseVars, CoarseShared!vars, SetMembers, SetList
<1>2. ASSUME NEW t \in SetThreads, CoarseStep(t), ObserveSet
      PROVE  [CoarseShared!Next]_CoarseShared!vars
  <2>0. CoarseMain /\ CoarseShared!Observe
    BY <1>2, CoarseObserves DEF CoarseInv
  <2>1. CASE CallSet(t)
    <3>1. PICK op \in {"add", "remove"}, k \in SetKeys :
             setCall' = [setCall EXCEPT ![t] = [op |-> op, key |-> k]]
      BY <2>1 DEF CallSet
    <3>2. setCall[t] = NoOne /\ SetMembers' = SetMembers /\ setAnswer' = setAnswer
      BY <2>0, <2>1, ListSame DEF CallSet, CoarseGoto, CoarseMain, CallsInPlace
    <3> QED
      BY <2>0, <3>1, <3>2 DEF CoarseShared!Next, CoarseShared!Call
  <2>2. CASE LockSet(t) \/ WalkSet(t)
    BY <1>2, <2>2, InsideSet DEF LockSet, WalkSet
  <2>3. CASE ActOnSet(t)
    <3>1. setPc[t] = "walk" /\ UNCHANGED setCall
      BY <2>3 DEF ActOnSet, CoarseGoto
    <3>2. CoarseShared!Undecided(t)
      BY <2>0, <3>1, CoarseAssumption DEF CoarseShared!Undecided, CoarseMain, CallsInPlace
    <3>3. (setCall[t].key \in SetMembers) \in setSeen[t]
      BY <2>0, <3>1 DEF CoarseInv, CoarseMain, CallsInPlace, SetSeenNow
    <3>4. CASE setAnswer' = [setAnswer EXCEPT ![t] = TRUE]
               /\ \/ /\ setCall[t].op = "add" /\ setCall[t].key \notin SetMembers
                     /\ SetMembers' = SetMembers \cup {setCall[t].key}
                  \/ /\ setCall[t].op = "remove" /\ setCall[t].key \in SetMembers
                     /\ SetMembers' = SetMembers \ {setCall[t].key}
      <4>1. CoarseShared!Succeed(t)
        BY <3>1, <3>2, <3>4 DEF CoarseShared!Succeed
      <4> QED
        BY <2>0, <4>1 DEF CoarseShared!Next
    <3>5. CASE /\ (setCall[t].op = "add") <=> (setCall[t].key \in SetMembers)
               /\ SetMembers' = SetMembers
               /\ setAnswer' = [setAnswer EXCEPT ![t] = FALSE]
      <4>1. (setCall[t].op = "add") \in setSeen[t]
        <5>1. (setCall[t].op = "add") = (setCall[t].key \in SetMembers)
          BY <3>5
        <5> QED
          BY <3>3, <5>1
      <4>2. CoarseShared!Fail(t)
        BY <3>1, <3>2, <3>5, <4>1 DEF CoarseShared!Fail
      <4> QED
        BY <2>0, <4>2 DEF CoarseShared!Next
    <3> QED
      BY <2>0, <2>3, <3>4, <3>5, SetChanges
  <2>4. CASE ReturnFromSet(t)
    <3>1. /\ setPc[t] = "unlock" /\ setCall' = [setCall EXCEPT ![t] = NoOne]
          /\ setAnswer' = [setAnswer EXCEPT ![t] = NoOne] /\ UNCHANGED setNext
      BY <2>4 DEF ReturnFromSet, CoarseGoto
    <3>2. setAnswer[t] # NoOne /\ SetMembers' = SetMembers
      BY <2>0, <3>1, ListSame DEF CoarseMain, CallsInPlace
    <3> QED
      BY <2>0, <3>1, <3>2 DEF CoarseShared!Next, CoarseShared!Return
  <2> QED
    BY <1>2, <2>1, <2>2, <2>3, <2>4 DEF CoarseStep
<1> QED
  BY <1>1, <1>2 DEF CoarseNext

\* The list behind one mutex keeps the promise of a set that threads share: every
\* add and remove takes effect at one moment between its call and its return.
THEOREM CoarseSetImplemented == CoarseSpec => CoarseIsSet
<1>1. CoarseInit => CoarseShared!Init
  <2> SUFFICES ASSUME CoarseInit PROVE CoarseShared!Init
    OBVIOUS
  <2>1. SetMembers = {}
    <3>1. setNext[SetMin] = SetMax /\ setNext[SetMax] = NoOne /\ CoarseTypeOK
      BY SetEnds DEF CoarseInit, CoarseTypeOK
    <3>2. SetList \subseteq {SetMin, SetMax}
      BY <3>1, SetListInit DEF CoarseTypeOK
    <3> QED
      BY <3>2 DEF SetMembers
  <2> QED
    BY <2>1 DEF CoarseInit, CoarseShared!Init
<1>2. CoarseInv /\ [CoarseNext]_coarseVars => [CoarseShared!Next]_CoarseShared!vars
  BY CoarseImplements
<1> QED
  BY <1>1, <1>2, CoarseInitially, CoarseKeeps, PTL DEF CoarseSpec, CoarseIsSet, CoarseShared!Spec
------------------------------------------------------------------------------
(* The lookup table.  A bucket's list holds a key once, in the bucket it   *)
(* belongs to; who finds, changes or copies a list holds its mutex.        *)

Pair == [key : TableKeys, value : TableValues]

HoldsOnce(d) == \A i, j \in 1 .. Len(d) : d[i].key = d[j].key => i = j

\* The place of a key in a list that holds it once.
LEMMA FoundAt ==
    ASSUME NEW d \in Seq(Pair), HoldsOnce(d), NEW k
    PROVE  LET i == find_entry_for(d, k)
           IN  /\ i \in 1 .. Len(d) + 1
               /\ i <= Len(d) => d[i].key = k
               /\ \A j \in 1 .. Len(d) : d[j].key = k => j = i
<1> DEFINE Is(i) == /\ i <= Len(d) => d[i].key = k
                    /\ \A j \in 1 .. i - 1 : d[j].key # k
<1>0. Len(d) \in Nat
  OBVIOUS
<1>1. \E i \in 1 .. Len(d) + 1 : Is(i)
  <2>1. CASE \E j \in 1 .. Len(d) : d[j].key = k
    <3>1. PICK j \in 1 .. Len(d) : d[j].key = k
      BY <2>1
    <3>2. \A h \in 1 .. j - 1 : d[h].key # k
      BY <1>0, <3>1 DEF HoldsOnce
    <3> QED
      BY <1>0, <3>1, <3>2
  <2>2. CASE \A j \in 1 .. Len(d) : d[j].key # k
    BY <1>0, <2>2
  <2> QED
    BY <2>1, <2>2
<1>2. find_entry_for(d, k) \in 1 .. Len(d) + 1 /\ Is(find_entry_for(d, k))
  <2>1. find_entry_for(d, k) = CHOOSE i \in 1 .. Len(d) + 1 : Is(i)
    BY DEF find_entry_for
  <2> HIDE DEF Is
  <2> QED
    BY <1>1, <2>1
<1>3. ASSUME NEW j \in 1 .. Len(d), d[j].key = k PROVE j = find_entry_for(d, k)
  <2> DEFINE i == find_entry_for(d, k)
  <2>1. i \in 1 .. Len(d) + 1 /\ Is(i)
    BY <1>2
  <2> HIDE DEF i
  <2>2. ~(j < i)
    BY <1>0, <1>3, <2>1
  <2>3. i <= Len(d) /\ d[i].key = k
    BY <1>0, <2>1, <2>2
  <2>4. i = j
    BY <1>0, <1>3, <2>1, <2>3 DEF HoldsOnce
  <2> QED
    BY <2>4 DEF i
<1> QED
  BY <1>2, <1>3

\* The value of a key that the list holds, and of one it does not hold.
LEMMA ValueThere ==
    ASSUME NEW d \in Seq(Pair), HoldsOnce(d), NEW j \in 1 .. Len(d)
    PROVE  ValueIn(d, d[j].key) = d[j].value
<1>1. find_entry_for(d, d[j].key) = j /\ Len(d) \in Nat
  BY FoundAt
<1> QED
  BY <1>1 DEF ValueIn

LEMMA ValueMissing ==
    ASSUME NEW d \in Seq(Pair), HoldsOnce(d), NEW k, \A j \in 1 .. Len(d) : d[j].key # k
    PROVE  ValueIn(d, k) = Free
<1> DEFINE i == find_entry_for(d, k)
<1>1. i \in 1 .. Len(d) + 1 /\ (i <= Len(d) => d[i].key = k) /\ Len(d) \in Nat
  BY FoundAt
<1> HIDE DEF i
<1>2. i > Len(d)
  BY <1>1
<1> QED
  BY <1>2 DEF ValueIn, i

\* The values of two lists agree on the keys whose pairs both have.
LEMMA ValueSame ==
    ASSUME NEW d \in Seq(Pair), HoldsOnce(d), NEW e \in Seq(Pair), HoldsOnce(e), NEW k,
           \A i \in 1 .. Len(d) : d[i].key = k => \E j \in 1 .. Len(e) : e[j] = d[i],
           \A j \in 1 .. Len(e) : e[j].key = k => \E i \in 1 .. Len(d) : d[i] = e[j]
    PROVE  ValueIn(e, k) = ValueIn(d, k)
<1>1. CASE \E i \in 1 .. Len(d) : d[i].key = k
  <2>1. PICK i \in 1 .. Len(d) : d[i].key = k
    BY <1>1
  <2>2. PICK j \in 1 .. Len(e) : e[j] = d[i]
    BY <2>1
  <2>3. ValueIn(d, k) = d[i].value
    BY <2>1, ValueThere
  <2>4. ValueIn(e, k) = e[j].value
    BY <2>1, <2>2, ValueThere
  <2> QED
    BY <2>2, <2>3, <2>4
<1>2. CASE \A i \in 1 .. Len(d) : d[i].key # k
  <2>1. \A j \in 1 .. Len(e) : e[j].key # k
    BY <1>2
  <2> QED
    BY <1>2, <2>1, ValueMissing
<1> QED
  BY <1>1, <1>2

\* What add and remove make of a list.
LEMMA PairAdded ==
    ASSUME NEW d \in Seq(Pair), HoldsOnce(d), NEW p \in Pair,
           find_entry_for(d, p.key) > Len(d)
    PROVE  LET e == Append(d, p)
           IN  /\ e \in Seq(Pair) /\ HoldsOnce(e)
               /\ ValueIn(e, p.key) = p.value
               /\ \A k : k # p.key => ValueIn(e, k) = ValueIn(d, k)
               /\ \A i \in 1 .. Len(e) : e[i] = p \/ \E j \in 1 .. Len(d) : e[i] = d[j]
<1> DEFINE e == Append(d, p)
<1>1. /\ e \in Seq(Pair) /\ Len(d) \in Nat /\ Len(e) = Len(d) + 1
      /\ \A i \in 1 .. Len(d) : e[i] = d[i]
      /\ e[Len(d) + 1] = p
  OBVIOUS
<1> HIDE DEF e
<1>2. \A j \in 1 .. Len(d) : d[j].key # p.key
  BY <1>1, FoundAt
<1>3. \A i \in 1 .. Len(e) : i \in 1 .. Len(d) \/ i = Len(d) + 1
  BY <1>1
<1>4. HoldsOnce(e)
  <2> SUFFICES ASSUME NEW i \in 1 .. Len(e), NEW j \in 1 .. Len(e), e[i].key = e[j].key
               PROVE  i = j
    BY DEF HoldsOnce
  <2>1. CASE i \in 1 .. Len(d) /\ j \in 1 .. Len(d)
    BY <1>1, <2>1 DEF HoldsOnce
  <2> QED
    BY <1>1, <1>2, <1>3, <2>1
<1>5. ValueIn(e, p.key) = p.value
  <2>1. Len(d) + 1 \in 1 .. Len(e)
    BY <1>1
  <2> QED
    BY <1>1, <1>4, <2>1, ValueThere
<1>6. ASSUME NEW k, k # p.key PROVE ValueIn(e, k) = ValueIn(d, k)
  <2>1. \A i \in 1 .. Len(d) : i \in 1 .. Len(e) /\ e[i] = d[i]
    BY <1>1
  <2>2. \A j \in 1 .. Len(e) : e[j].key = k => \E i \in 1 .. Len(d) : d[i] = e[j]
    BY <1>1, <1>3, <1>6
  <2> QED
    BY <1>1, <1>4, <2>1, <2>2, ValueSame
<1>7. \A i \in 1 .. Len(e) : e[i] = p \/ \E j \in 1 .. Len(d) : e[i] = d[j]
  BY <1>1, <1>3
<1> QED
  BY <1>1, <1>4, <1>5, <1>6, <1>7 DEF e

LEMMA PairReplaced ==
    ASSUME NEW d \in Seq(Pair), HoldsOnce(d), NEW p \in Pair,
           NEW i, i = find_entry_for(d, p.key), ~(i > Len(d)),
           NEW e \in Seq(Pair), Len(e) = Len(d),
           \A j \in 1 .. Len(d) : e[j] = IF j = i THEN p ELSE d[j]
    PROVE  /\ HoldsOnce(e)
           /\ ValueIn(e, p.key) = p.value
           /\ \A k : k # p.key => ValueIn(e, k) = ValueIn(d, k)
           /\ \A h \in 1 .. Len(e) : e[h] = p \/ \E j \in 1 .. Len(d) : e[h] = d[j]
<1>0. i \in 1 .. Len(d) /\ d[i].key = p.key /\ Len(d) \in Nat
  BY FoundAt
<1>1. \A j \in 1 .. Len(d) : e[j] = IF j = i THEN p ELSE d[j]
  OBVIOUS
<1>2. \A j \in 1 .. Len(d) : e[j].key = d[j].key
  BY <1>0, <1>1
<1>3. HoldsOnce(e)
  BY <1>1, <1>2 DEF HoldsOnce
<1>4. ValueIn(e, p.key) = p.value
  BY <1>0, <1>1, <1>3, ValueThere
<1>5. ASSUME NEW k, k # p.key PROVE ValueIn(e, k) = ValueIn(d, k)
  <2>1. \A j \in 1 .. Len(d) : d[j].key = k => j \in 1 .. Len(e) /\ e[j] = d[j]
    BY <1>0, <1>1, <1>5
  <2>2. \A j \in 1 .. Len(e) : e[j].key = k => j \in 1 .. Len(d) /\ d[j] = e[j]
    BY <1>0, <1>1, <1>2, <1>5
  <2> QED
    BY <1>1, <1>3, <2>1, <2>2, ValueSame
<1>6. \A h \in 1 .. Len(e) : e[h] = p \/ \E j \in 1 .. Len(d) : e[h] = d[j]
  BY <1>1
<1> QED
  BY <1>1, <1>3, <1>4, <1>5, <1>6

LEMMA PairRemoved ==
    ASSUME NEW d \in Seq(Pair), HoldsOnce(d), NEW k,
           NEW i, i = find_entry_for(d, k), ~(i > Len(d))
    PROVE  LET e == RemoveAt(d, i)
           IN  /\ e \in Seq(Pair) /\ HoldsOnce(e)
               /\ ValueIn(e, k) = Free
               /\ \A h : h # k => ValueIn(e, h) = ValueIn(d, h)
               /\ \A h \in 1 .. Len(e) : \E j \in 1 .. Len(d) : e[h] = d[j]
<1> DEFINE e == RemoveAt(d, i)
           From(h) == IF h < i THEN h ELSE h + 1
<1>0. i \in 1 .. Len(d) /\ d[i].key = k /\ Len(d) \in Nat
  BY FoundAt
<1>1. /\ e \in Seq(Pair) /\ Len(e) = Len(d) - 1
      /\ \A h \in 1 .. Len(d) - 1 : e[h] = IF h < i THEN d[h] ELSE d[h + 1]
  BY <1>0, RemovedAt
<1> HIDE DEF e
<1>2. \A h \in 1 .. Len(e) : From(h) \in 1 .. Len(d) /\ From(h) # i /\ e[h] = d[From(h)]
  BY <1>0, <1>1
<1>3. ASSUME NEW j \in 1 .. Len(d), j # i PROVE \E h \in 1 .. Len(e) : From(h) = j
  <2>1. CASE j < i
    BY <1>0, <1>1, <2>1
  <2>2. CASE j > i
    <3>1. j - 1 \in 1 .. Len(e) /\ From(j - 1) = j
      BY <1>0, <1>1, <2>2
    <3> QED
      BY <3>1
  <2> QED
    BY <1>0, <1>3, <2>1, <2>2
<1>4. HoldsOnce(e)
  <2> SUFFICES ASSUME NEW h \in 1 .. Len(e), NEW j \in 1 .. Len(e), e[h].key = e[j].key
               PROVE  h = j
    BY DEF HoldsOnce
  <2>1. From(h) = From(j)
    BY <1>2 DEF HoldsOnce
  <2> QED
    BY <1>0, <2>1
<1>5. \A h \in 1 .. Len(e) : e[h].key # k
  <2> SUFFICES ASSUME NEW h \in 1 .. Len(e) PROVE e[h].key # k
    OBVIOUS
  <2>1. From(h) \in 1 .. Len(d) /\ From(h) # i /\ e[h] = d[From(h)]
    BY <1>2
  <2> HIDE DEF From
  <2> QED
    BY <1>0, <2>1 DEF HoldsOnce
<1>6. ValueIn(e, k) = Free
  BY <1>1, <1>4, <1>5, ValueMissing
<1>7. ASSUME NEW h, h # k PROVE ValueIn(e, h) = ValueIn(d, h)
  <2>1. ASSUME NEW j \in 1 .. Len(d), d[j].key = h PROVE \E l \in 1 .. Len(e) : e[l] = d[j]
    <3>1. j # i
      BY <1>0, <1>7, <2>1
    <3>2. PICK l \in 1 .. Len(e) : From(l) = j
      BY <1>3, <3>1
    <3>3. e[l] = d[From(l)]
      BY <1>2
    <3> QED
      BY <3>2, <3>3
  <2>2. \A l \in 1 .. Len(e) : \E j \in 1 .. Len(d) : d[j] = e[l]
    BY <1>2
  <2> QED
    BY <1>1, <1>4, <2>1, <2>2, ValueSame
<1>8. \A h \in 1 .. Len(e) : \E j \in 1 .. Len(d) : e[h] = d[j]
  BY <1>2
<1> QED
  BY <1>1, <1>4, <1>6, <1>7, <1>8 DEF e
LEMMA BucketOf == ASSUME NEW k \in TableKeys PROVE get_bucket(k) \in Bucket
<1>1. k \in Nat /\ Buckets \in Nat /\ Buckets > 0
  BY TableAssumption
<1>2. k % Buckets \in 0 .. Buckets - 1
  BY <1>1
<1> QED
  BY <1>2 DEF get_bucket, Bucket

TableCall == [op : {"add"}, key : TableKeys, value : TableValues]
             \cup [op : {"value_for", "remove", "get_map"}, key : TableKeys, value : {Free}]

Answers == (SUBSET (TableValues \cup {Free})) \cup (SUBSET (TableKeys \X TableValues))

TableTypeOK ==
    /\ data_ \in [Bucket -> Seq(Pair)]
    /\ readers \in [Bucket -> SUBSET TableThreads]
    /\ writer \in [Bucket -> TableThreads \cup {Free}]
    /\ tablePc \in [TableThreads -> {"call", "lock", "find", "act", "lock_all", "copy", "return"}]
    /\ tableCall \in [TableThreads -> TableCall \cup {Free}]
    /\ foundEntry \in [TableThreads -> Int]
    /\ res \in [TableThreads -> SUBSET (TableKeys \X TableValues)]
    /\ tableAnswer \in [TableThreads -> Answers \cup {Free}]

\* A key is once in its own bucket's list, and in no other.
KeysInPlace ==
    \A b \in Bucket : /\ HoldsOnce(data_[b])
                      /\ \A i \in 1 .. Len(data_[b]) : get_bucket(data_[b][i].key) = b

\* Who writes a bucket shares it with nobody.
Exclusive == \A b \in Bucket : writer[b] # Free => readers[b] = {}

\* A thread has an argument while it is in a call, and an answer from the moment
\* it has decided it.
TableCallsInPlace ==
    \A t \in TableThreads :
        /\ tableCall[t] = Free <=> tablePc[t] = "call"
        /\ tableAnswer[t] # Free <=> tablePc[t] = "return"

\* The pairs of the buckets before the n-th.
MapBefore(n) ==
    {<<k, TableMap[k]>> : k \in {j \in TableKeys : get_bucket(j) < n /\ TableMap[j] # Free}}

\* Who works on one bucket has its mutex, and what it has found is still there.
OnBucket(t) ==
    /\ tablePc[t] \in {"lock", "find", "act"} => tableCall[t].op # "get_map"
    /\ tablePc[t] \in {"find", "act"} =>
           IF tableCall[t].op = "value_for" THEN t \in readers[At(t)] ELSE writer[At(t)] = t
    /\ tablePc[t] = "act" => foundEntry[t] = find_entry_for(data_[At(t)], tableCall[t].key)

\* Who reads them all has the mutexes of those it has come to, and then of all;
\* what it has copied is what they hold.
OnAllBuckets(t) ==
    /\ tablePc[t] \in {"lock_all", "copy"} => tableCall[t].op = "get_map" /\ foundEntry[t] \in Bucket
    /\ tablePc[t] = "lock_all" => \A b \in Bucket : b < foundEntry[t] => writer[b] = t
    /\ tablePc[t] = "copy" => /\ \A b \in Bucket : writer[b] = t
                              /\ res[t] = MapBefore(foundEntry[t])
    /\ tablePc[t] # "copy" => res[t] = {}

TableInv ==
    /\ TableTypeOK /\ KeysInPlace /\ Exclusive /\ TableCallsInPlace
    /\ \A t \in TableThreads : OnBucket(t) /\ OnAllBuckets(t)
------------------------------------------------------------------------------
LEMMA TableInitially == TableInit => TableInv
<1> SUFFICES ASSUME TableInit PROVE TableInv
  OBVIOUS
<1>1. \A b \in Bucket : data_[b] \in Seq(Pair) /\ Len(data_[b]) = 0
  BY DEF TableInit
<1>2. TableTypeOK
  <2>1. 0 \in Int
    OBVIOUS
  <2> QED
    BY <1>1, <2>1 DEF TableInit, TableTypeOK
<1>3. KeysInPlace
  BY <1>1 DEF KeysInPlace, HoldsOnce
<1> QED
  BY <1>2, <1>3 DEF TableInv, TableInit, Exclusive, TableCallsInPlace, OnBucket, OnAllBuckets

\* What a call asks for.
LEMMA InCall ==
    ASSUME TableInv, NEW t \in TableThreads, tablePc[t] # "call"
    PROVE  tableCall[t] \in TableCall /\ At(t) \in Bucket
<1>1. tableCall[t] \in TableCall
  BY DEF TableInv, TableTypeOK, TableCallsInPlace
<1> QED
  BY <1>1, BucketOf DEF TableCall, At

\* A step of t that leaves the lists as they are leaves the others where they are.
LEMMA OthersStay ==
    ASSUME TableInv, NEW t \in TableThreads,
           UNCHANGED data_,
           \A u \in TableThreads \ {t} :
               /\ tablePc'[u] = tablePc[u] /\ tableCall'[u] = tableCall[u]
               /\ foundEntry'[u] = foundEntry[u] /\ res'[u] = res[u]
               /\ \A b \in Bucket : /\ u \in readers[b] => u \in readers'[b]
                                    /\ writer[b] = u => writer'[b] = u
    PROVE  \A u \in TableThreads \ {t} : OnBucket(u)' /\ OnAllBuckets(u)'
<1> TAKE u \in TableThreads \ {t}
<1>1. \A n : MapBefore(n)' = MapBefore(n)
  BY DEF MapBefore, TableMap
<1>2. OnBucket(u) /\ OnAllBuckets(u)
  BY DEF TableInv
<1>3. tablePc[u] # "call" => At(u) \in Bucket /\ At(u)' = At(u)
  BY InCall DEF At
<1>4. OnBucket(u)'
  BY <1>2, <1>3 DEF OnBucket
<1>5. OnAllBuckets(u)'
  BY <1>1, <1>2 DEF OnAllBuckets
<1> QED
  BY <1>4, <1>5

LEMMA CallTableKeeps == ASSUME TableInv, NEW t \in TableThreads, CallTable(t) PROVE TableInv'
<1>1. PICK c \in TableCalls :
         /\ tableCall' = [tableCall EXCEPT ![t] = c]
         /\ tablePc[t] = "call"
         /\ tablePc' = [tablePc EXCEPT ![t] = IF c.op = "get_map" THEN "lock_all" ELSE "lock"]
  BY DEF CallTable, TableGoto
<1>2. /\ foundEntry' = [foundEntry EXCEPT ![t] = 0]
      /\ UNCHANGED <<data_, readers, writer, res, tableAnswer>>
  BY DEF CallTable
<1>3. c \in TableCall /\ c # Free
  <2>1. (CHOOSE k \in TableKeys : TRUE) \in TableKeys
    BY TableAssumption
  <2>2. c \in TableCall
    BY <2>1 DEF TableCalls, TableCall
  <2> QED
    BY <2>2, TableAssumption DEF TableCall
<1>4. /\ tableCall'[t] = c /\ foundEntry'[t] = 0
      /\ tablePc'[t] = IF c.op = "get_map" THEN "lock_all" ELSE "lock"
      /\ \A u \in TableThreads \ {t} : /\ tablePc'[u] = tablePc[u] /\ tableCall'[u] = tableCall[u]
                                       /\ foundEntry'[u] = foundEntry[u]
  BY <1>1, <1>2 DEF TableInv, TableTypeOK
<1>5. TableTypeOK'
  <2>1. tablePc' \in [TableThreads -> {"call", "lock", "find", "act", "lock_all", "copy", "return"}]
    BY <1>1 DEF TableInv, TableTypeOK
  <2>2. tableCall' \in [TableThreads -> TableCall \cup {Free}] /\ foundEntry' \in [TableThreads -> Int]
    BY <1>1, <1>2, <1>3 DEF TableInv, TableTypeOK
  <2> QED
    BY <1>2, <2>1, <2>2 DEF TableInv, TableTypeOK
<1>6. KeysInPlace' /\ Exclusive'
  BY <1>2 DEF TableInv, KeysInPlace, Exclusive
<1>7. TableCallsInPlace'
  BY <1>1, <1>2, <1>3, <1>4 DEF TableInv, TableCallsInPlace
<1>8. OnBucket(t)' /\ OnAllBuckets(t)'
  <2>1. 0 \in Bucket /\ \A b \in Bucket : ~(b < 0)
    BY TableAssumption DEF Bucket
  <2>2. res'[t] = {}
    BY <1>1, <1>2 DEF TableInv, OnAllBuckets
  <2> QED
    BY <1>4, <2>1, <2>2 DEF OnBucket, OnAllBuckets
<1>9. \A u \in TableThreads \ {t} : OnBucket(u)' /\ OnAllBuckets(u)'
  BY <1>2, <1>4, OthersStay
<1> QED
  BY <1>5, <1>6, <1>7, <1>8, <1>9 DEF TableInv

LEMMA LockBucketKeeps == ASSUME TableInv, NEW t \in TableThreads, LockBucket(t) PROVE TableInv'
<1>1. /\ tablePc[t] = "lock" /\ tablePc' = [tablePc EXCEPT ![t] = "find"]
      /\ UNCHANGED <<data_, tableCall, foundEntry, res, tableAnswer>>
      /\ writer[At(t)] = Free
  BY DEF LockBucket, TableGoto
<1>2. \/ /\ tableCall[t].op = "value_for" /\ writer' = writer
         /\ readers' = [readers EXCEPT ![At(t)] = @ \cup {t}]
      \/ /\ tableCall[t].op # "value_for" /\ readers' = readers /\ readers[At(t)] = {}
         /\ writer' = [writer EXCEPT ![At(t)] = t]
  BY DEF LockBucket
<1>3. At(t) \in Bucket /\ At(t)' = At(t) /\ tableCall[t].op # "get_map"
  BY <1>1, InCall DEF TableInv, OnBucket, At
<1>4. /\ tablePc'[t] = "find"
      /\ \A u \in TableThreads \ {t} : tablePc'[u] = tablePc[u]
  BY <1>1 DEF TableInv, TableTypeOK
<1>5. /\ \A b \in Bucket : /\ readers[b] \subseteq readers'[b]
                           /\ writer[b] # Free => writer'[b] = writer[b]
                           /\ b # At(t) => readers'[b] = readers[b] /\ writer'[b] = writer[b]
      /\ IF tableCall[t].op = "value_for" THEN t \in readers'[At(t)] /\ writer'[At(t)] = Free
                                          ELSE writer'[At(t)] = t /\ readers'[At(t)] = {}
  BY <1>1, <1>2, <1>3 DEF TableInv, TableTypeOK
<1>6. TableTypeOK'
  <2>1. tablePc' \in [TableThreads -> {"call", "lock", "find", "act", "lock_all", "copy", "return"}]
    BY <1>1 DEF TableInv, TableTypeOK
  <2>2. readers \in [Bucket -> SUBSET TableThreads] /\ writer \in [Bucket -> TableThreads \cup {Free}]
    BY DEF TableInv, TableTypeOK
  <2>3. readers' \in [Bucket -> SUBSET TableThreads]
    <3>1. readers[At(t)] \cup {t} \in SUBSET TableThreads
      BY <1>3, <2>2
    <3> QED
      BY <1>2, <2>2, <3>1
  <2>4. writer' \in [Bucket -> TableThreads \cup {Free}]
    BY <1>2, <2>2
  <2> QED
    BY <1>1, <2>1, <2>3, <2>4 DEF TableInv, TableTypeOK
<1>7. KeysInPlace' /\ Exclusive'
  BY <1>1, <1>5 DEF TableInv, KeysInPlace, Exclusive
<1>8. TableCallsInPlace'
  BY <1>1, <1>4 DEF TableInv, TableCallsInPlace
<1>9. OnBucket(t)' /\ OnAllBuckets(t)'
  <2>1. res'[t] = {}
    BY <1>1 DEF TableInv, OnAllBuckets
  <2> QED
    BY <1>1, <1>3, <1>4, <1>5, <2>1 DEF OnBucket, OnAllBuckets
<1>10. \A u \in TableThreads \ {t} : OnBucket(u)' /\ OnAllBuckets(u)'
  <2>1. Free \notin TableThreads
    BY TableAssumption
  <2> QED
    BY <1>1, <1>4, <1>5, <2>1, OthersStay
<1> QED
  BY <1>6, <1>7, <1>8, <1>9, <1>10 DEF TableInv

LEMMA FindEntryKeeps == ASSUME TableInv, NEW t \in TableThreads, FindEntry(t) PROVE TableInv'
<1>1. /\ tablePc[t] = "find" /\ tablePc' = [tablePc EXCEPT ![t] = "act"]
      /\ UNCHANGED <<data_, readers, writer, tableCall, res, tableAnswer>>
      /\ foundEntry' = [foundEntry EXCEPT ![t] = find_entry_for(data_[At(t)], tableCall[t].key)]
  BY DEF FindEntry, TableGoto
<1>2. At(t) \in Bucket /\ At(t)' = At(t)
  BY <1>1, InCall DEF At
<1>3. find_entry_for(data_[At(t)], tableCall[t].key) \in Int
  <2>1. data_[At(t)] \in Seq(Pair) /\ HoldsOnce(data_[At(t)])
    BY <1>2 DEF TableInv, TableTypeOK, KeysInPlace
  <2> QED
    BY <2>1, FoundAt
<1>4. /\ tablePc'[t] = "act" /\ foundEntry'[t] = find_entry_for(data_[At(t)], tableCall[t].key)
      /\ \A u \in TableThreads \ {t} : tablePc'[u] = tablePc[u] /\ foundEntry'[u] = foundEntry[u]
  BY <1>1 DEF TableInv, TableTypeOK
<1>5. TableTypeOK'
  BY <1>1, <1>3 DEF TableInv, TableTypeOK
<1>6. KeysInPlace' /\ Exclusive' /\ TableCallsInPlace'
  BY <1>1, <1>4 DEF TableInv, KeysInPlace, Exclusive, TableCallsInPlace
<1>7. OnBucket(t)' /\ OnAllBuckets(t)'
  <2>1. /\ tableCall[t].op # "get_map" /\ res'[t] = {}
        /\ IF tableCall[t].op = "value_for" THEN t \in readers[At(t)] ELSE writer[At(t)] = t
    BY <1>1 DEF TableInv, OnBucket, OnAllBuckets
  <2> QED
    BY <1>1, <1>2, <1>4, <2>1 DEF OnBucket, OnAllBuckets
<1>8. \A u \in TableThreads \ {t} : OnBucket(u)' /\ OnAllBuckets(u)'
  BY <1>1, <1>4, OthersStay
<1> QED
  BY <1>5, <1>6, <1>7, <1>8 DEF TableInv

LEMMA LockNextKeeps == ASSUME TableInv, NEW t \in TableThreads, LockNextBucket(t) PROVE TableInv'
<1> DEFINE i == foundEntry[t]
<1>1. /\ tablePc[t] = "lock_all"
      /\ tablePc' = [tablePc EXCEPT ![t] = IF i = Buckets - 1 THEN "copy" ELSE "lock_all"]
      /\ writer[i] = Free /\ readers[i] = {}
      /\ writer' = [writer EXCEPT ![i] = t]
      /\ foundEntry' = [foundEntry EXCEPT ![t] = IF i = Buckets - 1 THEN 0 ELSE i + 1]
      /\ UNCHANGED <<data_, readers, tableCall, res, tableAnswer>>
  BY DEF LockNextBucket, TableGoto
<1>2. /\ i \in Bucket /\ tableCall[t].op = "get_map" /\ res[t] = {}
      /\ \A b \in Bucket : b < i => writer[b] = t
  BY <1>1 DEF TableInv, OnAllBuckets
<1>3. i \in Int /\ 0 <= i /\ i <= Buckets - 1 /\ Buckets \in Nat /\ Buckets > 0
  BY <1>2, TableAssumption DEF Bucket
<1> HIDE DEF i
<1>4. /\ tablePc'[t] = IF i = Buckets - 1 THEN "copy" ELSE "lock_all"
      /\ foundEntry'[t] = IF i = Buckets - 1 THEN 0 ELSE i + 1
      /\ writer'[i] = t /\ \A b \in Bucket \ {i} : writer'[b] = writer[b]
      /\ \A u \in TableThreads \ {t} : tablePc'[u] = tablePc[u] /\ foundEntry'[u] = foundEntry[u]
  BY <1>1, <1>2 DEF TableInv, TableTypeOK
<1>5. TableTypeOK'
  <2>1. tablePc' \in [TableThreads -> {"call", "lock", "find", "act", "lock_all", "copy", "return"}]
    BY <1>1 DEF TableInv, TableTypeOK
  <2>2. writer' \in [Bucket -> TableThreads \cup {Free}]
    BY <1>1 DEF TableInv, TableTypeOK
  <2>3. foundEntry' \in [TableThreads -> Int]
    <3>1. (IF i = Buckets - 1 THEN 0 ELSE i + 1) \in Int
      BY <1>3
    <3> QED
      BY <1>1, <3>1 DEF TableInv, TableTypeOK
  <2> QED
    BY <1>1, <2>1, <2>2, <2>3 DEF TableInv, TableTypeOK
<1>6. KeysInPlace' /\ Exclusive'
  BY <1>1, <1>4 DEF TableInv, KeysInPlace, Exclusive
<1>7. TableCallsInPlace'
  BY <1>1, <1>4 DEF TableInv, TableCallsInPlace
<1>8. OnBucket(t)' /\ OnAllBuckets(t)'
  <2>1. foundEntry'[t] \in Bucket
    BY <1>3, <1>4 DEF Bucket
  <2>2. \A b \in Bucket : b \in Int /\ 0 <= b /\ b <= Buckets - 1
    BY <1>3 DEF Bucket
  <2>3. \A b \in Bucket : b <= i => writer'[b] = t
    BY <1>2, <1>3, <1>4, <2>2
  <2>4. tablePc'[t] = "lock_all" => \A b \in Bucket : b < foundEntry'[t] => writer'[b] = t
    BY <1>3, <1>4, <2>2, <2>3
  <2>5. tablePc'[t] = "copy" => /\ \A b \in Bucket : writer'[b] = t
                                /\ res'[t] = MapBefore(foundEntry[t])'
    <3>1. SUFFICES ASSUME tablePc'[t] = "copy"
                   PROVE  /\ \A b \in Bucket : writer'[b] = t
                          /\ res'[t] = MapBefore(foundEntry[t])'
      OBVIOUS
    <3>2. i = Buckets - 1 /\ foundEntry'[t] = 0
      BY <1>4, <3>1
    <3>3. \A k \in TableKeys : ~(get_bucket(k) < 0)
      BY <2>2, BucketOf
    <3>4. MapBefore(foundEntry[t])' = {}
      BY <3>2, <3>3 DEF MapBefore
    <3> QED
      BY <1>1, <1>2, <2>2, <2>3, <3>2, <3>4
  <2> QED
    BY <1>1, <1>2, <1>4, <2>1, <2>4, <2>5 DEF OnBucket, OnAllBuckets
<1>9. \A u \in TableThreads \ {t} : OnBucket(u)' /\ OnAllBuckets(u)'
  <2>1. Free \notin TableThreads
    BY TableAssumption
  <2> QED
    BY <1>1, <1>4, <2>1, OthersStay
<1> QED
  BY <1>5, <1>6, <1>7, <1>8, <1>9 DEF TableInv

LEMMA ReturnFromTableKeeps ==
    ASSUME TableInv, NEW t \in TableThreads, ReturnFromTable(t) PROVE TableInv'
<1>1. /\ tablePc[t] = "return" /\ tablePc' = [tablePc EXCEPT ![t] = "call"]
      /\ readers' = [b \in Bucket |-> readers[b] \ {t}]
      /\ writer' = [b \in Bucket |-> IF writer[b] = t THEN Free ELSE writer[b]]
      /\ tableCall' = [tableCall EXCEPT ![t] = Free]
      /\ tableAnswer' = [tableAnswer EXCEPT ![t] = Free]
      /\ foundEntry' = [foundEntry EXCEPT ![t] = 0]
      /\ UNCHANGED <<data_, res>>
  BY DEF ReturnFromTable, TableGoto
<1>2. /\ tablePc'[t] = "call" /\ tableCall'[t] = Free /\ tableAnswer'[t] = Free
      /\ \A u \in TableThreads \ {t} : /\ tablePc'[u] = tablePc[u] /\ tableCall'[u] = tableCall[u]
                                       /\ tableAnswer'[u] = tableAnswer[u]
                                       /\ foundEntry'[u] = foundEntry[u]
  BY <1>1 DEF TableInv, TableTypeOK
<1>3. TableTypeOK'
  BY <1>1 DEF TableInv, TableTypeOK
<1>4. KeysInPlace' /\ Exclusive'
  <2>1. \A b \in Bucket : writer'[b] # Free => readers'[b] = {}
    BY <1>1 DEF TableInv, Exclusive
  <2> QED
    BY <1>1, <2>1 DEF TableInv, KeysInPlace, Exclusive
<1>5. TableCallsInPlace'
  BY <1>2 DEF TableInv, TableCallsInPlace
<1>6. OnBucket(t)' /\ OnAllBuckets(t)'
  <2>1. res'[t] = {}
    BY <1>1 DEF TableInv, OnAllBuckets
  <2> QED
    BY <1>2, <2>1 DEF OnBucket, OnAllBuckets
<1>7. \A u \in TableThreads \ {t} : OnBucket(u)' /\ OnAllBuckets(u)'
  BY <1>1, <1>2, OthersStay
<1> QED
  BY <1>3, <1>4, <1>5, <1>6, <1>7 DEF TableInv

\* What a call does to the list of its bucket, and to the map.
LEMMA EntryUsed ==
    ASSUME TableInv, NEW t \in TableThreads, UseEntry(t)
    PROVE  LET c == tableCall[t]
               d == data_'[At(t)]
           IN  /\ c.op # "get_map" /\ (c.op = "value_for" => data_' = data_)
               /\ d \in Seq(Pair) /\ HoldsOnce(d)
               /\ \A i \in 1 .. Len(d) : get_bucket(d[i].key) = At(t)
               /\ data_' = [data_ EXCEPT ![At(t)] = d]
               /\ TableMap' = IF c.op \in {"add", "remove"} THEN [TableMap EXCEPT ![c.key] = c.value]
                                                            ELSE TableMap
               /\ tableAnswer' = [tableAnswer EXCEPT ![t] = IF c.op = "value_for" THEN {TableMap[c.key]}
                                                                                  ELSE {}]
<1> DEFINE c == tableCall[t]
           b == At(t)
           d == data_[b]
           i == foundEntry[t]
           new == [key |-> c.key, value |-> c.value]
           e == CASE c.op = "add" -> IF i > Len(d) THEN Append(d, new) ELSE [d EXCEPT ![i] = new]
                  [] c.op = "remove" -> IF i > Len(d) THEN d ELSE RemoveAt(d, i)
                  [] OTHER -> d
<1>1. /\ tablePc[t] = "act"
      /\ data_' = [data_ EXCEPT ![b] = e]
      /\ tableAnswer' = [tableAnswer EXCEPT ![t] =
                            IF c.op # "value_for" THEN {}
                            ELSE IF i > Len(d) THEN {Free} ELSE {d[i].value}]
  BY DEF UseEntry, TableGoto
<1>2. /\ c \in TableCall /\ c.op # "get_map" /\ b \in Bucket /\ b = get_bucket(c.key)
      /\ i = find_entry_for(d, c.key)
  BY <1>1, InCall DEF TableInv, OnBucket, At
<1>3. d \in Seq(Pair) /\ HoldsOnce(d) /\ \A j \in 1 .. Len(d) : get_bucket(d[j].key) = b
  BY <1>2 DEF TableInv, TableTypeOK, KeysInPlace
<1>4. c.key \in TableKeys /\ (c.op = "add" => new \in Pair) /\ (c.op = "remove" => c.value = Free)
  BY <1>2 DEF TableCall, Pair
<1>5. \A x : get_bucket(x)' = get_bucket(x)
  BY DEF get_bucket
<1>6. /\ new.key = c.key /\ new.value = c.value
      /\ c.op \in {"add", "remove", "value_for"}
  BY <1>2 DEF TableCall
<1> HIDE DEF c, b, d, i, new
<1>7. /\ e \in Seq(Pair) /\ HoldsOnce(e)
      /\ \A j \in 1 .. Len(e) : get_bucket(e[j].key) = b
      /\ \A h : h # c.key => ValueIn(e, h) = ValueIn(d, h)
      /\ c.op \in {"add", "remove"} => ValueIn(e, c.key) = c.value
      /\ c.op = "value_for" => e = d
  <2>1. CASE c.op = "add" /\ i > Len(d)
    <3>1. e = Append(d, new) /\ new \in Pair
      BY <1>4, <2>1
    <3> HIDE DEF e
    <3>2. /\ e \in Seq(Pair) /\ HoldsOnce(e) /\ ValueIn(e, c.key) = c.value
          /\ \A h : h # c.key => ValueIn(e, h) = ValueIn(d, h)
          /\ \A h \in 1 .. Len(e) : e[h] = new \/ \E j \in 1 .. Len(d) : e[h] = d[j]
      BY <1>2, <1>3, <1>6, <2>1, <3>1, PairAdded
    <3>3. \A j \in 1 .. Len(e) : get_bucket(e[j].key) = b
      BY <1>2, <1>3, <1>6, <3>2
    <3> QED
      BY <2>1, <3>2, <3>3
  <2>2. CASE c.op = "add" /\ ~(i > Len(d))
    <3>1. e = [d EXCEPT ![i] = new]
      BY <2>2
    <3> HIDE DEF e
    <3>4. new \in Pair /\ i = find_entry_for(d, new.key) /\ ~(i > Len(d))
      BY <1>2, <1>4, <1>6, <2>2
    <3>5. /\ e \in Seq(Pair) /\ Len(e) = Len(d)
          /\ \A j \in 1 .. Len(d) : e[j] = IF j = i THEN new ELSE d[j]
      <4>1. i \in 1 .. Len(d)
        BY <1>3, <3>4, FoundAt
      <4> QED
        BY <1>3, <3>1, <3>4, <4>1
    <3>2. /\ e \in Seq(Pair) /\ HoldsOnce(e) /\ ValueIn(e, c.key) = c.value
          /\ \A h : h # c.key => ValueIn(e, h) = ValueIn(d, h)
          /\ \A h \in 1 .. Len(e) : e[h] = new \/ \E j \in 1 .. Len(d) : e[h] = d[j]
      BY <1>3, <1>6, <3>4, <3>5, PairReplaced
    <3>3. \A j \in 1 .. Len(e) : get_bucket(e[j].key) = b
      BY <1>2, <1>3, <1>6, <3>2
    <3> QED
      BY <2>2, <3>2, <3>3
  <2>3. CASE c.op = "remove" /\ i > Len(d)
    <3>1. e = d
      BY <2>3
    <3>2. ValueIn(d, c.key) = Free
      BY <1>2, <2>3 DEF ValueIn
    <3> HIDE DEF e
    <3> QED
      BY <1>3, <1>4, <2>3, <3>1, <3>2
  <2>4. CASE c.op = "remove" /\ ~(i > Len(d))
    <3>1. e = RemoveAt(d, i)
      BY <2>4
    <3> HIDE DEF e
    <3>2. /\ e \in Seq(Pair) /\ HoldsOnce(e) /\ ValueIn(e, c.key) = Free
          /\ \A h : h # c.key => ValueIn(e, h) = ValueIn(d, h)
          /\ \A h \in 1 .. Len(e) : \E j \in 1 .. Len(d) : e[h] = d[j]
      BY <1>2, <1>3, <2>4, <3>1, PairRemoved
    <3>3. \A j \in 1 .. Len(e) : get_bucket(e[j].key) = b
      BY <1>3, <3>2
    <3> QED
      BY <1>4, <2>4, <3>2, <3>3
  <2>5. CASE c.op = "value_for"
    <3>1. e = d
      BY <2>5
    <3> HIDE DEF e
    <3> QED
      BY <1>3, <2>5, <3>1
  <2> QED
    BY <1>6, <2>1, <2>2, <2>3, <2>4, <2>5
<1> HIDE DEF e
<1>8. data_ \in [Bucket -> Seq(Pair)]
  BY DEF TableInv, TableTypeOK
<1>9. data_'[b] = e /\ \A a \in Bucket \ {b} : data_'[a] = data_[a]
  BY <1>1, <1>2, <1>8
<1>10. ASSUME NEW k \in TableKeys
       PROVE  ValueIn(data_'[get_bucket(k)], k) =
                  IF k = c.key /\ c.op \in {"add", "remove"} THEN c.value ELSE TableMap[k]
  <2>1. TableMap[k] = ValueIn(data_[get_bucket(k)], k) /\ get_bucket(k) \in Bucket
    BY BucketOf DEF TableMap
  <2>2. CASE get_bucket(k) # b
    BY <1>2, <1>9, <2>1, <2>2
  <2>3. CASE get_bucket(k) = b
    <3>1. TableMap[k] = ValueIn(d, k)
      BY <2>1, <2>3 DEF d
    <3> QED
      BY <1>6, <1>7, <1>9, <2>3, <3>1
  <2> QED
    BY <2>2, <2>3
<1>11. TableMap' = IF c.op \in {"add", "remove"} THEN [TableMap EXCEPT ![c.key] = c.value]
                                                 ELSE TableMap
  <2>1. TableMap' = [k \in TableKeys |-> ValueIn(data_'[get_bucket(k)], k)]
    BY <1>5 DEF TableMap, ValueIn
  <2>2. TableMap = [k \in TableKeys |-> TableMap[k]] /\ TableMap' = [k \in TableKeys |-> TableMap'[k]]
    BY DEF TableMap
  <2>3. \A k \in TableKeys : TableMap'[k] = IF k = c.key /\ c.op \in {"add", "remove"}
                                            THEN c.value ELSE TableMap[k]
    BY <1>10, <2>1
  <2> HIDE DEF TableMap
  <2>4. CASE c.op \in {"add", "remove"}
    <3>1. TableMap' = [k \in TableKeys |-> IF k = c.key THEN c.value ELSE TableMap[k]]
      BY <2>2, <2>3, <2>4, Zenon
    <3>2. [TableMap EXCEPT ![c.key] = c.value] = [k \in TableKeys |-> IF k = c.key THEN c.value ELSE TableMap[k]]
      BY <2>2
    <3> QED
      BY <2>4, <3>1, <3>2
  <2>5. CASE c.op \notin {"add", "remove"}
    <3>1. \A k \in TableKeys : TableMap'[k] = TableMap[k]
      BY <2>3, <2>5
    <3>2. TableMap' = TableMap
      BY <2>2, <3>1, Zenon
    <3> QED
      BY <2>5, <3>2
  <2> QED
    BY <2>4, <2>5
<1>12. tableAnswer' = [tableAnswer EXCEPT ![t] = IF c.op = "value_for" THEN {TableMap[c.key]} ELSE {}]
  <2>1. TableMap[c.key] = IF i > Len(d) THEN Free ELSE d[i].value
    BY <1>2, <1>4 DEF TableMap, ValueIn, d
  <2> QED
    BY <1>1, <2>1
<1>13. c.op = "value_for" => data_' = data_
  BY <1>1, <1>7, <1>8 DEF d
<1>14. data_' = [data_ EXCEPT ![b] = data_'[b]]
  BY <1>1, <1>9
<1> QED
  BY <1>2, <1>7, <1>9, <1>11, <1>12, <1>13, <1>14 DEF c, b

LEMMA UseEntryKeeps == ASSUME TableInv, NEW t \in TableThreads, UseEntry(t) PROVE TableInv'
<1> DEFINE c == tableCall[t]
           b == At(t)
           d == data_'[b]
<1>1. /\ tablePc[t] = "act" /\ tablePc' = [tablePc EXCEPT ![t] = "return"]
      /\ UNCHANGED <<readers, writer, tableCall, foundEntry, res>>
  BY DEF UseEntry, TableGoto
<1>2. /\ b \in Bucket /\ b' = b /\ c \in TableCall
      /\ IF c.op = "value_for" THEN t \in readers[b] ELSE writer[b] = t
  BY <1>1, InCall DEF TableInv, OnBucket, At
<1>3. /\ c.op # "get_map" /\ (c.op = "value_for" => data_' = data_)
      /\ d \in Seq(Pair) /\ HoldsOnce(d)
      /\ \A i \in 1 .. Len(d) : get_bucket(d[i].key) = b
      /\ data_' = [data_ EXCEPT ![b] = d]
      /\ tableAnswer' = [tableAnswer EXCEPT ![t] = IF c.op = "value_for" THEN {TableMap[c.key]} ELSE {}]
  BY EntryUsed
<1> HIDE DEF c, d, b
<1>4. /\ tablePc'[t] = "return"
      /\ \A u \in TableThreads \ {t} : tablePc'[u] = tablePc[u]
      /\ \A a \in Bucket \ {b} : data_'[a] = data_[a]
  BY <1>1, <1>3 DEF TableInv, TableTypeOK
<1>5. (IF c.op = "value_for" THEN {TableMap[c.key]} ELSE {}) \in Answers
  <2>1. c.key \in TableKeys
    BY <1>2 DEF TableCall
  <2>2. data_[get_bucket(c.key)] \in Seq(Pair) /\ HoldsOnce(data_[get_bucket(c.key)])
    BY <2>1, BucketOf DEF TableInv, TableTypeOK, KeysInPlace
  <2>3. TableMap[c.key] \in TableValues \cup {Free}
    <3> DEFINE l == data_[get_bucket(c.key)]
               i == find_entry_for(l, c.key)
    <3>1. l \in Seq(Pair) /\ i \in 1 .. Len(l) + 1 /\ Len(l) \in Nat
      BY <2>2, FoundAt
    <3>2. TableMap[c.key] = IF i > Len(l) THEN Free ELSE l[i].value
      BY <2>1 DEF TableMap, ValueIn
    <3> HIDE DEF l, i
    <3>3. ~(i > Len(l)) => l[i] \in Pair
      BY <3>1
    <3> QED
      BY <3>2, <3>3 DEF Pair
  <2> QED
    BY <2>3 DEF Answers
<1>6. /\ tableAnswer'[t] # Free /\ tableAnswer'[t] \in Answers
      /\ \A u \in TableThreads \ {t} : tableAnswer'[u] = tableAnswer[u]
  <2>1. \A answer \in Answers : answer # Free
    BY TableAssumption DEF Answers
  <2> QED
    BY <1>3, <1>5, <2>1 DEF TableInv, TableTypeOK
<1>7. TableTypeOK'
  <2>1. data_' \in [Bucket -> Seq(Pair)]
    BY <1>3 DEF TableInv, TableTypeOK
  <2>2. tableAnswer' \in [TableThreads -> Answers \cup {Free}]
    BY <1>3, <1>5 DEF TableInv, TableTypeOK
  <2>3. tablePc' \in [TableThreads -> {"call", "lock", "find", "act", "lock_all", "copy", "return"}]
    BY <1>1 DEF TableInv, TableTypeOK
  <2> QED
    BY <1>1, <2>1, <2>2, <2>3 DEF TableInv, TableTypeOK
<1>8. KeysInPlace' /\ Exclusive'
  <2>1. \A a \in Bucket : a = b \/ (data_'[a] = data_[a] /\ a # b)
    BY <1>4
  <2>2. ASSUME NEW a \in Bucket
        PROVE  /\ HoldsOnce(data_'[a])
               /\ \A i \in 1 .. Len(data_'[a]) : get_bucket(data_'[a][i].key) = a
    <3>1. CASE a = b
      BY <1>3, <3>1 DEF d
    <3>2. CASE data_'[a] = data_[a]
      BY <3>2 DEF TableInv, KeysInPlace
    <3> QED
      BY <2>1, <3>1, <3>2
  <2>3. KeysInPlace'
    BY <2>2 DEF KeysInPlace, HoldsOnce, get_bucket
  <2> QED
    BY <1>1, <2>3 DEF TableInv, Exclusive
<1>9. TableCallsInPlace'
  BY <1>1, <1>4, <1>6 DEF TableInv, TableCallsInPlace
<1>10. OnBucket(t)' /\ OnAllBuckets(t)'
  <2>1. res'[t] = {}
    BY <1>1 DEF TableInv, OnAllBuckets
  <2> QED
    BY <1>4, <2>1 DEF OnBucket, OnAllBuckets
<1>11. ASSUME NEW u \in TableThreads \ {t} PROVE OnBucket(u)' /\ OnAllBuckets(u)'
  <2>1. CASE c.op = "value_for"
    BY <1>1, <1>3, <1>4, <2>1, OthersStay
  <2>2. CASE c.op # "value_for"
    <3>1. writer[b] = t /\ readers[b] = {} /\ t # u
      BY <1>2, <2>2, TableAssumption DEF TableInv, Exclusive
    <3>2. OnBucket(u) /\ OnAllBuckets(u)
      BY DEF TableInv
    <3>3. tablePc[u] # "copy"
      BY <1>2, <3>1, <3>2 DEF OnAllBuckets
    <3>4. tablePc[u] \in {"find", "act"} => At(u) \in Bucket /\ At(u) # b /\ At(u)' = At(u)
      BY <1>1, <3>1, <3>2, InCall DEF OnBucket, At
    <3>5. tablePc[u] = "act" => data_'[At(u)] = data_[At(u)] /\ At(u)' = At(u)
      BY <1>4, <3>4
    <3>6. At(u)' = At(u)
      BY <1>1 DEF At, get_bucket
    <3>7. OnBucket(u)'
      <4>1. tablePc[u] = "act" => (foundEntry[u] = find_entry_for(data_[At(u)], tableCall[u].key))'
        BY <1>1, <3>2, <3>5 DEF OnBucket, find_entry_for
      <4> QED
        BY <1>1, <1>4, <3>2, <3>6, <4>1 DEF OnBucket
    <3>8. OnAllBuckets(u)'
      BY <1>1, <1>4, <3>2, <3>3 DEF OnAllBuckets
    <3> QED
      BY <3>7, <3>8
  <2> QED
    BY <2>1, <2>2
<1> QED
  BY <1>7, <1>8, <1>9, <1>10, <1>11 DEF TableInv

\* A bucket holds the pairs of the map whose keys belong to it.
LEMMA BucketCopied ==
    ASSUME TableInv, NEW i \in Bucket
    PROVE  LET d == data_[i]
           IN  MapBefore(i) \cup {<<d[j].key, d[j].value>> : j \in 1 .. Len(d)} = MapBefore(i + 1)
<1> DEFINE d == data_[i]
           here == {<<d[j].key, d[j].value>> : j \in 1 .. Len(d)}
<1>1. d \in Seq(Pair) /\ HoldsOnce(d) /\ \A j \in 1 .. Len(d) : get_bucket(d[j].key) = i
  BY DEF TableInv, TableTypeOK, KeysInPlace
<1>2. i \in Int /\ \A k \in TableKeys : get_bucket(k) \in Int
  BY BucketOf DEF Bucket
<1>3. \A k \in TableKeys : get_bucket(k) = i => TableMap[k] = ValueIn(d, k)
  BY DEF TableMap
<1> HIDE DEF d
<1>4. ASSUME NEW j \in 1 .. Len(d)
      PROVE  /\ d[j].key \in TableKeys /\ get_bucket(d[j].key) = i
             /\ TableMap[d[j].key] = d[j].value /\ d[j].value # Free
  <2>1. d[j] \in Pair
    BY <1>1
  <2>2. d[j].key \in TableKeys /\ d[j].value # Free
    BY <2>1, TableAssumption DEF Pair
  <2>3. ValueIn(d, d[j].key) = d[j].value
    BY <1>1, ValueThere
  <2> QED
    BY <1>1, <1>3, <2>2, <2>3
<1>5. ASSUME NEW k \in TableKeys, get_bucket(k) = i, TableMap[k] # Free
      PROVE  <<k, TableMap[k]>> \in here
  <2>1. PICK j \in 1 .. Len(d) : d[j].key = k
    BY <1>1, <1>3, <1>5, ValueMissing
  <2> QED
    BY <1>4, <2>1
<1>6. ASSUME NEW x \in here PROVE x \in MapBefore(i + 1)
  <2>1. PICK j \in 1 .. Len(d) : x = <<d[j].key, d[j].value>>
    OBVIOUS
  <2>2. x = <<d[j].key, TableMap[d[j].key]>> /\ d[j].key \in TableKeys
        /\ get_bucket(d[j].key) < i + 1 /\ TableMap[d[j].key] # Free
    BY <1>2, <1>4, <2>1
  <2> QED
    BY <2>2 DEF MapBefore
<1>7. MapBefore(i) \subseteq MapBefore(i + 1)
  BY <1>2 DEF MapBefore
<1>8. ASSUME NEW x \in MapBefore(i + 1) PROVE x \in MapBefore(i) \/ x \in here
  <2>1. PICK k \in TableKeys : x = <<k, TableMap[k]>> /\ get_bucket(k) < i + 1 /\ TableMap[k] # Free
    BY DEF MapBefore
  <2>2. CASE get_bucket(k) = i
    BY <1>5, <2>1, <2>2
  <2>3. CASE get_bucket(k) < i
    BY <2>1, <2>3 DEF MapBefore
  <2> QED
    BY <1>2, <2>1, <2>2, <2>3
<1> HIDE DEF here
<1>9. MapBefore(i) \cup here = MapBefore(i + 1)
  BY <1>6, <1>7, <1>8
<1> QED
  BY <1>9 DEF here, d

\* What a step of get_map has copied.
LEMMA CopyStep ==
    ASSUME TableInv, NEW t \in TableThreads, CopyNextBucket(t)
    PROVE  LET i == foundEntry[t]
               last == i = Buckets - 1
           IN  /\ i \in Bucket /\ tableCall[t].op = "get_map" /\ tablePc[t] = "copy"
               /\ tablePc' = [tablePc EXCEPT ![t] = IF last THEN "return" ELSE "copy"]
               /\ foundEntry' = [foundEntry EXCEPT ![t] = i + 1]
               /\ res' = [res EXCEPT ![t] = IF last THEN {} ELSE MapBefore(i + 1)]
               /\ tableAnswer' = [tableAnswer EXCEPT ![t] = IF last THEN MapBefore(i + 1) ELSE @]
               /\ UNCHANGED <<data_, readers, writer, tableCall>>
<1> DEFINE i == foundEntry[t]
           d == data_[i]
           first == {j \in 1 .. Len(d) : \A h \in 1 .. j - 1 : d[h].key # d[j].key}
           last == i = Buckets - 1
           copied == res[t] \cup {<<d[j].key, d[j].value>> : j \in first}
<1>1. /\ tablePc[t] = "copy"
      /\ tablePc' = [tablePc EXCEPT ![t] = IF last THEN "return" ELSE "copy"]
      /\ foundEntry' = [foundEntry EXCEPT ![t] = i + 1]
      /\ res' = [res EXCEPT ![t] = IF last THEN {} ELSE copied]
      /\ tableAnswer' = [tableAnswer EXCEPT ![t] = IF last THEN copied ELSE @]
      /\ UNCHANGED <<data_, readers, writer, tableCall>>
  BY DEF CopyNextBucket, TableGoto
<1>2. i \in Bucket /\ tableCall[t].op = "get_map" /\ res[t] = MapBefore(i)
  BY <1>1 DEF TableInv, OnAllBuckets
<1>3. first = 1 .. Len(d)
  <2>1. HoldsOnce(d) /\ d \in Seq(Pair)
    BY <1>2 DEF TableInv, TableTypeOK, KeysInPlace
  <2> HIDE DEF d
  <2>2. ASSUME NEW j \in 1 .. Len(d), NEW h \in 1 .. j - 1 PROVE d[h].key # d[j].key
    <3>1. Len(d) \in Nat
      BY <2>1
    <3>2. h \in 1 .. Len(d) /\ h # j
      BY <3>1
    <3> QED
      BY <2>1, <3>2 DEF HoldsOnce
  <2> QED
    BY <2>2
<1>4. copied = MapBefore(i + 1)
  <2>1. MapBefore(i) \cup {<<d[j].key, d[j].value>> : j \in 1 .. Len(d)} = MapBefore(i + 1)
    BY <1>2, BucketCopied
  <2> HIDE DEF d
  <2> QED
    BY <1>2, <1>3, <2>1
<1> HIDE DEF copied
<1> QED
  BY <1>1, <1>2, <1>4

LEMMA CopyNextKeeps == ASSUME TableInv, NEW t \in TableThreads, CopyNextBucket(t) PROVE TableInv'
<1> DEFINE i == foundEntry[t]
           last == i = Buckets - 1
<1>1. /\ i \in Bucket /\ tableCall[t].op = "get_map" /\ tablePc[t] = "copy"
      /\ tablePc' = [tablePc EXCEPT ![t] = IF last THEN "return" ELSE "copy"]
      /\ foundEntry' = [foundEntry EXCEPT ![t] = i + 1]
      /\ res' = [res EXCEPT ![t] = IF last THEN {} ELSE MapBefore(i + 1)]
      /\ tableAnswer' = [tableAnswer EXCEPT ![t] = IF last THEN MapBefore(i + 1) ELSE @]
      /\ UNCHANGED <<data_, readers, writer, tableCall>>
  BY CopyStep
<1>2. i \in Int /\ i >= 0 /\ i <= Buckets - 1 /\ Buckets \in Nat
  BY <1>1, TableAssumption DEF Bucket
<1>3. /\ MapBefore(i + 1) \in SUBSET (TableKeys \X TableValues)
      /\ MapBefore(i + 1) \in Answers /\ MapBefore(i + 1) # Free
  <2>1. ASSUME NEW k \in TableKeys, TableMap[k] # Free PROVE TableMap[k] \in TableValues
    <3> DEFINE l == data_[get_bucket(k)]
               e == find_entry_for(l, k)
    <3>1. l \in Seq(Pair) /\ HoldsOnce(l)
      BY BucketOf DEF TableInv, TableTypeOK, KeysInPlace
    <3>2. e \in 1 .. Len(l) + 1 /\ Len(l) \in Nat
      BY <3>1, FoundAt
    <3>3. TableMap[k] = IF e > Len(l) THEN Free ELSE l[e].value
      BY DEF TableMap, ValueIn
    <3> HIDE DEF l, e
    <3>4. ~(e > Len(l)) => l[e] \in Pair
      BY <3>1, <3>2
    <3> QED
      BY <2>1, <3>3, <3>4 DEF Pair
  <2>2. MapBefore(i + 1) \in SUBSET (TableKeys \X TableValues)
    BY <2>1 DEF MapBefore
  <2>3. MapBefore(i + 1) \in Answers
    BY <2>2 DEF Answers
  <2>4. \A answer \in Answers : answer # Free
    BY TableAssumption DEF Answers
  <2> QED
    BY <2>2, <2>3, <2>4
<1> HIDE DEF i
<1>4. /\ tablePc'[t] = IF last THEN "return" ELSE "copy"
      /\ foundEntry'[t] = i + 1
      /\ res'[t] = IF last THEN {} ELSE MapBefore(i + 1)
      /\ tableAnswer'[t] = IF last THEN MapBefore(i + 1) ELSE tableAnswer[t]
      /\ \A u \in TableThreads \ {t} : /\ tablePc'[u] = tablePc[u] /\ foundEntry'[u] = foundEntry[u]
                                       /\ res'[u] = res[u] /\ tableAnswer'[u] = tableAnswer[u]
  BY <1>1 DEF TableInv, TableTypeOK
<1>5. TableTypeOK'
  <2>1. tablePc' \in [TableThreads -> {"call", "lock", "find", "act", "lock_all", "copy", "return"}]
    BY <1>1 DEF TableInv, TableTypeOK
  <2>2. foundEntry' \in [TableThreads -> Int]
    BY <1>1, <1>2 DEF TableInv, TableTypeOK
  <2>3. res' \in [TableThreads -> SUBSET (TableKeys \X TableValues)]
    <3>1. (IF last THEN {} ELSE MapBefore(i + 1)) \in SUBSET (TableKeys \X TableValues)
      BY <1>3
    <3> QED
      BY <1>1, <3>1 DEF TableInv, TableTypeOK
  <2>4. tableAnswer' \in [TableThreads -> Answers \cup {Free}]
    <3>1. (IF last THEN MapBefore(i + 1) ELSE tableAnswer[t]) \in Answers \cup {Free}
      BY <1>3 DEF TableInv, TableTypeOK
    <3> QED
      BY <1>1, <3>1 DEF TableInv, TableTypeOK
  <2> QED
    BY <1>1, <2>1, <2>2, <2>3, <2>4 DEF TableInv, TableTypeOK
<1>6. KeysInPlace' /\ Exclusive'
  BY <1>1 DEF TableInv, KeysInPlace, Exclusive
<1>7. TableCallsInPlace'
  BY <1>1, <1>3, <1>4 DEF TableInv, TableCallsInPlace
<1>8. OnBucket(t)' /\ OnAllBuckets(t)'
  <2>1. \A n : MapBefore(n)' = MapBefore(n)
    BY <1>1 DEF MapBefore, TableMap
  <2>2. MapBefore(foundEntry[t])' = MapBefore(i + 1)
    BY <1>1, <1>4 DEF MapBefore, TableMap
  <2>3. ~last => i + 1 \in Bucket
    BY <1>2 DEF Bucket
  <2>4. \A b \in Bucket : writer[b] = t
    BY <1>1 DEF TableInv, OnAllBuckets
  <2> QED
    BY <1>1, <1>4, <2>2, <2>3, <2>4 DEF OnBucket, OnAllBuckets
<1>9. \A u \in TableThreads \ {t} : OnBucket(u)' /\ OnAllBuckets(u)'
  BY <1>1, <1>4, OthersStay
<1> QED
  BY <1>5, <1>6, <1>7, <1>8, <1>9 DEF TableInv

LEMMA TableStands == ASSUME TableInv, UNCHANGED tableVars PROVE TableInv'
<1>1. UNCHANGED <<data_, readers, writer, tablePc, tableCall, foundEntry, res, tableAnswer>>
  BY DEF tableVars
<1>2. TableTypeOK' /\ KeysInPlace' /\ Exclusive' /\ TableCallsInPlace'
  BY <1>1 DEF TableInv, TableTypeOK, KeysInPlace, Exclusive, TableCallsInPlace
<1>3. ASSUME NEW t \in TableThreads PROVE OnBucket(t)' /\ OnAllBuckets(t)'
  <2>1. OnBucket(t) /\ OnAllBuckets(t)
    BY DEF TableInv
  <2>2. OnBucket(t)'
    BY <1>1, <2>1 DEF OnBucket, At
  <2>3. OnAllBuckets(t)'
    BY <1>1, <2>1 DEF OnAllBuckets, MapBefore, TableMap
  <2> QED
    BY <2>2, <2>3
<1> QED
  BY <1>2, <1>3 DEF TableInv

LEMMA TableKeeps == TableInv /\ [TableNext]_tableVars => TableInv'
<1>1. ASSUME TableInv, NEW t \in TableThreads, TableStep(t) PROVE TableInv'
  BY <1>1, CallTableKeeps, LockBucketKeeps, FindEntryKeeps, UseEntryKeeps, LockNextKeeps,
     CopyNextKeeps, ReturnFromTableKeeps DEF TableStep
<1> QED
  BY <1>1, TableStands DEF TableNext, TableDone
------------------------------------------------------------------------------
\* Every step is a call, a return, the moment at which a call takes effect, or
\* changes nothing that is promised.
LEMMA TableImplements ==
    ASSUME TableInv, [TableNext]_tableVars PROVE [TableShared!Next]_TableShared!vars
<1>1. CASE UNCHANGED tableVars \/ TableDone
  BY <1>1 DEF TableDone, tableVars, TableShared!vars, TableMap
<1>2. ASSUME NEW t \in TableThreads, TableStep(t) PROVE [TableShared!Next]_TableShared!vars
  <2>1. CASE CallTable(t)
    <3>1. PICK c \in TableCalls : tableCall' = [tableCall EXCEPT ![t] = c] /\ tablePc[t] = "call"
      BY <2>1 DEF CallTable, TableGoto
    <3>2. tableCall[t] = Free /\ TableMap' = TableMap /\ tableAnswer' = tableAnswer
      BY <2>1, <3>1 DEF CallTable, TableInv, TableCallsInPlace, TableMap
    <3>3. PICK op \in {"value_for", "add", "remove", "get_map"}, k \in TableKeys,
               v \in TableValues \cup {Free} : c = [op |-> op, key |-> k, value |-> v]
      <4>1. (CHOOSE k \in TableKeys : TRUE) \in TableKeys
        BY TableAssumption
      <4> QED
        BY <4>1 DEF TableCalls
    <3>4. TableShared!Call(t, op, k, v)
      BY <3>1, <3>2, <3>3 DEF TableShared!Call
    <3> QED
      BY <3>4 DEF TableShared!Next
  <2>2. CASE LockBucket(t) \/ FindEntry(t) \/ LockNextBucket(t)
    <3>1. UNCHANGED <<data_, tableCall, tableAnswer>>
      BY <2>2 DEF LockBucket, FindEntry, LockNextBucket
    <3> QED
      BY <3>1 DEF TableShared!vars, TableMap
  <2>3. CASE UseEntry(t)
    <3>1. /\ tablePc[t] = "act" /\ UNCHANGED tableCall
          /\ tableCall[t] # Free /\ tableAnswer[t] = Free
      BY <2>3 DEF UseEntry, TableGoto, TableInv, TableCallsInPlace
    <3>2. /\ tableCall[t].op # "get_map"
          /\ TableMap' = IF tableCall[t].op \in {"add", "remove"}
                         THEN [TableMap EXCEPT ![tableCall[t].key] = tableCall[t].value] ELSE TableMap
          /\ tableAnswer' = [tableAnswer EXCEPT ![t] = IF tableCall[t].op = "value_for"
                                                       THEN {TableMap[tableCall[t].key]} ELSE {}]
      BY <2>3, EntryUsed
    <3> HIDE DEF TableMap
    <3>3. TableShared!Effect(t)
      BY <3>1, <3>2 DEF TableShared!Effect
    <3> QED
      BY <3>3 DEF TableShared!Next
  <2>4. CASE CopyNextBucket(t)
    <3>1. /\ foundEntry[t] \in Bucket /\ tableCall[t].op = "get_map" /\ tablePc[t] = "copy"
          /\ tableAnswer' = [tableAnswer EXCEPT ![t] =
                                IF foundEntry[t] = Buckets - 1 THEN MapBefore(foundEntry[t] + 1) ELSE @]
          /\ UNCHANGED <<data_, tableCall>>
      BY <2>4, CopyStep
    <3>2. TableMap' = TableMap /\ tableCall[t] # Free /\ tableAnswer[t] = Free
      BY <3>1 DEF TableMap, TableInv, TableCallsInPlace
    <3>3. CASE foundEntry[t] = Buckets - 1
      <4>1. foundEntry[t] + 1 = Buckets
        BY <3>3, TableAssumption
      <4>2. \A k \in TableKeys : get_bucket(k) < Buckets
        BY BucketOf, TableAssumption DEF Bucket
      <4>3. MapBefore(Buckets) = {<<k, TableMap[k]>> : k \in {j \in TableKeys : TableMap[j] # Free}}
        BY <4>2 DEF MapBefore
      <4>4. tableAnswer' = [tableAnswer EXCEPT ![t] = MapBefore(Buckets)]
        BY <3>1, <3>3, <4>1
      <4>5. TableShared!Effect(t)
        BY <3>1, <3>2, <4>3, <4>4 DEF TableShared!Effect
      <4> QED
        BY <4>5 DEF TableShared!Next
    <3>4. CASE foundEntry[t] # Buckets - 1
      <4>1. tableAnswer' = tableAnswer
        BY <3>1, <3>4 DEF TableInv, TableTypeOK
      <4> QED
        BY <3>1, <3>2, <4>1 DEF TableShared!vars
    <3> QED
      BY <3>3, <3>4
  <2>5. CASE ReturnFromTable(t)
    <3>1. /\ tablePc[t] = "return" /\ tableCall' = [tableCall EXCEPT ![t] = Free]
          /\ tableAnswer' = [tableAnswer EXCEPT ![t] = Free] /\ UNCHANGED data_
      BY <2>5 DEF ReturnFromTable, TableGoto
    <3>2. tableAnswer[t] # Free /\ TableMap' = TableMap
      BY <3>1 DEF TableMap, TableInv, TableCallsInPlace
    <3>3. TableShared!Return(t)
      BY <3>1, <3>2 DEF TableShared!Return
    <3> QED
      BY <3>3 DEF TableShared!Next
  <2> QED
    BY <1>2, <2>1, <2>2, <2>3, <2>4, <2>5 DEF TableStep
<1> QED
  BY <1>1, <1>2 DEF TableNext

\* The buckets of the lookup table, each behind a mutex of its own, are one map:
\* every call reads or changes it at one moment between its call and its return,
\* get_map, which reads bucket after bucket, as well.
THEOREM TableImplemented == TableSpec => TableIsMap
<1>1. TableInit => TableShared!Init
  <2> SUFFICES ASSUME TableInit PROVE TableShared!Init
    OBVIOUS
  <2>1. ASSUME NEW k \in TableKeys PROVE ValueIn(data_[get_bucket(k)], k) = Free
    <3>1. data_[get_bucket(k)] = << >>
      BY BucketOf DEF TableInit
    <3> DEFINE d == data_[get_bucket(k)]
    <3>2. /\ d \in Seq(Pair) /\ HoldsOnce(d)
          /\ \A j \in 1 .. Len(d) : d[j].key # k
      BY <3>1 DEF HoldsOnce
    <3> HIDE DEF d
    <3>3. ValueIn(d, k) = Free
      BY <3>2, ValueMissing
    <3> QED
      BY <3>3 DEF d
  <2>2. TableMap = [k \in TableKeys |-> Free]
    BY <2>1 DEF TableMap
  <2> QED
    BY <2>2 DEF TableInit, TableShared!Init
<1>2. TableInv /\ [TableNext]_tableVars => [TableShared!Next]_TableShared!vars
  BY TableImplements
<1> QED
  BY <1>1, <1>2, TableInitially, TableKeeps, PTL DEF TableSpec, TableIsMap, TableShared!Spec
------------------------------------------------------------------------------
(* The bits of the PLRU cache.  The root's bit is written in the first      *)
(* round of update_plru only.  In the rounds that follow pos is another     *)
(* node's, and that its residue modulo the width of the word is none but    *)
(* pos needs the number of rounds: level_ is how often way_num_ is halved   *)
(* to reach 0, and the loop halves in step with that.  No power of two is   *)
(* written down: row, the number of nodes beside the one at pos and itself, *)
(* doubles from round to round, and so divides the width of the word.       *)

\* h lists n and what is left of it each time it is halved.
Halves(h, n, rounds, rest) ==
    /\ h \in [0 .. rounds -> Nat]
    /\ h[0] = n
    /\ \A k \in 1 .. rounds : h[k - 1] > 0 /\ h[k] = h[k - 1] \div 2
    /\ h[rounds] = rest

\* pos is in a row of the tree with ways left of way_num_ ways below it.
InRow(pos, left, row) ==
    /\ row \in Nat \ {0}
    /\ row * left <= way_num_
    /\ row <= pos + 1 /\ pos + 1 < 2 * row
    /\ \E times \in Nat \ {0} : row * times = WordBits /\ PowerOfTwo(times)

PlruTypeOK ==
    /\ way_num_ \in Nat
    /\ level_ \in Nat
    /\ plruPc \in {"constructor", "update_plru", "idle"}
    /\ loop \in [i : Nat, way : Nat, pos : Nat, mid : Nat]
    /\ used \in Nat \cup {-1}

LevelsCounted ==
    \E h : Halves(h, way_num_, level_, IF plruPc = "constructor" THEN loop.i ELSE 0)

AtNode ==
    \E h, row : /\ Halves(h, way_num_, level_, 0)
                /\ loop.i <= level_
                /\ loop.mid = h[loop.i] \div 2
                /\ InRow(loop.pos, h[loop.i], row)

OnlyInnerBits == plru_value_ \subseteq 0 .. way_num_ - 2

RootRight == way_num_ >= 2 => (0 \in plru_value_ <=> used < way_num_ \div 2)

UpdateRuns ==
    /\ AtNode
    /\ used # -1
    /\ loop.i = 0 => loop.pos = 0 /\ loop.way = used /\ loop.mid = way_num_ \div 2
    /\ loop.i > 0 => loop.pos > 0 /\ RootRight

PlruInv ==
    /\ PlruTypeOK
    /\ LevelsCounted
    /\ plruPc = "constructor" => used = -1
    /\ way_num_ < WordBits =>
          /\ OnlyInnerBits
          /\ plruPc = "update_plru" => UpdateRuns
          /\ plruPc = "idle" /\ used # -1 => RootRight
------------------------------------------------------------------------------
\* Halving the ways below a node while the row doubles takes no more ways.
LEMMA HalfTheWays ==
    ASSUME NEW row \in Nat, NEW left \in Nat
    PROVE  (2 * row) * (left \div 2) <= row * left
<1>1. PICK half \in Nat : half = left \div 2
  OBVIOUS
<1>2. PICK rest \in Nat : left = 2 * half + rest
  BY <1>1
<1>3. row * left = (2 * row) * half + row * rest
  BY <1>2
<1>4. row * rest \in Nat /\ (2 * row) * half \in Nat
  OBVIOUS
<1>5. QED
  BY <1>1, <1>3, <1>4

\* A power of two is 1, or twice a power of two.
LEMMA HalfAPower ==
    ASSUME NEW n \in Nat, PowerOfTwo(n), n # 1
    PROVE  \E half \in Nat \ {0} : n = 2 * half /\ PowerOfTwo(half)
<1>1. n > 0 /\ \A p, q \in 1 .. n : p * q = n /\ p # 1 => p % 2 = 0
  BY DEF PowerOfTwo
<1>2. n % 2 = 0
  <2>1. n \in 1 .. n /\ 1 \in 1 .. n /\ n * 1 = n
    BY <1>1
  <2>2. QED
    BY <1>1, <2>1
<1>3. PICK half \in Nat \ {0} : n = 2 * half
  <2>1. n = 2 * (n \div 2) /\ n \div 2 \in Nat \ {0}
    BY <1>1, <1>2
  <2>2. QED
    BY <2>1
<1>4. ASSUME NEW p \in 1 .. half, NEW q \in 1 .. half, p * q = half, p # 1
      PROVE  p % 2 = 0
  <2>1. p * (2 * q) = n
    BY <1>3, <1>4
  <2>2. p \in 1 .. n /\ 2 * q \in 1 .. n
    BY <1>3
  <2>3. QED
    BY <1>1, <1>4, <2>1, <2>2
<1>5. PowerOfTwo(half)
  BY <1>3, <1>4 DEF PowerOfTwo
<1>6. QED
  BY <1>3, <1>5

\* A round with way_num_ ways below it, of fewer ways than bits, is at a bit of
\* the word, and the next row has room in the word, too.
LEMMA RowFits ==
    ASSUME WayAssumption, NEW pos \in Nat, NEW left \in Nat, NEW row,
           way_num_ \in Nat, way_num_ < WordBits, left > 0, InRow(pos, left, row)
    PROVE  /\ pos % WordBits = pos
           /\ left >= 2 => pos <= way_num_ - 2
           /\ InRow(2 * pos + 1, left \div 2, 2 * row)
           /\ InRow(2 * pos + 2, left \div 2, 2 * row)
<1>1. /\ row \in Nat \ {0} /\ row * left <= way_num_
      /\ row <= pos + 1 /\ pos + 1 < 2 * row
  BY DEF InRow
<1>2. PICK times \in Nat \ {0} : row * times = WordBits /\ PowerOfTwo(times)
  BY DEF InRow
<1>3. row <= row * left /\ (left >= 2 => 2 * row <= row * left)
  <2>1. PICK more \in Nat : left = 1 + more
    <3>1. left = 1 + (left - 1) /\ left - 1 \in Nat
      OBVIOUS
    <3>2. QED
      BY <3>1
  <2>2. row * left = row + row * more /\ row * more \in Nat
    BY <1>1, <2>1
  <2>3. ASSUME left >= 2 PROVE row * more >= row
    <3>1. PICK yet \in Nat : more = 1 + yet
      <4>1. more = 1 + (more - 1) /\ more - 1 \in Nat
        BY <2>1, <2>3
      <4>2. QED
        BY <4>1
    <3>2. row * more = row + row * yet /\ row * yet \in Nat
      BY <1>1, <3>1
    <3>3. QED
      BY <1>1, <3>2
  <2>4. QED
    BY <1>1, <2>2, <2>3
<1>4. WordBits \in Nat
  BY DEF WayAssumption
<1>5. times # 1
  <2>1. SUFFICES ASSUME times = 1 PROVE FALSE
    OBVIOUS
  <2>2. row = WordBits
    BY <1>1, <1>2, <2>1
  <2>3. row * left \in Nat
    BY <1>1
  <2>4. QED
    BY <1>1, <1>3, <1>4, <2>2, <2>3
<1>6. PICK half \in Nat \ {0} : times = 2 * half /\ PowerOfTwo(half)
  BY <1>2, <1>5, HalfAPower
<1>7. (2 * row) * half = WordBits
  BY <1>1, <1>2, <1>6
<1>8. 2 * row <= WordBits
  <2>1. PICK more \in Nat : half = 1 + more
    <3>1. half = 1 + (half - 1) /\ half - 1 \in Nat
      OBVIOUS
    <3>2. QED
      BY <3>1
  <2>2. (2 * row) * half = 2 * row + (2 * row) * more /\ (2 * row) * more \in Nat
    BY <1>1, <2>1
  <2>3. QED
    BY <1>1, <1>7, <2>2
<1>9. pos < WordBits
  BY <1>1, <1>4, <1>8
<1>10. pos % WordBits = pos
  BY <1>4, <1>9
<1>11. (2 * row) * (left \div 2) <= way_num_
  <2>1. (2 * row) * (left \div 2) <= row * left
    BY <1>1, HalfTheWays
  <2>2. left \div 2 \in Nat
    OBVIOUS
  <2>3. (2 * row) * (left \div 2) \in Nat /\ row * left \in Nat
    BY <1>1, <2>2
  <2>4. QED
    BY <1>1, <2>1, <2>3
<1>12. left >= 2 => pos <= way_num_ - 2
  <2>1. row * left \in Nat
    BY <1>1
  <2>2. QED
    BY <1>1, <1>3, <2>1
<1>13. ASSUME NEW next \in {2 * pos + 1, 2 * pos + 2}
       PROVE  InRow(next, left \div 2, 2 * row)
  <2>1. 2 * row \in Nat \ {0} /\ 2 * row <= next + 1 /\ next + 1 < 2 * (2 * row)
    BY <1>1
  <2>2. QED
    BY <1>6, <1>7, <1>11, <2>1 DEF InRow
<1>14. QED
  BY <1>10, <1>12, <1>13

\* A cache with ways has levels, and a round that is not the last has ways below
\* it and halves them.
LEMMA RoundsLeft ==
    ASSUME NEW h, NEW n \in Nat, NEW rounds \in Nat, Halves(h, n, rounds, 0)
    PROVE  /\ n > 0 => rounds > 0
           /\ \A i \in 0 .. rounds : h[i] \in Nat
           /\ \A i \in 0 .. rounds - 1 : h[i] > 0 /\ h[i + 1] = h[i] \div 2
<1>1. /\ h \in [0 .. rounds -> Nat] /\ h[0] = n /\ h[rounds] = 0
      /\ \A k \in 1 .. rounds : h[k - 1] > 0 /\ h[k] = h[k - 1] \div 2
  BY DEF Halves
<1>2. ASSUME NEW i \in 0 .. rounds - 1 PROVE h[i] > 0 /\ h[i + 1] = h[i] \div 2
  <2>1. i + 1 \in 1 .. rounds /\ (i + 1) - 1 = i
    OBVIOUS
  <2>2. h[(i + 1) - 1] > 0 /\ h[i + 1] = h[(i + 1) - 1] \div 2
    BY <1>1, <2>1
  <2>3. QED
    BY <2>1, <2>2
<1>3. n > 0 => rounds > 0
  BY <1>1
<1>4. QED
  BY <1>1, <1>2, <1>3

LEMMA PlruInitially == ASSUME WayAssumption, PlruInit PROVE PlruInv
<1>1. way_num_ \in Nat
  BY DEF WayAssumption, PlruInit
<1>2. PlruTypeOK
  BY <1>1 DEF PlruTypeOK, PlruInit
<1>3. LevelsCounted
  <2>1. Halves([k \in 0 .. 0 |-> way_num_], way_num_, 0, way_num_)
    BY <1>1 DEF Halves
  <2>2. QED
    BY <2>1 DEF LevelsCounted, PlruInit
<1>4. QED
  BY <1>2, <1>3 DEF PlruInv, PlruInit, OnlyInnerBits

LEMMA CountLevelKeeps ==
    ASSUME PlruInv, CountLevel
    PROVE  PlruInv'
<1>1. /\ PlruTypeOK /\ used = -1 /\ (way_num_ < WordBits => OnlyInnerBits)
      /\ loop.i > 0 /\ level_' = level_ + 1 /\ loop' = [loop EXCEPT !.i = @ \div 2]
      /\ plruPc = "constructor" /\ plruPc' = plruPc
      /\ way_num_' = way_num_ /\ plru_value_' = plru_value_ /\ used' = used
  BY DEF PlruInv, CountLevel
<1>2. loop.i \in Nat /\ loop'.i = loop.i \div 2 /\ loop'.i \in Nat /\ level_ \in Nat
  BY <1>1 DEF PlruTypeOK
<1>3. PlruTypeOK'
  BY <1>1, <1>2 DEF PlruTypeOK
<1>4. LevelsCounted'
  <2>1. PICK h : Halves(h, way_num_, level_, loop.i)
    BY <1>1 DEF PlruInv, LevelsCounted
  <2>2. /\ h \in [0 .. level_ -> Nat] /\ h[0] = way_num_ /\ h[level_] = loop.i
        /\ \A k \in 1 .. level_ : h[k - 1] > 0 /\ h[k] = h[k - 1] \div 2
    BY <2>1 DEF Halves
  <2> DEFINE g == [k \in 0 .. level_ + 1 |-> IF k <= level_ THEN h[k] ELSE loop.i \div 2]
  <2>3. g \in [0 .. level_ + 1 -> Nat] /\ g[0] = way_num_ /\ g[level_ + 1] = loop.i \div 2
    BY <1>2, <2>2
  <2>4. ASSUME NEW k \in 1 .. level_ + 1 PROVE g[k - 1] > 0 /\ g[k] = g[k - 1] \div 2
    <3>1. g[k - 1] = h[k - 1]
      BY <1>2
    <3>2. CASE k = level_ + 1
      <4>1. h[k - 1] = loop.i /\ g[k] = loop.i \div 2
        BY <1>2, <2>2, <2>3, <3>2
      <4>2. QED
        BY <1>1, <3>1, <4>1
    <3>3. CASE k # level_ + 1
      <4>1. k \in 1 .. level_ /\ g[k] = h[k]
        BY <1>2, <3>3
      <4>2. QED
        BY <2>2, <3>1, <4>1
    <3>4. QED
      BY <3>2, <3>3
  <2> HIDE DEF g
  <2>5. Halves(g, way_num_, level_ + 1, loop.i \div 2)
    BY <2>3, <2>4 DEF Halves
  <2>6. QED
    BY <1>1, <1>2, <2>5 DEF LevelsCounted
<1>5. OnlyInnerBits' <=> OnlyInnerBits
  BY <1>1 DEF OnlyInnerBits
<1>6. QED
  BY <1>1, <1>3, <1>4, <1>5 DEF PlruInv

LEMMA ConstructedKeeps ==
    ASSUME PlruInv, Constructed
    PROVE  PlruInv'
<1>1. /\ PlruTypeOK /\ used = -1 /\ (way_num_ < WordBits => OnlyInnerBits)
      /\ loop.i = 0 /\ plruPc = "constructor" /\ plruPc' = "idle"
      /\ way_num_' = way_num_ /\ level_' = level_ /\ plru_value_' = plru_value_
      /\ loop' = loop /\ used' = used
  BY DEF PlruInv, Constructed
<1>2. PlruTypeOK'
  BY <1>1 DEF PlruTypeOK
<1>3. LevelsCounted'
  BY <1>1 DEF PlruInv, LevelsCounted
<1>4. OnlyInnerBits' <=> OnlyInnerBits
  BY <1>1 DEF OnlyInnerBits
<1>5. QED
  BY <1>1, <1>2, <1>3, <1>4 DEF PlruInv

LEMMA UpdatePlruKeeps ==
    ASSUME WayAssumption, PlruInv, NEW way \in 0 .. way_num_, UpdatePlru(way)
    PROVE  PlruInv'
<1>1. /\ PlruTypeOK /\ LevelsCounted /\ (way_num_ < WordBits => OnlyInnerBits)
      /\ plruPc = "idle" /\ plruPc' = "update_plru" /\ way < way_num_
      /\ loop' = [i |-> 0, way |-> way, pos |-> 0, mid |-> way_num_ \div 2]
      /\ way_num_' = way_num_ /\ level_' = level_ /\ plru_value_' = plru_value_
      /\ used' = way
  BY DEF PlruInv, UpdatePlru
<1>2. way_num_ \in Nat /\ level_ \in Nat /\ way \in Nat /\ way_num_ \div 2 \in Nat
  BY <1>1 DEF PlruTypeOK
<1>3. /\ loop'.i = 0 /\ loop'.way = way /\ loop'.pos = 0 /\ loop'.mid = way_num_ \div 2
      /\ loop' \in [i : Nat, way : Nat, pos : Nat, mid : Nat]
  BY <1>1, <1>2
<1>4. PlruTypeOK'
  BY <1>1, <1>2, <1>3 DEF PlruTypeOK
<1>5. PICK h : Halves(h, way_num_, level_, 0)
  BY <1>1 DEF LevelsCounted
<1>6. LevelsCounted'
  BY <1>1, <1>5 DEF LevelsCounted
<1>7. InRow(0, way_num_, 1)'
  <2>1. WordBits \in Nat \ {0} /\ PowerOfTwo(WordBits)
    BY DEF WayAssumption, PowerOfTwo
  <2>2. 1 * WordBits = WordBits /\ 1 * way_num_ <= way_num_
    BY <1>2, <2>1
  <2>3. InRow(0, way_num_, 1)
    BY <2>1, <2>2 DEF InRow
  <2>4. QED
    BY <1>1, <2>3 DEF InRow
<1>8. AtNode'
  <2>1. h[0] = way_num_ /\ Halves(h, way_num_, level_, 0)'
    BY <1>1, <1>5 DEF Halves
  <2>2. InRow(loop.pos, h[loop.i], 1)'
    BY <1>1, <1>3, <1>7, <2>1 DEF InRow
  <2>3. (loop.i <= level_ /\ loop.mid = h[loop.i] \div 2)'
    BY <1>1, <1>2, <1>3, <2>1
  <2>4. QED
    BY <2>1, <2>2, <2>3 DEF AtNode
<1>9. UpdateRuns'
  BY <1>1, <1>2, <1>3, <1>8 DEF UpdateRuns
<1>10. OnlyInnerBits' <=> OnlyInnerBits
  BY <1>1 DEF OnlyInnerBits
<1>11. QED
  BY <1>1, <1>4, <1>6, <1>9, <1>10 DEF PlruInv

LEMMA RoundKeeps ==
    ASSUME WayAssumption, PlruInv, Round
    PROVE  PlruInv'
<1>1. /\ PlruTypeOK /\ LevelsCounted
      /\ plruPc = "update_plru" /\ plruPc' = plruPc /\ loop.i < level_
      /\ way_num_' = way_num_ /\ level_' = level_ /\ used' = used
  BY DEF PlruInv, Round
<1>2. /\ way_num_ \in Nat /\ level_ \in Nat
      /\ loop.i \in Nat /\ loop.way \in Nat /\ loop.pos \in Nat /\ loop.mid \in Nat
  BY <1>1 DEF PlruTypeOK
<1>3. /\ loop'.i = loop.i + 1 /\ loop'.mid = loop.mid \div 2
      /\ loop'.pos \in {2 * loop.pos + 1, 2 * loop.pos + 2}
      /\ loop' \in [i : Nat, way : Nat, pos : Nat, mid : Nat]
  <2>1. loop.mid \div 2 \in Nat
    BY <1>2
  <2>2. CASE /\ loop.way >= loop.mid
             /\ loop' = [i |-> loop.i + 1, way |-> loop.way - loop.mid,
                         pos |-> 2 * loop.pos + 2, mid |-> loop.mid \div 2]
    BY <1>2, <2>1, <2>2
  <2>3. CASE loop' = [i |-> loop.i + 1, way |-> loop.way,
                      pos |-> 2 * loop.pos + 1, mid |-> loop.mid \div 2]
    BY <1>2, <2>1, <2>3
  <2>4. QED
    BY <2>2, <2>3 DEF Round
<1>4. PlruTypeOK'
  BY <1>1, <1>3 DEF PlruTypeOK
<1>5. LevelsCounted'
  BY <1>1 DEF LevelsCounted
<1>6. ASSUME way_num_ < WordBits
      PROVE  OnlyInnerBits' /\ UpdateRuns'
  <2>1. OnlyInnerBits /\ UpdateRuns
    BY <1>1, <1>6 DEF PlruInv
  <2>2. PICK h, row : /\ Halves(h, way_num_, level_, 0)
                      /\ loop.mid = h[loop.i] \div 2
                      /\ InRow(loop.pos, h[loop.i], row)
    BY <2>1 DEF UpdateRuns, AtNode
  <2>3. /\ h[loop.i] \in Nat /\ h[loop.i] > 0
        /\ h[loop.i + 1] = h[loop.i] \div 2
    <3>1. loop.i \in 0 .. level_ - 1 /\ loop.i \in 0 .. level_
      BY <1>1, <1>2
    <3>2. QED
      BY <1>2, <2>2, <3>1, RoundsLeft
  <2>4. /\ loop.pos % WordBits = loop.pos
        /\ h[loop.i] >= 2 => loop.pos <= way_num_ - 2
        /\ InRow(2 * loop.pos + 1, h[loop.i] \div 2, 2 * row)
        /\ InRow(2 * loop.pos + 2, h[loop.i] \div 2, 2 * row)
    BY <1>2, <1>6, <2>2, <2>3, RowFits
  <2>5. \/ /\ loop.way >= loop.mid
           /\ plru_value_' = plru_value_ \ {loop.pos}
        \/ /\ loop.way < loop.mid
           /\ plru_value_' = plru_value_ \cup {loop.pos}
    BY <2>4 DEF Round
  <2>6. OnlyInnerBits'
    <3>1. loop.way < loop.mid => loop.pos \in 0 .. way_num_ - 2
      <4>1. loop.way < loop.mid => h[loop.i] >= 2
        BY <1>2, <2>2, <2>3
      <4>2. QED
        BY <1>2, <2>4, <4>1
    <3>2. QED
      BY <1>1, <2>1, <2>5, <3>1 DEF OnlyInnerBits
  <2>7. AtNode'
    <3>1. InRow(loop'.pos, h[loop'.i], 2 * row)
      BY <1>3, <2>3, <2>4
    <3>2. InRow(loop.pos, h[loop.i], 2 * row)'
      BY <1>1, <3>1 DEF InRow
    <3>3. loop'.i <= level_ /\ loop'.mid = h[loop'.i] \div 2
      BY <1>1, <1>2, <1>3, <2>2, <2>3
    <3>4. Halves(h, way_num_, level_, 0)'
      BY <1>1, <2>2 DEF Halves
    <3>5. (loop.i <= level_ /\ loop.mid = h[loop.i] \div 2)'
      BY <1>1, <3>3
    <3>6. QED
      BY <3>2, <3>4, <3>5 DEF AtNode
  <2>8. RootRight'
    <3>1. CASE loop.i = 0
      <4>1. loop.pos = 0 /\ loop.way = used /\ loop.mid = way_num_ \div 2
        BY <2>1, <3>1 DEF UpdateRuns
      <4>2. 0 \in plru_value_' <=> used < way_num_ \div 2
        BY <1>2, <2>5, <4>1
      <4>3. QED
        BY <1>1, <4>2 DEF RootRight
    <3>2. CASE loop.i # 0
      <4>1. loop.pos # 0 /\ RootRight
        BY <1>2, <2>1, <3>2 DEF UpdateRuns
      <4>2. 0 \in plru_value_' <=> 0 \in plru_value_
        BY <2>5, <4>1
      <4>3. QED
        BY <1>1, <4>1, <4>2 DEF RootRight
    <3>3. QED
      BY <3>1, <3>2
  <2>9. loop'.i # 0 /\ loop'.pos > 0 /\ used' # -1
    BY <1>1, <1>2, <1>3, <2>1 DEF UpdateRuns
  <2>10. UpdateRuns'
    BY <2>7, <2>8, <2>9 DEF UpdateRuns
  <2>11. QED
    BY <2>6, <2>10
<1>7. QED
  BY <1>1, <1>4, <1>5, <1>6 DEF PlruInv

LEMMA UpdatedKeeps ==
    ASSUME PlruInv, Updated
    PROVE  PlruInv'
<1>1. /\ PlruTypeOK /\ LevelsCounted
      /\ plruPc = "update_plru" /\ plruPc' = "idle" /\ loop.i >= level_
      /\ way_num_' = way_num_ /\ level_' = level_ /\ plru_value_' = plru_value_
      /\ loop' = loop /\ used' = used
  BY DEF PlruInv, Updated
<1>2. PlruTypeOK'
  BY <1>1 DEF PlruTypeOK
<1>3. LevelsCounted'
  BY <1>1 DEF LevelsCounted
<1>4. ASSUME way_num_ < WordBits PROVE OnlyInnerBits' /\ RootRight'
  <2>1. OnlyInnerBits /\ UpdateRuns
    BY <1>1, <1>4 DEF PlruInv
  <2>2. way_num_ \in Nat /\ level_ \in Nat /\ loop.i \in Nat
    BY <1>1 DEF PlruTypeOK
  <2>3. PICK h : Halves(h, way_num_, level_, 0)
    BY <2>1 DEF UpdateRuns, AtNode
  <2>4. way_num_ > 0 => loop.i > 0
    <3>1. way_num_ > 0 => level_ > 0
      BY <2>2, <2>3, RoundsLeft
    <3>2. QED
      BY <1>1, <2>2, <3>1
  <2>5. RootRight
    BY <2>1, <2>2, <2>4 DEF UpdateRuns, RootRight
  <2>6. QED
    BY <1>1, <2>1, <2>5 DEF OnlyInnerBits, RootRight
<1>5. QED
  BY <1>1, <1>2, <1>3, <1>4 DEF PlruInv

LEMMA PlruUnchanged ==
    ASSUME PlruInv, UNCHANGED plruVars
    PROVE  PlruInv'
<1>1. UNCHANGED <<way_num_, level_, plru_value_, plruPc, loop, used>>
  BY DEF plruVars
<1>2. PlruTypeOK' /\ LevelsCounted'
  BY <1>1 DEF PlruInv, PlruTypeOK, LevelsCounted
<1>3. (OnlyInnerBits' <=> OnlyInnerBits) /\ (RootRight' <=> RootRight)
  BY <1>1 DEF OnlyInnerBits, RootRight
<1>4. UpdateRuns => UpdateRuns'
  <2>1. AtNode => AtNode'
    BY <1>1 DEF AtNode, InRow
  <2>2. QED
    BY <1>1, <1>3, <2>1 DEF UpdateRuns
<1>5. QED
  BY <1>1, <1>2, <1>3, <1>4 DEF PlruInv

\* RootNamesHalf, for caches of any size and a word of any width that is a power
\* of two: while there are fewer ways than bits, no round of update_plru shifts
\* past the word and none after the first writes the root's bit, so that bit
\* names the half of the way used last, whether or not the number of ways is a
\* power of two.
THEOREM RootAlwaysNamesHalf == PlruSpec => []RootNamesHalf
<1>1. PlruInit => PlruInv
  BY WayAssumption, PlruInitially
<1>2. PlruInv /\ [PlruNext]_plruVars => PlruInv'
  <2> SUFFICES ASSUME PlruInv, [PlruNext]_plruVars PROVE PlruInv'
    OBVIOUS
  <2>1. CASE CountLevel
    BY <2>1, CountLevelKeeps
  <2>2. CASE Constructed
    BY <2>2, ConstructedKeeps
  <2>3. ASSUME NEW way \in 0 .. way_num_, UpdatePlru(way) PROVE PlruInv'
    BY <2>3, WayAssumption, UpdatePlruKeeps
  <2>4. ASSUME NEW way \in 0 .. way_num_, RefuseWay(way) PROVE PlruInv'
    BY <2>4, PlruUnchanged DEF RefuseWay
  <2>5. CASE Round
    BY <2>5, WayAssumption, RoundKeeps
  <2>6. CASE Updated
    BY <2>6, UpdatedKeeps
  <2>7. CASE UNCHANGED plruVars
    BY <2>7, PlruUnchanged
  <2>8. QED
    BY <2>1, <2>2, <2>3, <2>4, <2>5, <2>6, <2>7, Zenon DEF PlruNext
<1>3. PlruInv => RootNamesHalf
  BY DEF PlruInv, OnlyInnerBits, RootRight, RootNamesHalf
<1>4. QED
  BY <1>1, <1>2, <1>3, PTL DEF PlruSpec
==============================================================================
