--------------------------- MODULE AtmSystem_proofs ---------------------------
(***************************************************************************)
(* Theorems of AtmSystem, after lemmas on what the queue operators of      *)
(* Messaging do to a queue and to the number of copies of a message in it. *)
(***************************************************************************)
EXTENDS AtmSystem, TLAPS, FiniteSetTheorems, SequenceTheorems

\* The number of copies of a message in a queue is a natural number.
LEMMA CountNat ==
    ASSUME NEW S, NEW q \in Seq(S), NEW x
    PROVE  Count(q, x) \in Nat
<1> DEFINE P == {i \in DOMAIN q : q[i] = x}
<1>1. DOMAIN q = 1 .. Len(q) /\ Len(q) \in Nat
  BY LenProperties
<1>2. IsFiniteSet(1 .. Len(q))
  BY <1>1, FS_Interval
<1>3. P \in SUBSET (1 .. Len(q))
  BY <1>1
<1>4. IsFiniteSet(P)
  BY <1>2, <1>3, FS_Subset
<1> QED
  BY <1>4, FS_CardinalityType DEF Count

\* An empty queue holds no copy of a message.
LEMMA CountEmpty ==
    ASSUME NEW x
    PROVE  Count(<< >>, x) = 0
<1>1. {i \in DOMAIN << >> : << >>[i] = x} = {}
  OBVIOUS
<1> QED
  BY <1>1, FS_EmptySet DEF Count

\* Queue::Push adds one copy of the message and no other.
LEMMA CountAppend ==
    ASSUME NEW S, NEW q \in Seq(S), NEW msg \in S, NEW x
    PROVE  Count(Append(q, msg), x) = Count(q, x) + (IF msg = x THEN 1 ELSE 0)
<1> DEFINE P == {i \in DOMAIN q : q[i] = x}
           r == Append(q, msg)
           R == {i \in DOMAIN r : r[i] = x}
<1>1. DOMAIN q = 1 .. Len(q) /\ Len(q) \in Nat
  BY LenProperties
<1>2. /\ r \in Seq(S)
      /\ Len(r) = Len(q) + 1
      /\ \A i \in 1 .. Len(q) : r[i] = q[i]
      /\ r[Len(q) + 1] = msg
  BY AppendProperties
<1>3. DOMAIN r = 1 .. Len(q) + 1
  BY <1>2, LenProperties
<1> HIDE DEF r
<1>4. IsFiniteSet(1 .. Len(q))
  BY <1>1, FS_Interval
<1>5. P \in SUBSET (1 .. Len(q))
  BY <1>1
<1>6. IsFiniteSet(P) /\ Cardinality(P) \in Nat
  BY <1>4, <1>5, FS_Subset, FS_CardinalityType
<1>7. Count(q, x) = Cardinality(P) /\ Count(r, x) = Cardinality(R)
  BY DEF Count
<1>8. CASE msg = x
  <2>1. R = P \cup {Len(q) + 1}
    BY <1>1, <1>2, <1>3, <1>8
  <2>2. Len(q) + 1 \notin P
    BY <1>1
  <2>3. Cardinality(R) = Cardinality(P) + 1
    BY <1>6, <2>1, <2>2, FS_AddElement
  <2> QED
    BY <1>7, <1>8, <2>3 DEF r
<1>9. CASE msg # x
  <2>1. R = P
    BY <1>1, <1>2, <1>3, <1>9
  <2>2. Count(r, x) = Count(q, x)
    BY <1>7, <2>1
  <2>3. Count(r, x) \in Nat
    BY <1>6, <1>7, <2>2
  <2> QED
    BY <1>9, <2>2, <2>3 DEF r
<1> QED
  BY <1>8, <1>9

\* Queue::WaitAndPop takes away one copy of the oldest message and no other.
LEMMA CountTail ==
    ASSUME NEW S, NEW q \in Seq(S), q # << >>, NEW x
    PROVE  Count(q, x) = Count(Tail(q), x) + (IF Head(q) = x THEN 1 ELSE 0)
<1> DEFINE P == {i \in DOMAIN q : q[i] = x}
           t == Tail(q)
           T == {i \in DOMAIN t : t[i] = x}
           later == P \ {1}
           shift == [i \in T |-> i + 1]
<1>1. /\ DOMAIN q = 1 .. Len(q)
      /\ Len(q) \in Nat \ {0}
      /\ Head(q) = q[1]
  BY LenProperties, EmptySeq
<1>2. /\ t \in Seq(S)
      /\ Len(t) = Len(q) - 1
      /\ \A i \in 1 .. Len(t) : t[i] = q[i + 1]
  BY HeadTailProperties
<1>3. DOMAIN t = 1 .. Len(q) - 1
  BY <1>2, LenProperties
<1> HIDE DEF t
<1>4. IsFiniteSet(1 .. Len(q)) /\ P \in SUBSET (1 .. Len(q))
  BY <1>1, FS_Interval
<1>5. IsFiniteSet(P) /\ Cardinality(P) \in Nat
  BY <1>4, FS_Subset, FS_CardinalityType
<1>6. IsFiniteSet(1 .. Len(q) - 1) /\ T \in SUBSET (1 .. Len(q) - 1)
  BY <1>1, <1>3, FS_Interval
<1>7. IsFiniteSet(T) /\ Cardinality(T) \in Nat
  BY <1>6, FS_Subset, FS_CardinalityType
<1>8. Cardinality(later) = Cardinality(T)
  <2>1. \A i \in T : i + 1 \in later
    BY <1>1, <1>2, <1>3
  <2>2. \A j \in later : j - 1 \in T /\ (j - 1) + 1 = j
    BY <1>1, <1>2, <1>3
  <2>3. shift \in [T -> later]
    BY <2>1
  <2>4. \A i, j \in T : shift[i] = shift[j] => i = j
    BY <1>3
  <2>5. \A j \in later : \E i \in T : shift[i] = j
    BY <2>2
  <2>6. shift \in Bijection(T, later)
    BY <2>3, <2>4, <2>5 DEF Bijection, Injection, Surjection, IsInjective
  <2>7. ExistsBijection(T, later)
    BY <2>6 DEF ExistsBijection
  <2> QED
    BY <1>7, <2>7, FS_Bijection
<1>9. Cardinality(later) = IF 1 \in P THEN Cardinality(P) - 1 ELSE Cardinality(P)
  BY <1>5, FS_RemoveElement
<1>10. 1 \in P <=> Head(q) = x
  BY <1>1
<1>11. Count(q, x) = Cardinality(P) /\ Count(Tail(q), x) = Cardinality(T)
  BY DEF Count, t
<1> QED
  BY <1>5, <1>7, <1>8, <1>9, <1>10, <1>11
------------------------------------------------------------------------------

\* Push and Pop leave every queue with messages its machine may be sent.
LEMMA PushOK ==
    ASSUME NEW q, QueuesOK(q), NEW m \in Machines, NEW msg \in Inbox[m]
    PROVE  QueuesOK(Push(q, m, msg))
<1>1. ASSUME NEW n \in Machines
      PROVE  Push(q, m, msg)[n] \in Seq(Inbox[n])
  BY AppendProperties DEF QueuesOK, Push
<1> QED
  BY <1>1 DEF QueuesOK, Push

LEMMA PopOK ==
    ASSUME NEW q, QueuesOK(q), NEW m \in Machines, q[m] # << >>
    PROVE  QueuesOK(Pop(q, m)) /\ Head(q[m]) \in Inbox[m]
<1>1. /\ Tail(q[m]) \in Seq(Inbox[m])
      /\ Head(q[m]) \in Inbox[m]
  BY HeadTailProperties DEF QueuesOK
<1> QED
  BY <1>1 DEF QueuesOK, Pop

LEMMA InterfaceInbox ==
    \A t \in Displays \cup {"IssueMoney", "CloseQueue"} : Msg(t) \in Inbox["interface"]
BY DEF Inbox, Plain, Msg

LEMMA BankInbox ==
    /\ \A t \in {"Withdraw", "GetBalance", "WithdrawProcessed",
                 "CancelWithdrawal", "CloseQueue"} : Msg(t) \in Inbox["bank"]
    /\ \A p \in Seq(Digits) : DigitMsg("VerifyPin", p) \in Inbox["bank"]
BY DEF Inbox, Plain, Msg, DigitMsg

LEMMA AtmInbox ==
    /\ \A t \in {"PinVerified", "PinIncorrect", "WithdrawOK", "WithdrawDenied",
                 "Balance", "CloseQueue"} : Msg(t) \in Inbox["atm"]
    /\ KeyMessages \subseteq Inbox["atm"]
<1>1. \A d \in Digits : DigitMsg("DigitPressed", <<d>>) \in Inbox["atm"]
  BY DEF Inbox, DigitMsg
<1>2. \A t \in {"BalancePressed", "WithdrawPressed", "CancelPressed", "CardInserted"} :
         Msg(t) \in Inbox["atm"]
  BY DEF Inbox, Msg, Plain
<1>3. \A t \in {"PinVerified", "PinIncorrect", "WithdrawOK", "WithdrawDenied",
                 "Balance", "CloseQueue"} : Msg(t) \in Inbox["atm"]
  BY DEF Inbox, Msg, Plain
<1> QED
  BY <1>1, <1>2, <1>3 DEF KeyMessages

LEMMA MsgTypes ==
    /\ \A t : Msg(t).type = t
    /\ \A t, p : DigitMsg(t, p).type = t /\ DigitMsg(t, p).digits = p
BY DEF Msg, DigitMsg

LEMMA KeyTypes ==
    ASSUME NEW msg \in KeyMessages
    PROVE  msg.type \in {"DigitPressed", "BalancePressed", "WithdrawPressed",
                         "CancelPressed", "CardInserted"}
<1>1. \A d \in Digits : DigitMsg("DigitPressed", <<d>>).type = "DigitPressed"
  BY MsgTypes
<1>2. \A t : Msg(t).type = t
  BY MsgTypes
<1> QED
  BY <1>1, <1>2 DEF KeyMessages

\* A message without a payload is known by its type.
LEMMA AtmHeads ==
    ASSUME NEW msg \in Inbox["atm"], msg.type # "DigitPressed"
    PROVE  msg = Msg(msg.type)
BY DEF Inbox, Plain, Msg

LEMMA InterfaceHeads ==
    ASSUME NEW msg \in Inbox["interface"]
    PROVE  msg = Msg(msg.type)
BY DEF Inbox, Plain, Msg

LEMMA BankHeads ==
    ASSUME NEW msg \in Inbox["bank"]
    PROVE  msg = DigitMsg(msg.type, msg.digits)
BY DEF Inbox, Plain, DigitMsg

\* A DigitPressed carries one digit.
LEMMA DigitInbox ==
    ASSUME NEW msg \in Inbox["atm"], msg.type = "DigitPressed"
    PROVE  \E d \in Digits : msg.digits = <<d>>
<1> DEFINE T == {"BalancePressed", "WithdrawPressed", "CancelPressed", "CardInserted",
                 "PinVerified", "PinIncorrect", "WithdrawOK", "WithdrawDenied",
                 "Balance", "CloseQueue"}
           D == {<<d>> : d \in Digits}
<1>1. Inbox["atm"] = [type : {"DigitPressed"}, digits : D] \cup Plain(T)
  BY DEF Inbox
<1>2. msg \notin Plain(T)
  BY DEF Plain
<1> HIDE DEF D
<1>3. msg.digits \in D
  BY <1>1, <1>2
<1> QED
  BY <1>3 DEF D

LEMMA AtmStepQueues == TypeOK /\ AtmStep => QueuesOK(queue')
<1> SUFFICES ASSUME TypeOK, AtmStep
             PROVE  QueuesOK(queue')
  OBVIOUS
<1> USE DEF Machines
<1>1. QueuesOK(queue)
  BY DEF TypeOK
<1>2. ASSUME queue["atm"] # << >>
      PROVE  /\ QueuesOK(Pop(queue, "atm"))
             /\ Head(queue["atm"]) \in Inbox["atm"]
  BY <1>1, <1>2, PopOK
<1>3. ASSUME NEW q, QueuesOK(q), NEW t \in Displays \cup {"IssueMoney"}
      PROVE  QueuesOK(Push(q, "interface", Msg(t)))
  BY <1>3, PushOK, InterfaceInbox
<1>4. ASSUME NEW q, QueuesOK(q),
             NEW t \in {"Withdraw", "GetBalance", "WithdrawProcessed", "CancelWithdrawal"}
      PROVE  QueuesOK(Push(q, "bank", Msg(t)))
  BY <1>4, PushOK, BankInbox
<1>5. CASE AtmAsksForCard
  BY <1>5, <1>1, <1>3 DEF AtmAsksForCard, Prompt, Sent, Displays
<1>6. CASE AtmOffersActions
  BY <1>6, <1>1, <1>3 DEF AtmOffersActions, Prompt, Sent, Displays
<1>7. CASE AtmEjectsCard
  BY <1>7, <1>1, <1>3 DEF AtmEjectsCard, Prompt, Sent, Displays
<1>8. CASE AtmTakesCard
  BY <1>8, <1>2, <1>3 DEF AtmTakesCard, Takes, Receives, Sent, Displays
<1>9. CASE AtmTakesDigit
  BY <1>9, <1>2 DEF AtmTakesDigit, Takes, Receives, Sent
<1>10. CASE AtmSendsPin
  <2>1. pin' \in Seq(Digits)
    <3>1. /\ queue["atm"] # << >>
          /\ Head(queue["atm"]).type = "DigitPressed"
          /\ pin' = pin \o Head(queue["atm"]).digits
      BY <1>10 DEF AtmSendsPin, Takes, Receives
    <3>2. \E d \in Digits : Head(queue["atm"]).digits = <<d>>
      BY <3>1, <1>2, DigitInbox
    <3>3. PICK d \in Digits : pin' = pin \o <<d>>
      BY <3>1, <3>2
    <3>4. pin \in Seq(Digits)
      BY DEF TypeOK
    <3>5. pin' = Append(pin, d)
      BY <3>3, <3>4, AppendIsConcat
    <3> QED
      BY <3>4, <3>5, AppendProperties
  <2>2. DigitMsg("VerifyPin", pin') \in Inbox["bank"]
    BY <2>1, BankInbox
  <2> QED
    BY <1>10, <1>2, <2>2, PushOK DEF AtmSendsPin, Takes, Receives, Sent
<1>11. CASE AtmAcceptsPin
  BY <1>11, <1>2 DEF AtmAcceptsPin, Takes, Receives, Sent
<1>12. CASE AtmRejectsPin
  BY <1>12, <1>2, <1>3 DEF AtmRejectsPin, Takes, Receives, Sent, Displays
<1>13. CASE AtmAsksWithdrawal
  BY <1>13, <1>2, <1>4 DEF AtmAsksWithdrawal, Takes, Receives, Sent
<1>14. CASE AtmAsksBalance
  BY <1>14, <1>2, <1>4 DEF AtmAsksBalance, Takes, Receives, Sent
<1>15. CASE AtmShowsBalance
  BY <1>15, <1>2, <1>3 DEF AtmShowsBalance, Takes, Receives, Sent, Displays
<1>16. CASE AtmIssuesMoney
  BY <1>16, <1>2, <1>3, <1>4 DEF AtmIssuesMoney, Takes, Receives, Sent
<1>17. CASE AtmReportsDenial
  BY <1>17, <1>2, <1>3 DEF AtmReportsDenial, Takes, Receives, Sent, Displays
<1>18. CASE AtmCancelsWithdrawal
  BY <1>18, <1>2, <1>3, <1>4 DEF AtmCancelsWithdrawal, Takes, Receives, Sent, Displays
<1>19. CASE AtmCancels
  BY <1>19, <1>2 DEF AtmCancels, Takes, Receives, Sent
<1>20. CASE AtmDiscards
  BY <1>20, <1>2 DEF AtmDiscards, Discard
<1>21. CASE AtmBlocks
  BY <1>21, <1>1 DEF AtmBlocks, Block
<1>22. CASE AtmCloses
  BY <1>22, <1>2 DEF AtmCloses, Close, Receives
<1> QED
  BY <1>5, <1>6, <1>7, <1>8, <1>9, <1>10, <1>11, <1>12, <1>13, <1>14, <1>15, <1>16,
     <1>17, <1>18, <1>19, <1>20, <1>21, <1>22 DEF AtmStep, AtmNext
LEMMA BankStepQueues == TypeOK /\ BankStep => QueuesOK(queue')
<1> SUFFICES ASSUME TypeOK, BankStep
             PROVE  QueuesOK(queue')
  OBVIOUS
<1> USE DEF Machines
<1>1. QueuesOK(queue)
  BY DEF TypeOK
<1>2. queue["bank"] # << >> => QueuesOK(Pop(queue, "bank"))
  BY <1>1, PopOK
<1>3. ASSUME NEW q, QueuesOK(q),
             NEW t \in {"PinVerified", "PinIncorrect", "WithdrawOK", "WithdrawDenied", "Balance"}
      PROVE  QueuesOK(Push(q, "atm", Msg(t)))
  BY <1>3, PushOK, AtmInbox
<1>4. CASE BankVerifiesPin
  BY <1>4, <1>2, <1>3 DEF BankVerifiesPin, Receives, Sent
<1>5. CASE BankWithdraws
  BY <1>5, <1>2, <1>3 DEF BankWithdraws, Receives, Sent
<1>6. CASE BankDenies
  BY <1>6, <1>2, <1>3 DEF BankDenies, Receives, Sent
<1>7. CASE BankTellsBalance
  BY <1>7, <1>2, <1>3 DEF BankTellsBalance, Receives, Sent
<1>8. CASE BankNotes
  BY <1>8, <1>2 DEF BankNotes, Receives, Sent
<1>9. CASE BankBlocks
  BY <1>9, <1>1 DEF BankBlocks, Block
<1>10. CASE BankCloses
  BY <1>10, <1>2 DEF BankCloses, Close, Receives
<1> QED
  BY <1>4, <1>5, <1>6, <1>7, <1>8, <1>9, <1>10 DEF BankStep, BankNext

LEMMA InterfaceStepQueues == TypeOK /\ InterfaceStep => QueuesOK(queue')
<1> SUFFICES ASSUME TypeOK, InterfaceStep
             PROVE  QueuesOK(queue')
  OBVIOUS
<1> USE DEF Machines
<1>1. QueuesOK(queue)
  BY DEF TypeOK
<1>2. queue["interface"] # << >> => QueuesOK(Pop(queue, "interface"))
  BY <1>1, PopOK
<1>3. CASE InterfaceIssues
  BY <1>3, <1>2 DEF InterfaceIssues, Receives, Sent
<1>4. CASE InterfaceShows
  BY <1>4, <1>2 DEF InterfaceShows, Receives, Sent
<1>5. CASE InterfaceBlocks
  BY <1>5, <1>1 DEF InterfaceBlocks, Block
<1>6. CASE InterfaceCloses
  BY <1>6, <1>2 DEF InterfaceCloses, Close, Receives
<1> QED
  BY <1>3, <1>4, <1>5, <1>6 DEF InterfaceStep, InterfaceNext

LEMMA MainStepQueues == TypeOK /\ MainStep => QueuesOK(queue')
<1> SUFFICES ASSUME TypeOK, MainStep
             PROVE  QueuesOK(queue')
  OBVIOUS
<1> USE DEF Machines
<1>1. QueuesOK(queue)
  BY DEF TypeOK
<1>2. \A m \in Machines : CloseQueue \in Inbox[m]
  BY InterfaceInbox, BankInbox, AtmInbox DEF CloseQueue
<1>3. ASSUME NEW msg \in KeyMessages, PressKey(msg)
      PROVE  QueuesOK(queue')
  <2>1. msg \in Inbox["atm"]
    BY AtmInbox
  <2> QED
    BY <1>1, <1>3, <2>1, PushOK DEF PressKey, Sent
<1>4. CASE Quit
  BY <1>1, <1>4 DEF Quit, msgVars
<1>5. CASE Shutdown
  BY <1>1, <1>2, <1>5, PushOK
     DEF Shutdown, CloseBank, CloseAtm, CloseInterface, Join, SendClose, Sent, msgVars
<1> QED
  BY <1>3, <1>4, <1>5 DEF MainStep, MainNext

LEMMA StepQueues == TypeOK /\ [Next]_vars => QueuesOK(queue')
<1> SUFFICES ASSUME TypeOK, [Next]_vars
             PROVE  QueuesOK(queue')
  OBVIOUS
<1>1. CASE Finished \/ UNCHANGED vars
  BY <1>1 DEF TypeOK, Finished, vars, msgVars
<1> QED
  BY <1>1, AtmStepQueues, BankStepQueues, InterfaceStepQueues, MainStepQueues DEF Next

\* The PIN stays a sequence of digits, shorter than pin_length while it is typed.
PinOK ==
    /\ pin \in Seq(Digits) /\ Len(pin) <= PinLength
    /\ state = "GettingPin" => Len(pin) < PinLength

\* Only the ATM's own steps change what belongs to the ATM.
LEMMA AtmTypes ==
    ASSUME TypeOK, AtmStep
    PROVE  /\ state' \in States
           /\ prompted' \in BOOLEAN
           /\ goodPins' \in Nat
           /\ authorised' \in Nat
           /\ PinOK'
           /\ asleep' \subseteq running'
           /\ running' \subseteq Machines
<1>1. States = {"WaitForCard", "GettingPin", "VerifyingPin", "WaitForAction",
                "ProcessWithdrawal", "ProcessBalance", "DoneProcessing"}
  BY DEF States, Handled
<1>2. /\ asleep' \subseteq running' 
      /\ running' \subseteq Machines
  BY DEF TypeOK, AtmStep, AtmNext, AtmAsksForCard, AtmOffersActions, AtmEjectsCard,
         AtmTakesCard, AtmTakesDigit, AtmSendsPin, AtmAcceptsPin, AtmRejectsPin,
         AtmAsksWithdrawal, AtmAsksBalance, AtmShowsBalance, AtmIssuesMoney,
         AtmReportsDenial, AtmCancelsWithdrawal, AtmCancels, AtmDiscards, AtmBlocks,
         AtmCloses, Discard, Block, Close, Receives, Awake, Prompt, Takes, Sent, Machines
<1>3. /\ state' \in States
      /\ prompted' \in BOOLEAN
  BY <1>1 DEF TypeOK, AtmStep, AtmNext, AtmAsksForCard, AtmOffersActions, AtmEjectsCard,
         AtmTakesCard, AtmTakesDigit, AtmSendsPin, AtmAcceptsPin, AtmRejectsPin,
         AtmAsksWithdrawal, AtmAsksBalance, AtmShowsBalance, AtmIssuesMoney,
         AtmReportsDenial, AtmCancelsWithdrawal, AtmCancels, AtmDiscards, AtmBlocks,
         AtmCloses, Enter, Prompt, atmVars
<1>4. /\ goodPins' \in Nat
      /\ authorised' \in Nat
  BY DEF TypeOK, AtmStep, AtmNext, AtmAsksForCard, AtmOffersActions, AtmEjectsCard,
         AtmTakesCard, AtmTakesDigit, AtmSendsPin, AtmAcceptsPin, AtmRejectsPin,
         AtmAsksWithdrawal, AtmAsksBalance, AtmShowsBalance, AtmIssuesMoney,
         AtmReportsDenial, AtmCancelsWithdrawal, AtmCancels, AtmDiscards, AtmBlocks,
         AtmCloses, atmVars
<1>5. PinOK'
  <2>1. ASSUME Takes("GettingPin", "DigitPressed"), pin' = pin \o Head(queue["atm"]).digits
        PROVE  pin' \in Seq(Digits) /\ Len(pin') = Len(pin) + 1 /\ Len(pin) < PinLength
    <3>1. Head(queue["atm"]) \in Inbox["atm"] /\ Head(queue["atm"]).type = "DigitPressed"
      BY <2>1, PopOK DEF TypeOK, Takes, Receives, Machines
    <3>2. PICK d \in Digits : Head(queue["atm"]).digits = <<d>>
      BY <3>1, DigitInbox
    <3>3. pin \in Seq(Digits) /\ Len(pin) < PinLength
      BY <2>1 DEF TypeOK, Takes
    <3>4. pin' = Append(pin, d)
      BY <2>1, <3>2, <3>3, AppendIsConcat
    <3> QED
      BY <3>3, <3>4, AppendProperties
  <2>2. CASE AtmTakesDigit
    BY <2>1, <2>2, PinAssumption DEF AtmTakesDigit, PinOK, TypeOK
  <2>3. CASE AtmSendsPin
    BY <2>1, <2>3, PinAssumption DEF AtmSendsPin, PinOK, Enter
  <2>4. CASE AtmTakesCard
    BY <2>4, PinAssumption DEF AtmTakesCard, PinOK, Enter
  <2>5. CASE UNCHANGED <<pin, state>>
    BY <2>5 DEF PinOK, TypeOK
  <2>6. CASE pin' = pin /\ state' # "GettingPin"
    BY <2>6 DEF PinOK, TypeOK
  <2> QED
    BY <2>2, <2>3, <2>4, <2>5, <2>6
       DEF AtmStep, AtmNext, AtmAsksForCard, AtmOffersActions, AtmEjectsCard,
         AtmAcceptsPin, AtmRejectsPin,
         AtmAsksWithdrawal, AtmAsksBalance, AtmShowsBalance, AtmIssuesMoney,
         AtmReportsDenial, AtmCancelsWithdrawal, AtmCancels, AtmDiscards, AtmBlocks,
         AtmCloses, Enter, atmVars
<1> QED
  BY <1>2, <1>3, <1>4, <1>5

\* Every step of every thread preserves the types.
LEMMA TypeStep == TypeOK /\ [Next]_vars => TypeOK'
<1> SUFFICES ASSUME TypeOK, [Next]_vars
             PROVE  TypeOK'
  OBVIOUS
<1>1. QueuesOK(queue')
  BY StepQueues
<1>2. CASE AtmStep
  BY <1>1, <1>2, AtmTypes DEF TypeOK, PinOK, AtmStep, bankVars, interfaceVars, mainVars
<1>3. CASE BankStep
  <2>1. balance' \in 0 .. InitialBalance
    BY <1>3, BalanceAssumption, PayloadAssumption
       DEF TypeOK, BankStep, BankNext, BankVerifiesPin, BankWithdraws, BankDenies,
           BankTellsBalance, BankNotes, BankBlocks, BankCloses
  <2>2. asleep' \subseteq running' /\ running' \subseteq Machines
    BY <1>3 DEF TypeOK, BankStep, BankNext, BankVerifiesPin, BankWithdraws, BankDenies,
           BankTellsBalance, BankNotes, BankBlocks, BankCloses, Block, Close, Receives,
           Awake, Sent
  <2> QED
    BY <1>1, <1>3, <2>1, <2>2 DEF TypeOK, BankStep, atmVars, interfaceVars, mainVars
<1>4. CASE InterfaceStep
  <2>1. issued' \in Nat
    BY <1>4, PayloadAssumption
       DEF TypeOK, InterfaceStep, InterfaceNext, InterfaceIssues, InterfaceShows,
           InterfaceBlocks, InterfaceCloses
  <2>2. asleep' \subseteq running' /\ running' \subseteq Machines
    BY <1>4 DEF TypeOK, InterfaceStep, InterfaceNext, InterfaceIssues, InterfaceShows,
           InterfaceBlocks, InterfaceCloses, Block, Close, Receives, Awake, Sent
  <2> QED
    BY <1>1, <1>4, <2>1, <2>2 DEF TypeOK, InterfaceStep, atmVars, bankVars, mainVars
<1>5. CASE MainStep
  <2>1. /\ keys' \in 0 .. MaxKeys
        /\ mainPc' \in {"reading", "closingBank", "closingAtm",
                        "closingInterface", "joining", "done"}
        /\ lastKey' \in {"none", "DigitPressed", "BalancePressed", "WithdrawPressed",
                          "CancelPressed", "CardInserted"}
        /\ asleep' \subseteq running'
        /\ running' \subseteq Machines
    BY <1>5, KeyTypes, KeyAssumption
       DEF TypeOK, MainStep, MainNext, PressKey, Quit, Shutdown, CloseBank, CloseAtm,
           CloseInterface, Join, SendClose, Sent, msgVars
  <2> QED
    BY <1>1, <1>5, <2>1 DEF TypeOK, MainStep, atmVars, bankVars, interfaceVars
<1>6. CASE Finished \/ UNCHANGED vars
  BY <1>1, <1>6
     DEF TypeOK, Finished, vars, msgVars, atmVars, bankVars, interfaceVars, mainVars
<1> QED
  BY <1>2, <1>3, <1>4, <1>5, <1>6 DEF Next

LEMMA TypeInit == Init => TypeOK
<1> SUFFICES ASSUME Init PROVE TypeOK
  OBVIOUS
<1>1. QueuesOK(queue)
  BY EmptySeq DEF Init, MessagingInit, QueuesOK
<1>2. pin \in Seq(Digits) /\ Len(pin) = 0 /\ 0 < PinLength
  BY EmptySeq, PinAssumption DEF Init, AtmInit
<1>3. state \in States /\ state # "GettingPin"
  BY DEF Init, AtmInit, States, Handled
<1>4. asleep \subseteq running /\ running \subseteq Machines
  BY DEF Init, MessagingInit
<1>5. Len(pin) <= PinLength
  BY <1>2, PinAssumption
<1>8. prompted \in BOOLEAN
  BY DEF Init, AtmInit
<1>6. /\ goodPins \in Nat /\ authorised \in Nat
      /\ issued \in Nat
      /\ balance \in 0 .. InitialBalance
  BY BalanceAssumption DEF Init, AtmInit, InterfaceInit, BankInit
<1>7. keys \in 0 .. MaxKeys
  BY KeyAssumption DEF Init
<1> QED
  BY <1>1, <1>2, <1>3, <1>4, <1>5, <1>6, <1>7, <1>8 DEF Init, TypeOK

\* Type correctness of the whole system: in particular the bank and the
\* interface are never sent a message they have no handler for, the unsigned
\* balance_ never goes below zero and pin_ never outgrows pin_length.
THEOREM TypeCorrect == Spec => []TypeOK
BY TypeInit, TypeStep, PTL DEF Spec
------------------------------------------------------------------------------
(* Money: the copies of WithdrawOK and IssueMoney in the queues. *)

\* The copies of x in the queue of a, and of y in the queue of b.
Both(q, a, x, b, y) == Count(q[a], x) + Count(q[b], y)

LEMMA BothPush ==
    ASSUME NEW q, QueuesOK(q), NEW m \in Machines, NEW msg \in Inbox[m],
           NEW a \in Machines, NEW b \in Machines, a # b, NEW x, NEW y
    PROVE  /\ Both(q, a, x, b, y) \in Nat
           /\ Both(Push(q, m, msg), a, x, b, y) = Both(q, a, x, b, y)
                + (IF (m = a /\ msg = x) \/ (m = b /\ msg = y) THEN 1 ELSE 0)
<1> DEFINE r == Push(q, m, msg)
<1>1. ASSUME NEW n \in Machines, NEW z
      PROVE  /\ Count(q[n], z) \in Nat
             /\ Count(r[n], z) = Count(q[n], z) + (IF m = n /\ msg = z THEN 1 ELSE 0)
  <2>1. q[n] \in Seq(Inbox[n])
    BY DEF QueuesOK
  <2>2. Count(q[n], z) \in Nat
    BY <2>1, CountNat
  <2>3. CASE n = m
    <3>1. r[n] = Append(q[n], msg)
      BY <2>3 DEF QueuesOK, Push
    <3> QED
      BY <2>1, <2>2, <2>3, <3>1, CountAppend
  <2>4. CASE n # m
    <3>1. r[n] = q[n]
      BY <2>4 DEF QueuesOK, Push
    <3> QED
      BY <2>2, <2>4, <3>1
  <2> QED
    BY <2>3, <2>4
<1> HIDE DEF r
<1>2. /\ Count(q[a], x) \in Nat
      /\ Count(r[a], x) = Count(q[a], x) + (IF m = a /\ msg = x THEN 1 ELSE 0)
  BY <1>1
<1>3. /\ Count(q[b], y) \in Nat
      /\ Count(r[b], y) = Count(q[b], y) + (IF m = b /\ msg = y THEN 1 ELSE 0)
  BY <1>1
<1> QED
  BY <1>2, <1>3 DEF Both, r

LEMMA BothPop ==
    ASSUME NEW q, QueuesOK(q), NEW m \in Machines, q[m] # << >>,
           NEW a \in Machines, NEW b \in Machines, a # b, NEW x, NEW y
    PROVE  /\ Both(Pop(q, m), a, x, b, y) \in Nat
           /\ Both(q, a, x, b, y) = Both(Pop(q, m), a, x, b, y)
                + (IF (m = a /\ Head(q[m]) = x) \/ (m = b /\ Head(q[m]) = y) THEN 1 ELSE 0)
<1> DEFINE r == Pop(q, m)
<1>1. ASSUME NEW n \in Machines, NEW z
      PROVE  /\ Count(r[n], z) \in Nat
             /\ Count(q[n], z) = Count(r[n], z) + (IF m = n /\ Head(q[m]) = z THEN 1 ELSE 0)
  <2>1. q[n] \in Seq(Inbox[n]) /\ r[n] \in Seq(Inbox[n])
    BY PopOK DEF QueuesOK
  <2>2. Count(q[n], z) \in Nat /\ Count(r[n], z) \in Nat
    BY <2>1, CountNat
  <2>3. CASE n = m
    <3>1. r[n] = Tail(q[n])
      BY <2>3 DEF QueuesOK, Pop
    <3> QED
      BY <2>1, <2>2, <2>3, <3>1, CountTail
  <2>4. CASE n # m
    <3>1. r[n] = q[n]
      BY <2>4 DEF QueuesOK, Pop
    <3> QED
      BY <2>2, <2>4, <3>1
  <2> QED
    BY <2>2, <2>3, <2>4
<1> HIDE DEF r
<1>2. /\ Count(r[a], x) \in Nat
      /\ Count(q[a], x) = Count(r[a], x) + (IF m = a /\ Head(q[m]) = x THEN 1 ELSE 0)
  BY <1>1
<1>3. /\ Count(r[b], y) \in Nat
      /\ Count(q[b], y) = Count(r[b], y) + (IF m = b /\ Head(q[m]) = y THEN 1 ELSE 0)
  BY <1>1
<1> QED
  BY <1>2, <1>3 DEF Both, r

\* The withdrawals granted by the bank whose cash has not left the machine.
Granted(q) == Both(q, "interface", Msg("IssueMoney"), "atm", Msg("WithdrawOK"))

\* A grant moves from the bank's answer to the order for cash and leaves with
\* the cash: only BankWithdraws makes one.
LEMMA GrantedStep ==
    ASSUME TypeOK, [Next]_vars
    PROVE  /\ Granted(queue) \in Nat
           /\ Granted(queue') \in Nat
           /\ \/ Granted(queue') <= Granted(queue) /\ UNCHANGED <<issued, balance>>
              \/ /\ BankWithdraws
                 /\ Granted(queue') = Granted(queue) + 1
                 /\ UNCHANGED issued
              \/ /\ InterfaceIssues
                 /\ Granted(queue) = Granted(queue') + 1
                 /\ UNCHANGED balance
<1> DEFINE Cash(m, msg) == \/ m = "interface" /\ msg = Msg("IssueMoney")
                           \/ m = "atm" /\ msg = Msg("WithdrawOK")
<1>8. "atm" \in Machines /\ "bank" \in Machines /\ "interface" \in Machines
  BY DEF Machines
<1>1. QueuesOK(queue)
  BY DEF TypeOK
<1>2. ASSUME NEW m \in Machines, queue[m] # << >>
      PROVE  /\ QueuesOK(Pop(queue, m))
             /\ Head(queue[m]) \in Inbox[m]
             /\ Granted(Pop(queue, m)) \in Nat
             /\ Granted(queue)
                  = Granted(Pop(queue, m)) + (IF Cash(m, Head(queue[m])) THEN 1 ELSE 0)
  BY <1>1, <1>2, <1>8, PopOK, BothPop DEF Granted
<1>3. ASSUME NEW q, QueuesOK(q), NEW m \in Machines, NEW msg \in Inbox[m]
      PROVE  /\ QueuesOK(Push(q, m, msg))
             /\ Granted(q) \in Nat
             /\ Granted(Push(q, m, msg)) = Granted(q) + (IF Cash(m, msg) THEN 1 ELSE 0)
  BY <1>3, <1>8, PushOK, BothPush DEF Granted
<1>4. Granted(queue) \in Nat /\ Granted(queue') \in Nat
  <2>1. Granted(queue) \in Nat
    <3>1. "interface" \in Machines /\ Msg("IssueMoney") \in Inbox["interface"]
      BY InterfaceInbox DEF Machines
    <3> QED
      BY <1>1, <1>3, <3>1
  <2>2. QueuesOK(queue')
    BY StepQueues
  <2>3. "interface" \in Machines /\ Msg("IssueMoney") \in Inbox["interface"]
    BY InterfaceInbox DEF Machines
  <2> QED
    BY <1>3, <2>1, <2>2, <2>3
<1>5. ASSUME NEW m \in Machines, queue[m] # << >>, queue' = Pop(queue, m)
      PROVE  Granted(queue') <= Granted(queue)
  BY <1>2, <1>4, <1>5
<1>6. ASSUME NEW n \in Machines, NEW msg \in Inbox[n], ~Cash(n, msg),
             queue' = Push(queue, n, msg)
      PROVE  Granted(queue') <= Granted(queue)
  BY <1>1, <1>3, <1>4, <1>6
<1>7. ASSUME NEW m \in Machines, queue[m] # << >>,
             NEW n \in Machines, NEW msg \in Inbox[n], ~Cash(n, msg),
             queue' = Push(Pop(queue, m), n, msg)
      PROVE  Granted(queue') <= Granted(queue)
  <2>1. Granted(queue') = Granted(Pop(queue, m))
    BY <1>2, <1>3, <1>7
  <2> QED
    BY <1>2, <1>4, <1>7, <2>1
<1>9. \A t \in Displays : Msg(t) \in Inbox["interface"] /\ ~Cash("interface", Msg(t))
  <2>1. "IssueMoney" \notin Displays
    BY DEF Displays
  <2> QED
    BY <2>1, InterfaceInbox, MsgTypes
<1>10. \A msg : ~Cash("bank", msg)
  OBVIOUS
<1> HIDE DEF Cash
<1>11. CASE AtmStep
  <2>0. UNCHANGED <<issued, balance>>
    BY <1>11 DEF AtmStep, bankVars, interfaceVars
  <2>1. CASE AtmAsksForCard \/ AtmOffersActions \/ AtmEjectsCard
    <3>1. "DisplayEnterCard" \in Displays /\ "DisplayWithdrawalOptions" \in Displays
          /\ "EjectCard" \in Displays
      BY DEF Displays
    <3> QED
      BY <1>4, <1>6, <1>8, <1>9, <2>0, <2>1, <3>1
         DEF AtmAsksForCard, AtmOffersActions, AtmEjectsCard, Prompt, Sent
  <2>2. CASE AtmTakesCard \/ AtmRejectsPin \/ AtmShowsBalance \/ AtmReportsDenial
    <3>1. "DisplayEnterPin" \in Displays /\ "DisplayPinIncorrectMessage" \in Displays
          /\ "DisplayBalance" \in Displays /\ "DisplayInsufficientFunds" \in Displays
      BY DEF Displays
    <3> QED
      BY <1>4, <1>7, <1>8, <1>9, <2>0, <2>2, <3>1
         DEF AtmTakesCard, AtmRejectsPin, AtmShowsBalance, AtmReportsDenial, Takes,
             Receives, Sent
  <2>3. CASE AtmTakesDigit \/ AtmAcceptsPin \/ AtmCancels \/ AtmDiscards \/ AtmCloses
    BY <1>4, <1>5, <1>8, <2>0, <2>3
       DEF AtmTakesDigit, AtmAcceptsPin, AtmCancels, AtmDiscards, AtmCloses, Takes,
           Receives, Sent, Discard, Close
  <2>4. CASE AtmSendsPin
    <3>1. DigitMsg("VerifyPin", pin') \in Inbox["bank"]
      <4>1. pin' \in Seq(Digits)
        BY <1>11, AtmTypes DEF PinOK
      <4> QED
        BY <4>1, BankInbox
    <3> QED
      BY <1>4, <1>7, <1>8, <1>10, <2>0, <2>4, <3>1 DEF AtmSendsPin, Takes, Receives, Sent
  <2>5. CASE AtmAsksWithdrawal \/ AtmAsksBalance
    <3>1. Msg("Withdraw") \in Inbox["bank"] /\ Msg("GetBalance") \in Inbox["bank"]
      BY BankInbox
    <3> QED
      BY <1>4, <1>7, <1>8, <1>10, <2>0, <2>5, <3>1
         DEF AtmAsksWithdrawal, AtmAsksBalance, Takes, Receives, Sent
  <2>6. CASE AtmIssuesMoney
    <3> DEFINE q1 == Pop(queue, "atm")
               q2 == Push(q1, "interface", Msg("IssueMoney"))
    <3>1. /\ queue["atm"] # << >>
          /\ Head(queue["atm"]).type = "WithdrawOK"
          /\ queue' = Push(q2, "bank", Msg("WithdrawProcessed"))
      BY <2>6 DEF AtmIssuesMoney, Takes, Receives, Sent
    <3>2. Head(queue["atm"]) = Msg("WithdrawOK")
      BY <1>2, <1>8, <3>1, AtmHeads
    <3>3. QueuesOK(q1) /\ Granted(q1) \in Nat /\ Granted(queue) = Granted(q1) + 1
      BY <1>2, <1>8, <3>1, <3>2 DEF Cash
    <3>4. QueuesOK(q2) /\ Granted(q2) = Granted(q1) + 1
      BY <1>3, <1>8, <3>3, InterfaceInbox DEF Cash
    <3>5. Granted(queue') = Granted(q2)
      BY <1>3, <1>8, <1>10, <3>1, <3>3, <3>4, BankInbox
    <3> QED
      BY <1>4, <2>0, <3>3, <3>4, <3>5
  <2>7. CASE AtmCancelsWithdrawal
    <3> DEFINE q1 == Pop(queue, "atm")
               q2 == Push(q1, "bank", Msg("CancelWithdrawal"))
    <3>1. /\ queue["atm"] # << >>
          /\ queue' = Push(q2, "interface", Msg("DisplayWithdrawalCancelled"))
      BY <2>7 DEF AtmCancelsWithdrawal, Takes, Receives, Sent
    <3>2. QueuesOK(q1) /\ Granted(q1) \in Nat /\ Granted(q1) <= Granted(queue)
      BY <1>2, <1>4, <1>8, <3>1
    <3>3. QueuesOK(q2) /\ Granted(q2) = Granted(q1)
      BY <1>3, <1>8, <1>10, <3>2, BankInbox
    <3>4. Granted(queue') = Granted(q2)
      <4>1. "DisplayWithdrawalCancelled" \in Displays
        BY DEF Displays
      <4> QED
        BY <1>3, <1>8, <1>9, <3>1, <3>2, <3>3, <4>1
    <3> QED
      BY <1>4, <2>0, <3>2, <3>3, <3>4
  <2>8. CASE AtmBlocks
    BY <1>4, <2>0, <2>8 DEF AtmBlocks, Block
  <2> QED
    BY <1>11, <2>1, <2>2, <2>3, <2>4, <2>5, <2>6, <2>7, <2>8 DEF AtmStep, AtmNext
<1>12. CASE BankStep
  <2>0. UNCHANGED issued
    BY <1>12 DEF BankStep, interfaceVars
  <2>1. CASE BankWithdraws
    <3>1. /\ queue["bank"] # << >>
          /\ queue' = Push(Pop(queue, "bank"), "atm", Msg("WithdrawOK"))
      BY <2>1 DEF BankWithdraws, Receives, Sent
    <3>2. /\ QueuesOK(Pop(queue, "bank"))
          /\ Granted(Pop(queue, "bank")) \in Nat
          /\ Granted(queue) = Granted(Pop(queue, "bank"))
      BY <1>2, <1>8, <1>10, <3>1
    <3>3. Granted(queue') = Granted(Pop(queue, "bank")) + 1
      BY <1>3, <1>8, <3>1, <3>2, AtmInbox DEF Cash
    <3> QED
      BY <2>0, <2>1, <3>2, <3>3
  <2>2. \A t \in {"PinVerified", "PinIncorrect", "WithdrawDenied", "Balance"} :
           Msg(t) \in Inbox["atm"] /\ ~Cash("atm", Msg(t))
    BY AtmInbox, MsgTypes DEF Cash
  <2>3. CASE BankVerifiesPin \/ BankDenies \/ BankTellsBalance
    BY <1>4, <1>7, <1>8, <2>0, <2>2, <2>3
       DEF BankVerifiesPin, BankDenies, BankTellsBalance, Receives, Sent
  <2>4. CASE BankNotes \/ BankCloses
    BY <1>4, <1>5, <1>8, <2>0, <2>4 DEF BankNotes, BankCloses, Close, Receives, Sent
  <2>5. CASE BankBlocks
    BY <1>4, <2>0, <2>5 DEF BankBlocks, Block
  <2> QED
    BY <1>12, <2>1, <2>3, <2>4, <2>5 DEF BankStep, BankNext
<1>13. CASE InterfaceStep
  <2>0. UNCHANGED balance
    BY <1>13 DEF InterfaceStep, bankVars
  <2>1. CASE InterfaceIssues
    <3>1. /\ queue["interface"] # << >>
          /\ Head(queue["interface"]).type = "IssueMoney"
          /\ queue' = Pop(queue, "interface")
      BY <2>1 DEF InterfaceIssues, Receives, Sent
    <3>2. Head(queue["interface"]) = Msg("IssueMoney")
      BY <1>2, <1>8, <3>1, InterfaceHeads
    <3> QED
      BY <1>2, <1>8, <2>0, <2>1, <3>1, <3>2 DEF Cash
  <2>2. CASE InterfaceShows \/ InterfaceCloses
    BY <1>4, <1>5, <1>8, <2>0, <2>2 DEF InterfaceShows, InterfaceCloses, Close, Receives, Sent
  <2>3. CASE InterfaceBlocks
    BY <1>4, <2>0, <2>3 DEF InterfaceBlocks, Block
  <2> QED
    BY <1>13, <2>1, <2>2, <2>3 DEF InterfaceStep, InterfaceNext
<1>14. CASE MainStep
  <2>0. UNCHANGED <<issued, balance>>
    BY <1>14 DEF MainStep, bankVars, interfaceVars
  <2>1. ASSUME NEW msg \in KeyMessages, PressKey(msg)
        PROVE  Granted(queue') <= Granted(queue)
    <3>1. msg \in Inbox["atm"]
      BY AtmInbox
    <3>2. msg.type # "WithdrawOK"
      BY KeyTypes
    <3>3. ~Cash("atm", msg)
      BY <3>2, MsgTypes DEF Cash
    <3> QED
      BY <1>6, <1>8, <2>1, <3>1, <3>3 DEF PressKey, Sent
  <2>2. CASE Quit \/ Join
    BY <1>4, <2>0, <2>2 DEF Quit, Join, msgVars
  <2>3. CASE CloseBank \/ CloseAtm \/ CloseInterface
    <3>1. \A m \in Machines : CloseQueue \in Inbox[m] /\ ~Cash(m, CloseQueue)
      BY InterfaceInbox, BankInbox, AtmInbox, MsgTypes DEF CloseQueue, Cash, Machines
    <3> QED
      BY <1>4, <1>6, <1>8, <2>0, <2>3, <3>1 DEF CloseBank, CloseAtm, CloseInterface, SendClose, Sent
  <2> QED
    BY <1>4, <1>14, <2>0, <2>1, <2>2, <2>3 DEF MainStep, MainNext, Shutdown
<1>15. CASE Finished \/ UNCHANGED vars
  BY <1>4, <1>15 DEF Finished, vars, msgVars, bankVars, interfaceVars
<1> QED
  BY <1>4, <1>11, <1>12, <1>13, <1>14, <1>15 DEF Next

LEMMA Multiples ==
    ASSUME NEW a \in Nat
    PROVE  /\ \A m, n \in Nat : m <= n => a * m <= a * n
           /\ \A n \in Nat : a * (n + 1) = a * n + a /\ a * n \in Nat
<1>1. \A n \in Nat : a * (n + 1) = a * n + a /\ a * n \in Nat
  OBVIOUS
<1>2. \A m, n \in Nat : m <= n => a * m <= a * n
  <2>1. SUFFICES ASSUME NEW m \in Nat, NEW n \in Nat, m <= n
                 PROVE  a * m <= a * n
    OBVIOUS
  <2>2. a * n = a * m + a * (n - m)
    BY <2>1
  <2>3. a * (n - m) \in Nat /\ a * m \in Nat
    BY <2>1
  <2> QED
    BY <2>2, <2>3
<1> QED
  BY <1>1, <1>2

\* CashBacked follows the grants: BankWithdraws pays for the one it makes, and
\* InterfaceIssues turns one into cash.
LEMMA CashStep == TypeOK /\ CashBacked /\ [Next]_vars => CashBacked'
<1> SUFFICES ASSUME TypeOK, CashBacked, [Next]_vars
             PROVE  CashBacked'
  OBVIOUS
<1> DEFINE g == Granted(queue)
           h == Granted(queue')
<1>1. g \in Nat /\ h \in Nat
  BY GrantedStep
<1>2. /\ CashBacked <=> issued + Amount * g <= InitialBalance - balance
      /\ CashBacked' <=> issued' + Amount * h <= InitialBalance - balance'
  BY DEF CashBacked, Granted, Both
<1>3. \/ h <= g /\ UNCHANGED <<issued, balance>>
      \/ BankWithdraws /\ h = g + 1 /\ UNCHANGED issued
      \/ InterfaceIssues /\ g = h + 1 /\ UNCHANGED balance
  BY GrantedStep
<1> HIDE DEF g, h
<1>4. /\ issued \in Nat /\ balance \in Nat
      /\ InitialBalance \in Nat /\ Amount \in Nat
  BY BalanceAssumption, PayloadAssumption DEF TypeOK
<1>5. /\ Amount * g \in Nat /\ Amount * h \in Nat
      /\ Amount * (g + 1) = Amount * g + Amount
      /\ Amount * (h + 1) = Amount * h + Amount
      /\ h <= g => Amount * h <= Amount * g
  BY <1>1, <1>4, Multiples
<1>6. CASE h <= g /\ UNCHANGED <<issued, balance>>
  BY <1>2, <1>4, <1>5, <1>6
<1>7. CASE BankWithdraws /\ h = g + 1 /\ UNCHANGED issued
  <2>1. balance' = balance - Amount
    BY <1>7 DEF BankWithdraws
  <2> QED
    BY <1>2, <1>4, <1>5, <1>7, <2>1
<1>8. CASE InterfaceIssues /\ g = h + 1 /\ UNCHANGED balance
  <2>1. issued' = issued + Amount
    BY <1>8 DEF InterfaceIssues
  <2> QED
    BY <1>2, <1>4, <1>5, <1>8, <2>1
<1> QED
  BY <1>3, <1>6, <1>7, <1>8

LEMMA CashInit == Init => CashBacked
<1> SUFFICES ASSUME Init PROVE CashBacked
  OBVIOUS
<1>1. queue["atm"] = << >> /\ queue["interface"] = << >>
  BY DEF Init, MessagingInit, Machines
<1>2. Count(queue["interface"], Msg("IssueMoney")) = 0
      /\ Count(queue["atm"], Msg("WithdrawOK")) = 0
  BY <1>1, CountEmpty
<1> QED
  BY <1>2, BalanceAssumption, PayloadAssumption
     DEF Init, BankInit, InterfaceInit, CashBacked

\* No cash without a debit, whatever is cancelled, stale or in flight: the
\* grants in the queues and the cash handed out are covered by what the bank
\* took from the account.
THEOREM CashIsBacked == Spec => []CashBacked
<1>1. TypeOK /\ CashBacked /\ [Next]_vars => (TypeOK /\ CashBacked)'
  BY TypeStep, CashStep
<1>2. Init => TypeOK /\ CashBacked
  BY TypeInit, CashInit
<1> QED
  BY <1>1, <1>2, PTL DEF Spec

\* The three machines and main implement the cash ledger: a handler is a
\* withdrawal, an issue of cash, or no step of the ledger at all.
THEOREM LedgerImplemented == Spec => LedgerKept
<1>1. Init => Ledger!Init
  BY BalanceAssumption DEF Init, BankInit, InterfaceInit, Ledger!Init
<1>2. TypeOK /\ CashBacked /\ [Next]_vars
        => [Ledger!Next]_<<InitialBalance - balance, issued>>
  <2> SUFFICES ASSUME TypeOK, CashBacked, [Next]_vars
               PROVE  \/ Ledger!Next
                      \/ UNCHANGED <<InitialBalance - balance, issued>>
    OBVIOUS
  <2>1. /\ issued \in Nat /\ balance \in Nat
        /\ InitialBalance \in Nat /\ Amount \in Nat
    BY BalanceAssumption, PayloadAssumption DEF TypeOK
  <2>2. CASE UNCHANGED <<issued, balance>>
    BY <2>2
  <2>3. CASE BankWithdraws /\ UNCHANGED issued
    <3>1. balance >= Amount /\ balance' = balance - Amount
      BY <2>3 DEF BankWithdraws
    <3> QED
      BY <2>1, <2>3, <3>1 DEF Ledger!Next, Ledger!Withdraw
  <2>4. CASE InterfaceIssues /\ Granted(queue) = Granted(queue') + 1 /\ UNCHANGED balance
    <3>1. issued' = issued + Amount
      BY <2>4 DEF InterfaceIssues
    <3>2. Granted(queue') \in Nat /\ Granted(queue) \in Nat
      BY GrantedStep
    <3>3. issued + Amount * Granted(queue) <= InitialBalance - balance
      BY DEF CashBacked, Granted, Both
    <3>4. /\ Amount * Granted(queue) = Amount * Granted(queue') + Amount
          /\ Amount * Granted(queue') \in Nat
      BY <2>1, <2>4, <3>2, Multiples
    <3>5. issued + Amount <= InitialBalance - balance
      BY <2>1, <3>3, <3>4
    <3> QED
      BY <2>4, <3>1, <3>5 DEF Ledger!Next, Ledger!Issue
  <2> QED
    BY <2>2, <2>3, <2>4, GrantedStep
<1>3. TypeOK /\ CashBacked /\ [Next]_vars => (TypeOK /\ CashBacked)'
  BY TypeStep, CashStep
<1>4. Init => TypeOK /\ CashBacked
  BY TypeInit, CashInit
<1> QED
  BY <1>1, <1>2, <1>3, <1>4, PTL DEF Spec, LedgerKept, Ledger!Spec
------------------------------------------------------------------------------
(* The condition variables. *)

\* A thread that goes to sleep has an empty queue, one that is sent to is awake
\* again, and nobody else takes a message from its queue.
LEMMA WakeupStep == TypeOK /\ NoLostWakeup /\ [Next]_vars => NoLostWakeup'
<1> SUFFICES ASSUME TypeOK, NoLostWakeup, [Next]_vars,
                    NEW m \in asleep'
             PROVE  queue'[m] = << >>
  BY DEF NoLostWakeup
<1>1. /\ DOMAIN queue = Machines
      /\ m \in Machines
      /\ \A n \in asleep : queue[n] = << >>
  <2>1. TypeOK'
    BY TypeStep
  <2> QED
    BY <2>1 DEF TypeOK, QueuesOK, NoLostWakeup
<1>2. ASSUME NEW q, NEW to, Sent(q, to)
      PROVE  queue' = q /\ m \in asleep /\ m \notin to
  BY <1>2 DEF Sent
<1>3. ASSUME NEW n \in Machines, Awake(n)
      PROVE  /\ m \in asleep => n # m
             /\ n # m => Pop(queue, n)[m] = queue[m]
  BY <1>1, <1>3 DEF Awake, Pop
<1>4. ASSUME NEW q, DOMAIN q = Machines, NEW n, NEW msg
      PROVE  /\ DOMAIN Push(q, n, msg) = Machines
             /\ n # m => Push(q, n, msg)[m] = q[m]
  BY <1>1, <1>4 DEF Push
<1>5. \A n : DOMAIN Pop(queue, n) = Machines
  BY <1>1 DEF Pop
<1>6. "atm" \in Machines /\ "bank" \in Machines /\ "interface" \in Machines
  BY DEF Machines
<1>7. ASSUME NEW n \in Machines, Block(n) \/ Close(n)
      PROVE  queue'[m] = << >>
  <2>1. CASE Block(n)
    BY <1>1, <2>1 DEF Block
  <2>2. CASE Close(n)
    BY <1>1, <1>3, <2>2 DEF Close, Receives
  <2> QED
    BY <1>7, <2>1, <2>2
<1>8. CASE AtmStep
  <2>1. CASE AtmAsksForCard \/ AtmOffersActions \/ AtmEjectsCard
    BY <1>1, <1>2, <1>4, <2>1 DEF AtmAsksForCard, AtmOffersActions, AtmEjectsCard, Prompt
  <2>2. CASE AtmTakesCard \/ AtmRejectsPin \/ AtmShowsBalance \/ AtmReportsDenial
    BY <1>1, <1>2, <1>3, <1>4, <1>5, <1>6, <2>2
       DEF AtmTakesCard, AtmRejectsPin, AtmShowsBalance, AtmReportsDenial, Takes, Receives
  <2>3. CASE AtmTakesDigit \/ AtmAcceptsPin \/ AtmCancels
    BY <1>1, <1>2, <1>3, <1>6, <2>3
       DEF AtmTakesDigit, AtmAcceptsPin, AtmCancels, Takes, Receives
  <2>4. CASE AtmSendsPin \/ AtmAsksWithdrawal \/ AtmAsksBalance
    BY <1>1, <1>2, <1>3, <1>4, <1>5, <1>6, <2>4
       DEF AtmSendsPin, AtmAsksWithdrawal, AtmAsksBalance, Takes, Receives
  <2>5. CASE AtmIssuesMoney \/ AtmCancelsWithdrawal
    BY <1>1, <1>2, <1>3, <1>4, <1>5, <1>6, <2>5
       DEF AtmIssuesMoney, AtmCancelsWithdrawal, Takes, Receives
  <2>6. CASE AtmDiscards
    BY <1>1, <1>3, <1>6, <2>6 DEF AtmDiscards, Discard
  <2>7. CASE AtmBlocks \/ AtmCloses
    BY <1>6, <1>7, <2>7 DEF AtmBlocks, AtmCloses
  <2> QED
    BY <1>8, <2>1, <2>2, <2>3, <2>4, <2>5, <2>6, <2>7 DEF AtmStep, AtmNext
<1>9. CASE BankStep
  <2>1. CASE BankVerifiesPin \/ BankWithdraws \/ BankDenies \/ BankTellsBalance
    BY <1>1, <1>2, <1>3, <1>4, <1>5, <1>6, <2>1
       DEF BankVerifiesPin, BankWithdraws, BankDenies, BankTellsBalance, Receives
  <2>2. CASE BankNotes
    BY <1>1, <1>2, <1>3, <1>6, <2>2 DEF BankNotes, Receives
  <2>3. CASE BankBlocks \/ BankCloses
    BY <1>6, <1>7, <2>3 DEF BankBlocks, BankCloses
  <2> QED
    BY <1>9, <2>1, <2>2, <2>3 DEF BankStep, BankNext
<1>10. CASE InterfaceStep
  <2>1. CASE InterfaceIssues \/ InterfaceShows
    BY <1>1, <1>2, <1>3, <1>6, <2>1 DEF InterfaceIssues, InterfaceShows, Receives
  <2>2. CASE InterfaceBlocks \/ InterfaceCloses
    BY <1>6, <1>7, <2>2 DEF InterfaceBlocks, InterfaceCloses
  <2> QED
    BY <1>10, <2>1, <2>2 DEF InterfaceStep, InterfaceNext
<1>11. CASE MainStep
  <2>1. ASSUME NEW msg \in KeyMessages, PressKey(msg)
        PROVE  queue'[m] = << >>
    BY <1>1, <1>2, <1>4, <2>1 DEF PressKey
  <2>2. CASE Quit \/ Join
    BY <1>1, <2>2 DEF Quit, Join, msgVars
  <2>3. CASE CloseBank \/ CloseAtm \/ CloseInterface
    BY <1>1, <1>2, <1>4, <2>3 DEF CloseBank, CloseAtm, CloseInterface, SendClose
  <2> QED
    BY <1>11, <2>1, <2>2, <2>3 DEF MainStep, MainNext, Shutdown
<1>12. CASE Finished \/ UNCHANGED vars
  BY <1>1, <1>12 DEF Finished, vars, msgVars
<1> QED
  BY <1>8, <1>9, <1>10, <1>11, <1>12 DEF Next

\* queue.h: a thread waits on its condition variable only while there is
\* nothing to read, because Push changes the queue and notifies under the mutex
\* that the waiter's test of the predicate holds.
THEOREM NoWakeupLost == Spec => []NoLostWakeup
<1>1. Init => NoLostWakeup
  BY DEF Init, MessagingInit, NoLostWakeup
<1> QED
  BY <1>1, TypeInit, TypeStep, WakeupStep, PTL DEF Spec
------------------------------------------------------------------------------
(* PINs: the copies of the correct one and of PinVerified in the queues. *)

\* The correct PINs the bank has not seen and the answers to those it has.
Proofs(q) == Both(q, "atm", Msg("PinVerified"), "bank", DigitMsg("VerifyPin", CorrectPin))

\* The bank turns a correct PIN into an answer and the ATM uses the answer up:
\* only AtmSendsPin makes a new one.
LEMMA ProofsStep ==
    ASSUME TypeOK, [Next]_vars
    PROVE  /\ Proofs(queue) \in Nat
           /\ Proofs(queue') \in Nat
           /\ \/ Proofs(queue') <= Proofs(queue) /\ UNCHANGED <<goodPins, authorised>>
              \/ /\ Proofs(queue') = Proofs(queue) + 1
                 /\ goodPins' = goodPins + 1 /\ authorised' = authorised
              \/ /\ Proofs(queue) = Proofs(queue') + 1
                 /\ authorised' = authorised + 1 /\ goodPins' = goodPins
<1> DEFINE Proof(m, msg) == \/ m = "atm" /\ msg = Msg("PinVerified")
                            \/ m = "bank" /\ msg = DigitMsg("VerifyPin", CorrectPin)
<1>1. "atm" \in Machines /\ "bank" \in Machines /\ "interface" \in Machines
  BY DEF Machines
<1>2. QueuesOK(queue)
  BY DEF TypeOK
<1>3. ASSUME NEW m \in Machines, queue[m] # << >>
      PROVE  /\ QueuesOK(Pop(queue, m))
             /\ Head(queue[m]) \in Inbox[m]
             /\ Proofs(Pop(queue, m)) \in Nat
             /\ Proofs(queue)
                  = Proofs(Pop(queue, m)) + (IF Proof(m, Head(queue[m])) THEN 1 ELSE 0)
  BY <1>1, <1>2, <1>3, PopOK, BothPop DEF Proofs
<1>4. ASSUME NEW q, QueuesOK(q), NEW m \in Machines, NEW msg \in Inbox[m]
      PROVE  /\ QueuesOK(Push(q, m, msg))
             /\ Proofs(q) \in Nat
             /\ Proofs(Push(q, m, msg)) = Proofs(q) + (IF Proof(m, msg) THEN 1 ELSE 0)
  BY <1>1, <1>4, PushOK, BothPush DEF Proofs
<1>5. Proofs(queue) \in Nat /\ Proofs(queue') \in Nat
  <2>1. QueuesOK(queue')
    BY StepQueues
  <2>2. Msg("IssueMoney") \in Inbox["interface"]
    BY InterfaceInbox
  <2> QED
    BY <1>1, <1>2, <1>4, <2>1, <2>2
<1>6. ASSUME NEW m \in Machines, queue[m] # << >>, queue' = Pop(queue, m)
      PROVE  Proofs(queue') <= Proofs(queue)
  BY <1>3, <1>5, <1>6
<1>7. ASSUME NEW n \in Machines, NEW msg \in Inbox[n], ~Proof(n, msg),
             queue' = Push(queue, n, msg)
      PROVE  Proofs(queue') <= Proofs(queue)
  BY <1>2, <1>4, <1>5, <1>7
<1>8. ASSUME NEW m \in Machines, queue[m] # << >>,
             NEW n \in Machines, NEW msg \in Inbox[n], ~Proof(n, msg),
             queue' = Push(Pop(queue, m), n, msg)
      PROVE  Proofs(queue') <= Proofs(queue)
  <2>1. Proofs(queue') = Proofs(Pop(queue, m))
    BY <1>3, <1>4, <1>8
  <2> QED
    BY <1>3, <1>5, <1>8, <2>1
<1>9. ASSUME NEW m \in Machines, queue[m] # << >>,
             NEW n \in Machines, NEW msg \in Inbox[n], ~Proof(n, msg),
             NEW o \in Machines, NEW more \in Inbox[o], ~Proof(o, more),
             queue' = Push(Push(Pop(queue, m), n, msg), o, more)
      PROVE  Proofs(queue') <= Proofs(queue)
  <2>1. /\ QueuesOK(Push(Pop(queue, m), n, msg))
        /\ Proofs(Push(Pop(queue, m), n, msg)) = Proofs(Pop(queue, m))
    BY <1>3, <1>4, <1>9
  <2>2. Proofs(queue') = Proofs(Push(Pop(queue, m), n, msg))
    BY <1>3, <1>4, <1>9, <2>1
  <2> QED
    BY <1>3, <1>5, <1>9, <2>1, <2>2
<1>10. \A t \in Displays \cup {"IssueMoney"} :
          Msg(t) \in Inbox["interface"] /\ ~Proof("interface", Msg(t))
  BY InterfaceInbox
<1>11. \A t \in {"Withdraw", "GetBalance", "WithdrawProcessed", "CancelWithdrawal"} :
          Msg(t) \in Inbox["bank"] /\ ~Proof("bank", Msg(t))
  <2>1. \A t : Msg(t) = DigitMsg("VerifyPin", CorrectPin) => t = "VerifyPin"
    BY MsgTypes
  <2> QED
    BY <2>1, BankInbox
<1>12. \A t \in {"WithdrawOK", "WithdrawDenied", "Balance", "PinIncorrect"} :
          Msg(t) \in Inbox["atm"] /\ ~Proof("atm", Msg(t))
  <2>1. \A t : Msg(t) = Msg("PinVerified") => t = "PinVerified"
    BY MsgTypes
  <2> QED
    BY <2>1, AtmInbox
<1> HIDE DEF Proof
<1>13. CASE AtmStep
  <2>1. CASE AtmAsksForCard \/ AtmOffersActions \/ AtmEjectsCard
    <3>1. "DisplayEnterCard" \in Displays /\ "DisplayWithdrawalOptions" \in Displays
          /\ "EjectCard" \in Displays
      BY DEF Displays
    <3> QED
      BY <1>1, <1>5, <1>7, <1>10, <2>1, <3>1
         DEF AtmAsksForCard, AtmOffersActions, AtmEjectsCard, Prompt, Sent
  <2>2. CASE AtmTakesCard \/ AtmRejectsPin \/ AtmShowsBalance \/ AtmReportsDenial
    <3>1. "DisplayEnterPin" \in Displays /\ "DisplayPinIncorrectMessage" \in Displays
          /\ "DisplayBalance" \in Displays /\ "DisplayInsufficientFunds" \in Displays
      BY DEF Displays
    <3> QED
      BY <1>1, <1>5, <1>8, <1>10, <2>2, <3>1
         DEF AtmTakesCard, AtmRejectsPin, AtmShowsBalance, AtmReportsDenial, Takes,
             Receives, Sent
  <2>3. CASE AtmTakesDigit \/ AtmCancels \/ AtmDiscards \/ AtmCloses
    BY <1>1, <1>5, <1>6, <2>3
       DEF AtmTakesDigit, AtmCancels, AtmDiscards, AtmCloses, Takes, Receives, Sent,
           Discard, Close, atmVars
  <2>4. CASE AtmAsksWithdrawal \/ AtmAsksBalance
    BY <1>1, <1>5, <1>8, <1>11, <2>4
       DEF AtmAsksWithdrawal, AtmAsksBalance, Takes, Receives, Sent
  <2>5. CASE AtmIssuesMoney \/ AtmCancelsWithdrawal
    <3>1. "DisplayWithdrawalCancelled" \in Displays
      BY DEF Displays
    <3> QED
      BY <1>1, <1>5, <1>9, <1>10, <1>11, <2>5, <3>1
         DEF AtmIssuesMoney, AtmCancelsWithdrawal, Takes, Receives, Sent
  <2>6. CASE AtmBlocks
    BY <1>5, <2>6 DEF AtmBlocks, Block, atmVars
  <2>7. CASE AtmAcceptsPin
    <3>1. /\ queue["atm"] # << >> /\ Head(queue["atm"]).type = "PinVerified"
          /\ queue' = Pop(queue, "atm")
          /\ authorised' = authorised + 1 /\ goodPins' = goodPins
      BY <2>7 DEF AtmAcceptsPin, Takes, Receives, Sent
    <3>2. Head(queue["atm"]) = Msg("PinVerified")
      BY <1>1, <1>3, <3>1, AtmHeads
    <3>3. Proof("atm", Head(queue["atm"]))
      BY <3>2 DEF Proof
    <3> QED
      BY <1>1, <1>3, <1>5, <3>1, <3>3
  <2>8. CASE AtmSendsPin
    <3>1. /\ queue["atm"] # << >>
          /\ queue' = Push(Pop(queue, "atm"), "bank", DigitMsg("VerifyPin", pin'))
          /\ goodPins' = goodPins + (IF pin' = CorrectPin THEN 1 ELSE 0)
          /\ authorised' = authorised
      BY <2>8 DEF AtmSendsPin, Takes, Receives, Sent
    <3>2. DigitMsg("VerifyPin", pin') \in Inbox["bank"] /\ goodPins \in Nat
      BY <1>13, AtmTypes, BankInbox DEF PinOK, TypeOK
    <3>3. Proof("bank", DigitMsg("VerifyPin", pin')) <=> pin' = CorrectPin
      BY MsgTypes DEF Proof
    <3>4. CASE pin' = CorrectPin
      <4>1. Proofs(queue') = Proofs(Pop(queue, "atm")) + 1
        BY <1>1, <1>3, <1>4, <3>1, <3>2, <3>3, <3>4
      <4>2. CASE Proof("atm", Head(queue["atm"]))
        <5>1. Head(queue["atm"]).type = "DigitPressed"
          BY <2>8 DEF AtmSendsPin, Takes, Receives
        <5> QED
          BY <4>2, <5>1, MsgTypes DEF Proof
      <4>3. CASE ~Proof("atm", Head(queue["atm"]))
        BY <1>1, <1>3, <1>5, <3>1, <3>2, <3>4, <4>1, <4>3
      <4> QED
        BY <4>2, <4>3
    <3>5. CASE pin' # CorrectPin
      <4>1. goodPins' = goodPins
        BY <3>1, <3>2, <3>5
      <4> QED
        BY <1>1, <1>5, <1>8, <3>1, <3>2, <3>3, <3>5, <4>1
    <3> QED
      BY <3>4, <3>5
  <2> QED
    BY <1>13, <2>1, <2>2, <2>3, <2>4, <2>5, <2>6, <2>7, <2>8 DEF AtmStep, AtmNext
<1>14. CASE BankStep
  <2>0. UNCHANGED <<goodPins, authorised>>
    BY <1>14 DEF BankStep, atmVars
  <2>1. CASE BankVerifiesPin
    <3>1. queue["bank"] # << >> /\ Head(queue["bank"]).type = "VerifyPin"
      BY <2>1 DEF BankVerifiesPin, Receives
    <3>2. CASE Head(queue["bank"]).digits = CorrectPin
      <4>1. queue' = Push(Pop(queue, "bank"), "atm", Msg("PinVerified"))
        BY <2>1, <3>2 DEF BankVerifiesPin, Sent
      <4>2. Proof("bank", Head(queue["bank"]))
        BY <1>1, <1>3, <3>1, <3>2, BankHeads DEF Proof
      <4>3. Msg("PinVerified") \in Inbox["atm"]
        BY AtmInbox
      <4>4. Proof("atm", Msg("PinVerified"))
        BY DEF Proof
      <4>5. Proofs(queue') = Proofs(Pop(queue, "bank")) + 1
        BY <1>1, <1>3, <1>4, <3>1, <4>1, <4>3, <4>4
      <4> QED
        BY <1>1, <1>3, <1>5, <2>0, <3>1, <4>2, <4>5
    <3>3. CASE Head(queue["bank"]).digits # CorrectPin
      <4>1. queue' = Push(Pop(queue, "bank"), "atm", Msg("PinIncorrect"))
        BY <2>1, <3>3 DEF BankVerifiesPin, Sent
      <4> QED
        BY <1>1, <1>5, <1>8, <1>12, <2>0, <3>1, <4>1
    <3> QED
      BY <3>2, <3>3
  <2>2. CASE BankWithdraws \/ BankDenies \/ BankTellsBalance
    BY <1>1, <1>5, <1>8, <1>12, <2>0, <2>2
       DEF BankWithdraws, BankDenies, BankTellsBalance, Receives, Sent
  <2>3. CASE BankNotes \/ BankCloses
    BY <1>1, <1>5, <1>6, <2>0, <2>3 DEF BankNotes, BankCloses, Close, Receives, Sent
  <2>4. CASE BankBlocks
    BY <1>5, <2>0, <2>4 DEF BankBlocks, Block
  <2> QED
    BY <1>14, <2>1, <2>2, <2>3, <2>4 DEF BankStep, BankNext
<1>15. CASE InterfaceStep
  <2>0. UNCHANGED <<goodPins, authorised>>
    BY <1>15 DEF InterfaceStep, atmVars
  <2>1. CASE InterfaceIssues \/ InterfaceShows \/ InterfaceCloses
    BY <1>1, <1>5, <1>6, <2>0, <2>1
       DEF InterfaceIssues, InterfaceShows, InterfaceCloses, Close, Receives, Sent
  <2>2. CASE InterfaceBlocks
    BY <1>5, <2>0, <2>2 DEF InterfaceBlocks, Block
  <2> QED
    BY <1>15, <2>1, <2>2 DEF InterfaceStep, InterfaceNext
<1>16. CASE MainStep
  <2>0. UNCHANGED <<goodPins, authorised>>
    BY <1>16 DEF MainStep, atmVars
  <2>1. ASSUME NEW msg \in KeyMessages, PressKey(msg)
        PROVE  Proofs(queue') <= Proofs(queue)
    <3>1. msg \in Inbox["atm"] /\ msg.type # "PinVerified"
      BY AtmInbox, KeyTypes
    <3>2. ~Proof("atm", msg)
      BY <3>1, MsgTypes DEF Proof
    <3> QED
      BY <1>1, <1>7, <2>1, <3>1, <3>2 DEF PressKey, Sent
  <2>2. CASE Quit \/ Join
    BY <1>5, <2>0, <2>2 DEF Quit, Join, msgVars
  <2>3. CASE CloseBank \/ CloseAtm \/ CloseInterface
    <3>1. \A m \in Machines : CloseQueue \in Inbox[m] /\ ~Proof(m, CloseQueue)
      BY InterfaceInbox, BankInbox, AtmInbox, MsgTypes DEF CloseQueue, Proof, Machines
    <3> QED
      BY <1>1, <1>5, <1>7, <2>0, <2>3, <3>1
         DEF CloseBank, CloseAtm, CloseInterface, SendClose, Sent
  <2> QED
    BY <1>5, <1>16, <2>0, <2>1, <2>2, <2>3 DEF MainStep, MainNext, Shutdown
<1>17. CASE Finished \/ UNCHANGED vars
  BY <1>5, <1>17 DEF Finished, vars, msgVars, atmVars
<1> QED
  BY <1>13, <1>14, <1>15, <1>16, <1>17 DEF Next

LEMMA AuthStep == TypeOK /\ AuthBacked /\ [Next]_vars => AuthBacked'
<1> SUFFICES ASSUME TypeOK, AuthBacked, [Next]_vars
             PROVE  AuthBacked'
  OBVIOUS
<1> DEFINE p == Proofs(queue)
           r == Proofs(queue')
           pinV == Count(queue["atm"], Msg("PinVerified"))
           asked == Count(queue["bank"], DigitMsg("VerifyPin", CorrectPin))
<1>1. authorised \in Nat /\ goodPins \in Nat /\ p \in Nat /\ r \in Nat
  BY ProofsStep DEF TypeOK
<1>2. QueuesOK(queue) /\ QueuesOK(queue')
  BY StepQueues DEF TypeOK
<1>3. ASSUME NEW q, QueuesOK(q)
      PROVE  /\ Count(q["atm"], Msg("PinVerified")) \in Nat
             /\ Count(q["bank"], DigitMsg("VerifyPin", CorrectPin)) \in Nat
  BY <1>3, CountNat DEF QueuesOK, Machines
<1>4. authorised + p <= goodPins
  BY <1>1, <1>2, <1>3 DEF AuthBacked, Proofs, Both
<1>5. authorised' + r <= goodPins'
  BY <1>1, <1>4, ProofsStep
<1>6. authorised' \in Nat
  BY <1>1, ProofsStep
<1> QED
  BY <1>2, <1>3, <1>5, <1>6 DEF AuthBacked, Proofs, Both

LEMMA AuthInit == Init => AuthBacked
<1> SUFFICES ASSUME Init PROVE AuthBacked
  OBVIOUS
<1>1. queue["atm"] = << >> /\ queue["bank"] = << >>
  BY DEF Init, MessagingInit, Machines
<1>2. /\ Count(queue["atm"], Msg("PinVerified")) = 0
      /\ Count(queue["bank"], DigitMsg("VerifyPin", CorrectPin)) = 0
  BY <1>1, CountEmpty
<1> QED
  BY <1>2 DEF Init, AtmInit, AuthBacked

\* Nobody gets in without the PIN, whatever is cancelled and retyped: every
\* acceptance is paid for by one correct PIN (atm/atm.h:103-108 and 121-130,
\* atm/bank_machine.h:25-32).
THEOREM PinsBackAcceptance == Spec => []AuthBacked
<1>1. TypeOK /\ AuthBacked /\ [Next]_vars => (TypeOK /\ AuthBacked)'
  BY TypeStep, AuthStep
<1>2. Init => TypeOK /\ AuthBacked
  BY TypeInit, AuthInit
<1> QED
  BY <1>1, <1>2, PTL DEF Spec
------------------------------------------------------------------------------
(* The answers the ATM waits for. *)

Waiting == {"VerifyingPin", "ProcessWithdrawal", "ProcessBalance"}

Request == [ VerifyingPin |-> "VerifyPin",
             ProcessWithdrawal |-> "Withdraw",
             ProcessBalance |-> "GetBalance" ]

Answers == [ VerifyingPin |-> {"PinVerified", "PinIncorrect"},
             ProcessWithdrawal |-> {"WithdrawOK", "WithdrawDenied"},
             ProcessBalance |-> {"Balance"} ]

Awaited(s) == OnItsWay(Request[s], Answers[s])

\* A queue keeps what it holds when a message is added, and when one is taken
\* that is of another type.
LEMMA HoldsAppend ==
    ASSUME NEW S, NEW q \in Seq(S), NEW msg \in S, NEW types
    PROVE  /\ Holds(q, types) => Holds(Append(q, msg), types)
           /\ msg.type \in types => Holds(Append(q, msg), types)
<1> DEFINE r == Append(q, msg)
<1>1. /\ DOMAIN q = 1 .. Len(q) /\ Len(q) \in Nat /\ r \in Seq(S)
      /\ Len(r) = Len(q) + 1 /\ DOMAIN r = 1 .. Len(r)
      /\ \A i \in 1 .. Len(q) : r[i] = q[i]
      /\ r[Len(q) + 1] = msg
  BY LenProperties, AppendProperties
<1> HIDE DEF r
<1>2. Holds(q, types) => Holds(r, types)
  BY <1>1 DEF Holds
<1>3. msg.type \in types => Holds(r, types)
  <2>1. Len(q) + 1 \in DOMAIN r
    BY <1>1
  <2> QED
    BY <1>1, <2>1 DEF Holds
<1> QED
  BY <1>2, <1>3 DEF r

LEMMA HoldsTail ==
    ASSUME NEW S, NEW q \in Seq(S), q # << >>, NEW types,
           Holds(q, types), Head(q).type \notin types
    PROVE  Holds(Tail(q), types)
<1> DEFINE r == Tail(q)
<1>1. /\ DOMAIN q = 1 .. Len(q) /\ Len(q) \in Nat \ {0} /\ Head(q) = q[1]
      /\ r \in Seq(S) /\ Len(r) = Len(q) - 1 /\ DOMAIN r = 1 .. Len(r)
      /\ \A i \in 1 .. Len(r) : r[i] = q[i + 1]
  BY LenProperties, EmptySeq, HeadTailProperties
<1>2. PICK i \in DOMAIN q : q[i].type \in types
  BY DEF Holds
<1> HIDE DEF r
<1>3. i # 1
  BY <1>1, <1>2
<1>4. i - 1 \in DOMAIN r /\ r[i - 1] = q[i]
  BY <1>1, <1>2, <1>3
<1> QED
  BY <1>2, <1>4 DEF Holds, r

LEMMA HoldsPush ==
    ASSUME NEW q, QueuesOK(q), NEW m \in Machines, NEW msg \in Inbox[m],
           NEW n \in Machines, NEW types
    PROVE  /\ Holds(q[n], types) => Holds(Push(q, m, msg)[n], types)
           /\ m = n /\ msg.type \in types => Holds(Push(q, m, msg)[n], types)
<1>1. q[m] \in Seq(Inbox[m])
  BY DEF QueuesOK
<1>2. Push(q, m, msg)[n] = IF n = m THEN Append(q[m], msg) ELSE q[n]
  BY DEF QueuesOK, Push
<1> QED
  BY <1>1, <1>2, HoldsAppend

LEMMA HoldsPop ==
    ASSUME NEW q, QueuesOK(q), NEW m \in Machines, q[m] # << >>,
           NEW n \in Machines, NEW types, Holds(q[n], types),
           m = n => Head(q[m]).type \notin types
    PROVE  Holds(Pop(q, m)[n], types)
<1>1. q[m] \in Seq(Inbox[m])
  BY DEF QueuesOK
<1>2. Pop(q, m)[n] = IF n = m THEN Tail(q[m]) ELSE q[n]
  BY DEF QueuesOK, Pop
<1> QED
  BY <1>1, <1>2, HoldsTail

\* A machine sends something.
LEMMA SendKeeps ==
    ASSUME TypeOK, NEW m \in Machines, NEW msg \in Inbox[m], queue' = Push(queue, m, msg),
           NEW s \in Waiting, Awaited(s)
    PROVE  Awaited(s)'
<1>1. QueuesOK(queue) /\ "atm" \in Machines /\ "bank" \in Machines
  BY DEF TypeOK, Machines
<1>2. \A n \in Machines : \A types : Holds(queue[n], types) => Holds(queue'[n], types)
  BY <1>1, HoldsPush
<1> QED
  BY <1>1, <1>2 DEF Awaited, OnItsWay

\* A machine takes a message that is not part of the exchange.
LEMMA TakeKeeps ==
    ASSUME TypeOK, NEW m \in Machines, queue[m] # << >>, queue' = Pop(queue, m),
           NEW s \in Waiting, Awaited(s),
           m = "atm" => Head(queue["atm"]).type \notin Answers[s],
           m = "bank" => Head(queue["bank"]).type # Request[s]
    PROVE  Awaited(s)'
<1>1. QueuesOK(queue) /\ "atm" \in Machines /\ "bank" \in Machines
  BY DEF TypeOK, Machines
<1>2. Holds(queue["bank"], {Request[s]}) => Holds(queue'["bank"], {Request[s]})
  BY <1>1, HoldsPop
<1>3. Holds(queue["atm"], Answers[s]) => Holds(queue'["atm"], Answers[s])
  BY <1>1, HoldsPop
<1> QED
  BY <1>2, <1>3 DEF Awaited, OnItsWay

\* The bank answers, and its answer to the request is one the ATM waits for.
LEMMA AnswerKeeps ==
    ASSUME TypeOK, NEW s \in Waiting, Awaited(s), queue["bank"] # << >>,
           NEW a, Msg(a) \in Inbox["atm"],
           queue' = Push(Pop(queue, "bank"), "atm", Msg(a)),
           Head(queue["bank"]).type = Request[s] => a \in Answers[s]
    PROVE  Awaited(s)'
<1> DEFINE q == Pop(queue, "bank")
<1>1. /\ QueuesOK(queue) /\ "atm" \in Machines /\ "bank" \in Machines
      /\ QueuesOK(q)
  BY PopOK DEF TypeOK, Machines
<1>2. CASE Head(queue["bank"]).type = Request[s]
  <2>1. Msg(a).type \in Answers[s]
    BY <1>2, MsgTypes
  <2>2. Holds(queue'["atm"], Answers[s])
    BY <1>1, <2>1, HoldsPush
  <2> QED
    BY <2>2 DEF Awaited, OnItsWay
<1>3. CASE Head(queue["bank"]).type # Request[s]
  <2>1. Holds(queue["bank"], {Request[s]}) => Holds(q["bank"], {Request[s]})
    BY <1>1, <1>3, HoldsPop
  <2>2. Holds(queue["atm"], Answers[s]) => Holds(q["atm"], Answers[s])
    BY <1>1, HoldsPop
  <2> HIDE DEF q
  <2>3. \A n \in Machines : \A types : Holds(q[n], types) => Holds(queue'[n], types)
    BY <1>1, HoldsPush DEF q
  <2> QED
    BY <1>1, <2>1, <2>2, <2>3 DEF Awaited, OnItsWay
<1> QED
  BY <1>2, <1>3

\* The ATM sends its request when it begins to wait, and while it waits it takes
\* no message that it has a handler for.
LEMMA AtmAwaits ==
    ASSUME TypeOK, AtmStep, NEW s \in Waiting, state' = s, state = s => Awaited(s)
    PROVE  Awaited(s)'
<1>1. "atm" \in Machines /\ "bank" \in Machines /\ QueuesOK(queue)
  BY DEF TypeOK, Machines
<1>2. s \notin Prompting /\ s \in {"VerifyingPin", "ProcessWithdrawal", "ProcessBalance"}
  BY DEF Prompting, Waiting
<1>3. CASE AtmSendsPin \/ AtmAsksWithdrawal \/ AtmAsksBalance
  <2>1. /\ queue["atm"] # << >> /\ QueuesOK(Pop(queue, "atm"))
        /\ \E msg \in Inbox["bank"] : /\ msg.type = Request[s]
                                      /\ queue' = Push(Pop(queue, "atm"), "bank", msg)
    <3>1. CASE AtmSendsPin
      <4>1. /\ s = "VerifyingPin" /\ queue["atm"] # << >>
            /\ queue' = Push(Pop(queue, "atm"), "bank", DigitMsg("VerifyPin", pin'))
        BY <3>1 DEF AtmSendsPin, Enter, Takes, Receives, Sent
      <4>2. DigitMsg("VerifyPin", pin') \in Inbox["bank"]
        BY AtmTypes, BankInbox DEF PinOK
      <4> QED
        BY <1>1, <4>1, <4>2, PopOK, MsgTypes DEF Request
    <3>2. CASE AtmAsksWithdrawal
      <4>1. /\ s = "ProcessWithdrawal" /\ queue["atm"] # << >>
            /\ queue' = Push(Pop(queue, "atm"), "bank", Msg("Withdraw"))
        BY <3>2 DEF AtmAsksWithdrawal, Enter, Takes, Receives, Sent
      <4> QED
        BY <1>1, <4>1, BankInbox, PopOK, MsgTypes DEF Request
    <3>3. CASE AtmAsksBalance
      <4>1. /\ s = "ProcessBalance" /\ queue["atm"] # << >>
            /\ queue' = Push(Pop(queue, "atm"), "bank", Msg("GetBalance"))
        BY <3>3 DEF AtmAsksBalance, Enter, Takes, Receives, Sent
      <4> QED
        BY <1>1, <4>1, BankInbox, PopOK, MsgTypes DEF Request
    <3> QED
      BY <1>3, <3>1, <3>2, <3>3
  <2>2. PICK msg \in Inbox["bank"] : /\ msg.type = Request[s]
                                     /\ queue' = Push(Pop(queue, "atm"), "bank", msg)
    BY <2>1
  <2>3. Holds(queue'["bank"], {Request[s]})
    BY <1>1, <2>1, <2>2, HoldsPush
  <2> QED
    BY <2>3 DEF Awaited, OnItsWay
<1>4. CASE AtmDiscards
  <2>1. /\ state = s /\ queue["atm"] # << >> /\ queue' = Pop(queue, "atm")
        /\ Head(queue["atm"]).type \notin Handled[s]
    BY <1>4 DEF AtmDiscards, Discard, atmVars
  <2>2. Answers[s] \subseteq Handled[s]
    BY DEF Answers, Handled, Waiting
  <2> QED
    BY <1>1, <2>1, <2>2, TakeKeeps
<1>5. CASE AtmCloses
  <2>1. /\ state = s /\ queue["atm"] # << >> /\ queue' = Pop(queue, "atm")
        /\ Head(queue["atm"]).type = "CloseQueue"
    BY <1>5 DEF AtmCloses, Close, Receives, atmVars
  <2>2. "CloseQueue" \notin Answers[s]
    BY DEF Answers, Waiting
  <2> QED
    BY <1>1, <2>1, <2>2, TakeKeeps
<1>6. CASE AtmBlocks
  BY <1>6 DEF AtmBlocks, Block, atmVars, Awaited, OnItsWay
<1>7. ~(AtmAsksForCard \/ AtmOffersActions \/ AtmEjectsCard \/ AtmTakesCard
        \/ AtmTakesDigit \/ AtmAcceptsPin \/ AtmRejectsPin)
  BY <1>2 DEF AtmAsksForCard, AtmOffersActions, AtmEjectsCard, AtmTakesCard, AtmTakesDigit,
              AtmAcceptsPin, AtmRejectsPin, Prompt, Takes, Enter
<1>8. ~(AtmShowsBalance \/ AtmIssuesMoney \/ AtmReportsDenial \/ AtmCancelsWithdrawal
        \/ AtmCancels)
  BY <1>2 DEF AtmShowsBalance, AtmIssuesMoney, AtmReportsDenial, AtmCancelsWithdrawal,
              AtmCancels, Enter
<1> QED
  BY <1>3, <1>4, <1>5, <1>6, <1>7, <1>8 DEF AtmStep, AtmNext

\* The others lose neither the request nor the answer.
LEMMA BankAwaits ==
    ASSUME TypeOK, BankStep, NEW s \in Waiting, Awaited(s)
    PROVE  Awaited(s)'
<1>1. "bank" \in Machines
  BY DEF Machines
<1>2. CASE BankVerifiesPin \/ BankWithdraws \/ BankDenies \/ BankTellsBalance
  <2>1. PICK a : /\ queue["bank"] # << >> /\ Msg(a) \in Inbox["atm"]
                 /\ queue' = Push(Pop(queue, "bank"), "atm", Msg(a))
                 /\ Head(queue["bank"]).type = Request[s] => a \in Answers[s]
    <3>1. CASE BankVerifiesPin
      <4>1. PICK a \in {"PinVerified", "PinIncorrect"} :
               queue' = Push(Pop(queue, "bank"), "atm", Msg(a))
        BY <3>1 DEF BankVerifiesPin, Sent
      <4> QED
        BY <3>1, <4>1, AtmInbox DEF BankVerifiesPin, Receives, Request, Answers, Waiting
    <3>2. CASE BankWithdraws
      BY <3>2, AtmInbox DEF BankWithdraws, Receives, Sent, Request, Answers, Waiting
    <3>3. CASE BankDenies
      BY <3>3, AtmInbox DEF BankDenies, Receives, Sent, Request, Answers, Waiting
    <3>4. CASE BankTellsBalance
      BY <3>4, AtmInbox DEF BankTellsBalance, Receives, Sent, Request, Answers, Waiting
    <3> QED
      BY <1>2, <3>1, <3>2, <3>3, <3>4
  <2> QED
    BY <2>1, AnswerKeeps
<1>3. CASE BankNotes \/ BankCloses
  <2>1. /\ queue["bank"] # << >> /\ queue' = Pop(queue, "bank")
        /\ Head(queue["bank"]).type # Request[s]
    BY <1>3 DEF BankNotes, BankCloses, Close, Receives, Sent, Request, Waiting
  <2> QED
    BY <1>1, <2>1, TakeKeeps
<1>4. CASE BankBlocks
  BY <1>4 DEF BankBlocks, Block, Awaited, OnItsWay
<1> QED
  BY <1>2, <1>3, <1>4 DEF BankStep, BankNext

LEMMA OthersAwait ==
    ASSUME TypeOK, InterfaceStep \/ MainStep \/ Finished \/ UNCHANGED vars,
           NEW s \in Waiting, Awaited(s)
    PROVE  Awaited(s)'
<1>1. "atm" \in Machines /\ "bank" \in Machines /\ "interface" \in Machines
  BY DEF Machines
<1>2. ASSUME queue' = queue PROVE Awaited(s)'
  BY <1>2 DEF Awaited, OnItsWay
<1>3. CASE InterfaceStep
  <2>1. CASE InterfaceIssues \/ InterfaceShows \/ InterfaceCloses
    <3>1. queue["interface"] # << >> /\ queue' = Pop(queue, "interface")
      BY <2>1 DEF InterfaceIssues, InterfaceShows, InterfaceCloses, Close, Receives, Sent
    <3> QED
      BY <1>1, <3>1, TakeKeeps
  <2>2. CASE InterfaceBlocks
    BY <1>2, <2>2 DEF InterfaceBlocks, Block
  <2> QED
    BY <1>3, <2>1, <2>2 DEF InterfaceStep, InterfaceNext
<1>4. CASE MainStep
  <2>1. ASSUME NEW msg \in KeyMessages, PressKey(msg) PROVE Awaited(s)'
    <3>1. msg \in Inbox["atm"] /\ queue' = Push(queue, "atm", msg)
      BY <2>1, AtmInbox DEF PressKey, Sent
    <3> QED
      BY <1>1, <3>1, SendKeeps
  <2>2. CASE Quit \/ Join
    BY <1>2, <2>2 DEF Quit, Join, msgVars
  <2>3. CASE CloseBank \/ CloseAtm \/ CloseInterface
    <3>1. \A m \in Machines : CloseQueue \in Inbox[m]
      BY InterfaceInbox, BankInbox, AtmInbox DEF CloseQueue, Machines
    <3>2. \E m \in Machines : queue' = Push(queue, m, CloseQueue)
      BY <1>1, <2>3 DEF CloseBank, CloseAtm, CloseInterface, SendClose, Sent
    <3> QED
      BY <3>1, <3>2, SendKeeps
  <2> QED
    BY <1>4, <2>1, <2>2, <2>3 DEF MainStep, MainNext, Shutdown
<1>5. CASE Finished \/ UNCHANGED vars
  BY <1>2, <1>5 DEF Finished, vars, msgVars
<1> QED
  BY <1>3, <1>4, <1>5

LEMMA AwaitedAll == AnswerOnItsWay <=> \A s \in Waiting : state = s => Awaited(s)
BY DEF AnswerOnItsWay, Awaited, Waiting, Request, Answers

LEMMA AwaitStep == TypeOK /\ AnswerOnItsWay /\ [Next]_vars => AnswerOnItsWay'
<1> SUFFICES ASSUME TypeOK, AnswerOnItsWay, [Next]_vars, NEW s \in Waiting, state' = s
             PROVE  Awaited(s)'
  BY AwaitedAll DEF AnswerOnItsWay, Awaited, Waiting, Request, Answers
<1>1. state = s => Awaited(s)
  BY AwaitedAll
<1>2. CASE AtmStep
  BY <1>1, <1>2, AtmAwaits
<1>3. CASE BankStep
  <2>1. state' = state
    BY <1>3 DEF BankStep, atmVars
  <2> QED
    BY <1>1, <1>3, <2>1, BankAwaits
<1>4. CASE InterfaceStep \/ MainStep \/ Finished \/ UNCHANGED vars
  <2>1. state' = state
    BY <1>4 DEF InterfaceStep, MainStep, Finished, vars, atmVars
  <2> QED
    BY <1>1, <1>4, <2>1, OthersAwait
<1> QED
  BY <1>2, <1>3, <1>4 DEF Next

\* The ATM never waits in vain: a state function that waits for the bank drops
\* only messages it has no handler for (atm/template_dispatcher.h:55-70), and
\* the bank answers each request in a way that state function handles
\* (atm/bank_machine.h:25-47), so the request or an answer is in a queue.
THEOREM AnswersUnderWay == Spec => []AnswerOnItsWay
<1>1. TypeOK /\ AnswerOnItsWay /\ [Next]_vars => (TypeOK /\ AnswerOnItsWay)'
  BY TypeStep, AwaitStep
<1>2. Init => TypeOK /\ AnswerOnItsWay
  BY TypeInit DEF Init, AtmInit, AnswerOnItsWay
<1> QED
  BY <1>1, <1>2, PTL DEF Spec
==============================================================================
