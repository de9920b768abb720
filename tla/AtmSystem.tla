------------------------------ MODULE AtmSystem ------------------------------
(***************************************************************************)
(* atm/main.cpp: the bank, the interface hardware and the ATM, each in a   *)
(* thread of its own, and main, which turns keys into messages for the ATM *)
(* until q is pressed, closes the three queues and joins the threads.      *)
(***************************************************************************)
EXTENDS AtmMachine, BankMachine, InterfaceMachine

CONSTANTS
    MaxKeys,        \* bound: how many keys are pressed
    MaxTypeAhead    \* bound: how many messages the ATM has not yet read

ASSUME KeyAssumption == MaxKeys \in Nat /\ MaxTypeAhead \in Nat

VARIABLES
    mainPc,         \* where main is: reading keys, or on its way out
    keys,           \* how many keys were pressed
    lastKey         \* history: the type of the last key's message

mainVars == <<mainPc, keys, lastKey>>

vars == <<msgVars, atmVars, bankVars, interfaceVars, mainVars>>

\* The messages the keys of main.cpp:31-62 stand for.
KeyMessages ==
    {DigitMsg("DigitPressed", <<d>>) : d \in Digits}
        \cup {Msg("BalancePressed"), Msg("WithdrawPressed"),
              Msg("CancelPressed"), Msg("CardInserted")}

Init ==
    /\ MessagingInit
    /\ AtmInit
    /\ BankInit
    /\ InterfaceInit
    /\ mainPc = "reading"
    /\ keys = 0
    /\ lastKey = "none"

PressKey(msg) ==
    /\ mainPc = "reading"
    /\ keys < MaxKeys
    /\ Len(queue["atm"]) < MaxTypeAhead
    /\ keys' = keys + 1
    /\ lastKey' = msg.type
    /\ Sent(Push(queue, "atm", msg), {"atm"})
    /\ UNCHANGED <<running, mainPc>>

Quit ==
    /\ mainPc = "reading"
    /\ mainPc' = "closingBank"
    /\ UNCHANGED <<msgVars, keys, lastKey>>

\* bank.Done(), machine.Done(), interface_hardware.Done() in main.cpp:64-66.
SendClose(pc, m, next) ==
    /\ mainPc = pc
    /\ mainPc' = next
    /\ Sent(Push(queue, m, CloseQueue), {m})
    /\ UNCHANGED <<running, keys, lastKey>>

\* Mutant: machine.Done() is called twice, and bank.Done() never.
CloseBankMissed == SendClose("closingBank", "atm", "closingAtm")

CloseBank == SendClose("closingBank", "bank", "closingAtm")
CloseAtm == SendClose("closingAtm", "atm", "closingInterface")
CloseInterface == SendClose("closingInterface", "interface", "joining")

\* The three join()s return when the three Run()s have.
Join ==
    /\ mainPc = "joining"
    /\ running = {}
    /\ mainPc' = "done"
    /\ UNCHANGED <<msgVars, keys, lastKey>>

Shutdown == CloseBank \/ CloseAtm \/ CloseInterface \/ Join

MainNext == (\E msg \in KeyMessages : PressKey(msg)) \/ Quit \/ Shutdown

AtmStep == AtmNext /\ UNCHANGED <<bankVars, interfaceVars, mainVars>>
BankStep == BankNext /\ UNCHANGED <<atmVars, interfaceVars, mainVars>>
InterfaceStep == InterfaceNext /\ UNCHANGED <<atmVars, bankVars, mainVars>>
MainStep == MainNext /\ UNCHANGED <<atmVars, bankVars, interfaceVars>>

\* main has returned: nothing is left to happen.
Finished == mainPc = "done" /\ UNCHANGED vars

Next ==
    \/ AtmStep
    \/ BankStep
    \/ InterfaceStep
    \/ MainStep
    \/ Finished

(***************************************************************************)
(* The scheduler runs every thread that can run; nobody is obliged to      *)
(* press a key or to quit.                                                 *)
(***************************************************************************)
Fairness ==
    /\ WF_vars(AtmStep)
    /\ WF_vars(BankStep)
    /\ WF_vars(InterfaceStep)
    /\ WF_vars(Shutdown /\ UNCHANGED <<atmVars, bankVars, interfaceVars>>)

Spec == Init /\ [][Next]_vars

FairSpec == Spec /\ Fairness
------------------------------------------------------------------------------
Plain(types) == [type : types, digits : {<< >>}]

\* The messages each machine is ever sent, by the others and by main.
Inbox ==
    [ atm       |-> [type : {"DigitPressed"}, digits : {<<d>> : d \in Digits}]
                      \cup Plain({"BalancePressed", "WithdrawPressed", "CancelPressed",
                                  "CardInserted", "PinVerified", "PinIncorrect",
                                  "WithdrawOK", "WithdrawDenied", "Balance",
                                  "CloseQueue"}),
      bank      |-> [type : {"VerifyPin"}, digits : Seq(Digits)]
                      \cup Plain({"Withdraw", "GetBalance", "WithdrawProcessed",
                                  "CancelWithdrawal", "CloseQueue"}),
      interface |-> Plain(Displays \cup {"IssueMoney", "CloseQueue"}) ]

QueuesOK(q) ==
    /\ DOMAIN q = Machines
    /\ \A m \in Machines : q[m] \in Seq(Inbox[m])

\* Every variable has its type.  No machine is sent a message its sender could
\* not have meant for it (the bank and the interface have a handler for all
\* they are sent), the unsigned balance never wraps below zero, and the PIN
\* being typed stays short of pin_length: atm.h:125 tests for equality, so a
\* longer one would never be sent.
TypeOK ==
    /\ QueuesOK(queue)
    /\ asleep \subseteq running
    /\ running \subseteq Machines
    /\ state \in States
    /\ prompted \in BOOLEAN
    /\ pin \in Seq(Digits) /\ Len(pin) <= PinLength
    /\ state = "GettingPin" => Len(pin) < PinLength
    /\ goodPins \in Nat /\ authorised \in Nat
    /\ balance \in 0 .. InitialBalance
    /\ issued \in Nat
    /\ keys \in 0 .. MaxKeys
    /\ mainPc \in {"reading", "closingBank", "closingAtm",
                   "closingInterface", "joining", "done"}
    /\ lastKey \in {"none", "DigitPressed", "BalancePressed", "WithdrawPressed",
                    "CancelPressed", "CardInserted"}

\* Cash handed out, on its way to the hardware or granted in a WithdrawOK the
\* ATM has not read yet is covered by money taken from the account: a grant
\* that arrives in a later withdrawal never pays twice.
CashBacked ==
    issued + Amount * (Count(queue["interface"], Msg("IssueMoney"))
                       + Count(queue["atm"], Msg("WithdrawOK")))
        <= InitialBalance - balance

\* A PIN is accepted at most as often as the correct one was typed, counting
\* answers and questions under way: a PinVerified read by a later session is
\* one that an earlier, cancelled session did not use.
AuthBacked ==
    authorised + Count(queue["atm"], Msg("PinVerified"))
               + Count(queue["bank"], DigitMsg("VerifyPin", CorrectPin))
        <= goodPins

\* While the ATM waits for the bank, its request or an answer it accepts is in
\* a queue, whatever stale answers and keys are mixed with them: it cannot have
\* thrown away the answer it waits for.
Holds(q, types) == \E i \in DOMAIN q : q[i].type \in types

OnItsWay(request, answers) ==
    Holds(queue["bank"], {request}) \/ Holds(queue["atm"], answers)

AnswerOnItsWay ==
    /\ state = "VerifyingPin" => OnItsWay("VerifyPin", {"PinVerified", "PinIncorrect"})
    /\ state = "ProcessWithdrawal" => OnItsWay("Withdraw", {"WithdrawOK", "WithdrawDenied"})
    /\ state = "ProcessBalance" => OnItsWay("GetBalance", {"Balance"})

\* A thread blocked in cond_var_.wait has nothing to read: Push's notify_all
\* is never missed.
NoLostWakeup == \A m \in asleep : queue[m] = << >>

\* Together the three machines keep the cash ledger.
Ledger == INSTANCE CashLedger
              WITH withdrawn <- InitialBalance - balance, Funds <- InitialBalance

LedgerKept == Ledger!Spec

\* Once q is pressed every thread's Run returns and main joins them, even when
\* the bank closes while the ATM waits for its answer.
ShutdownCompletes == (mainPc # "reading") ~> (mainPc = "done" /\ running = {})

\* An ATM that waits for the bank goes on, unless main is closing the queues.
AnswersArrive ==
    \A s \in {"VerifyingPin", "ProcessWithdrawal", "ProcessBalance"} :
        (state = s) ~> (state # s \/ mainPc # "reading")

\* If the last key pressed is Cancel, the machine ends up waiting for a card,
\* and every message it was sent has been read.
LastCancelEjects ==
    <>[](lastKey = "CancelPressed" /\ mainPc = "reading")
        => <>[](state = "WaitForCard" /\ \A m \in Machines : queue[m] = << >>)

(***************************************************************************)
(* interface_machine.h:60 tells the customer "Withdrawal cancelled", and   *)
(* atm.h:63 sends the bank a CancelWithdrawal, whose handler is empty      *)
(* (bank_machine.h:48-49).  When everything has been read and the ATM      *)
(* waits for the next card, the account should have been charged for the   *)
(* cash that was issued and for nothing else.                              *)
(***************************************************************************)
Quiet ==
    /\ mainPc = "reading"
    /\ state = "WaitForCard"
    /\ \A m \in Machines : queue[m] = << >>

NoChargeForCancelled == Quiet => InitialBalance - balance = issued
==============================================================================
