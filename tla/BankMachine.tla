----------------------------- MODULE BankMachine -----------------------------
(***************************************************************************)
(* atm/bank_machine.h: the bank answers VerifyPin, Withdraw and GetBalance *)
(* to the ATM's queue, and does nothing on WithdrawProcessed and           *)
(* CancelWithdrawal.  Each action is the whole handler, with the pop that  *)
(* led to it.                                                              *)
(***************************************************************************)
EXTENDS Messaging

CONSTANT InitialBalance   \* 199 in bank_machine.h:16

ASSUME BalanceAssumption == InitialBalance \in Nat

VARIABLE balance     \* balance_, an unsigned: never more than it started with

bankVars == <<balance>>

BankInit == balance = InitialBalance

\* Mutant: whatever the PIN, it is verified.
BankVerifiesAnyPin ==
    /\ Receives("bank", "VerifyPin")
    /\ Sent(Push(Pop(queue, "bank"), "atm", Msg("PinVerified")), {"atm"})
    /\ UNCHANGED <<balance, running>>

\* Mutant: an incorrect PIN gets no answer.
BankIgnoresBadPin ==
    /\ Receives("bank", "VerifyPin")
    /\ IF Head(queue["bank"]).digits = CorrectPin
       THEN Sent(Push(Pop(queue, "bank"), "atm", Msg("PinVerified")), {"atm"})
       ELSE Sent(Pop(queue, "bank"), {})
    /\ UNCHANGED <<balance, running>>

BankVerifiesPin ==
    /\ Receives("bank", "VerifyPin")
    /\ LET answer == IF Head(queue["bank"]).digits = CorrectPin
                     THEN "PinVerified" ELSE "PinIncorrect"
       IN  Sent(Push(Pop(queue, "bank"), "atm", Msg(answer)), {"atm"})
    /\ UNCHANGED <<balance, running>>

\* Mutant: the balance is not looked at.
BankWithdrawsUnchecked ==
    /\ Receives("bank", "Withdraw")
    /\ Sent(Push(Pop(queue, "bank"), "atm", Msg("WithdrawOK")), {"atm"})
    /\ balance' = balance - Amount
    /\ UNCHANGED running

\* Mutant: the account is not charged.
BankWithdrawsForFree ==
    /\ Receives("bank", "Withdraw")
    /\ balance >= Amount
    /\ Sent(Push(Pop(queue, "bank"), "atm", Msg("WithdrawOK")), {"atm"})
    /\ UNCHANGED <<balance, running>>

BankWithdraws ==
    /\ Receives("bank", "Withdraw")
    /\ balance >= Amount
    /\ Sent(Push(Pop(queue, "bank"), "atm", Msg("WithdrawOK")), {"atm"})
    /\ balance' = balance - Amount
    /\ UNCHANGED running

\* Mutant: the answer is that of the other branch.
BankDeniesWithOK ==
    /\ Receives("bank", "Withdraw")
    /\ balance < Amount
    /\ Sent(Push(Pop(queue, "bank"), "atm", Msg("WithdrawOK")), {"atm"})
    /\ UNCHANGED <<balance, running>>

BankDenies ==
    /\ Receives("bank", "Withdraw")
    /\ balance < Amount
    /\ Sent(Push(Pop(queue, "bank"), "atm", Msg("WithdrawDenied")), {"atm"})
    /\ UNCHANGED <<balance, running>>

BankTellsBalance ==
    /\ Receives("bank", "GetBalance")
    /\ Sent(Push(Pop(queue, "bank"), "atm", Msg("Balance")), {"atm"})
    /\ UNCHANGED <<balance, running>>

\* The handlers of WithdrawProcessed and CancelWithdrawal are empty.
BankNotes ==
    /\ \/ Receives("bank", "WithdrawProcessed")
       \/ Receives("bank", "CancelWithdrawal")
    /\ Sent(Pop(queue, "bank"), {})
    /\ UNCHANGED <<balance, running>>

BankBlocks == Block("bank") /\ UNCHANGED balance

BankCloses == Close("bank") /\ UNCHANGED balance

BankNext ==
    \/ BankVerifiesPin
    \/ BankWithdraws
    \/ BankDenies
    \/ BankTellsBalance
    \/ BankNotes
    \/ BankBlocks
    \/ BankCloses
==============================================================================
