------------------------------ MODULE AtmMachine ------------------------------
(***************************************************************************)
(* atm/atm.h: the ATM as a state machine whose state is a pointer to the   *)
(* member function Run calls next.  A state function waits for one message *)
(* it handles, and drops the ones it does not; WaitForCard and             *)
(* WaitForAction first prompt the customer, and DoneProcessing only sends. *)
(***************************************************************************)
EXTENDS Messaging

CONSTANT PinLength   \* pin_length, 4 in atm.h:123

ASSUME PinAssumption == PinLength \in Nat \ {0}

VARIABLES
    state,         \* state_
    prompted,      \* the state function has sent its opening message
    pin,           \* pin_
    goodPins,      \* history: how often the correct PIN was sent to the bank
    authorised     \* history: how often a PIN was accepted

atmVars == <<state, prompted, pin, goodPins, authorised>>

\* Mutant: VerifyingPin has no handler for PinIncorrect.
HandledNoReject ==
    [ WaitForCard       |-> {"CardInserted"},
      GettingPin        |-> {"DigitPressed", "ClearLastPressed", "CancelPressed"},
      VerifyingPin      |-> {"PinVerified", "CancelPressed"},
      WaitForAction     |-> {"WithdrawPressed", "BalancePressed", "CancelPressed"},
      ProcessWithdrawal |-> {"WithdrawOK", "WithdrawDenied", "CancelPressed"},
      ProcessBalance    |-> {"Balance", "CancelPressed"},
      DoneProcessing    |-> {} ]

\* The messages each state function has a handler for.
Handled ==
    [ WaitForCard       |-> {"CardInserted"},
      GettingPin        |-> {"DigitPressed", "ClearLastPressed", "CancelPressed"},
      VerifyingPin      |-> {"PinVerified", "PinIncorrect", "CancelPressed"},
      WaitForAction     |-> {"WithdrawPressed", "BalancePressed", "CancelPressed"},
      ProcessWithdrawal |-> {"WithdrawOK", "WithdrawDenied", "CancelPressed"},
      ProcessBalance    |-> {"Balance", "CancelPressed"},
      DoneProcessing    |-> {} ]

States == DOMAIN Handled

\* The state functions that send before they wait.
Prompting == {"WaitForCard", "WaitForAction", "DoneProcessing"}

AtmInit ==
    /\ state = "WaitForCard"
    /\ prompted = FALSE
    /\ pin = << >>
    /\ goodPins = 0
    /\ authorised = 0

\* The pointer to the next state function; its opening send is still to come.
Enter(s) == state' = s /\ prompted' = (s \notin Prompting)

\* The ATM waits in state s and takes a message of type t.
Takes(s, t) == state = s /\ prompted /\ Receives("atm", t)

Prompt(s, t) ==
    /\ Awake("atm")
    /\ state = s
    /\ ~prompted
    /\ Sent(Push(queue, "interface", Msg(t)), {"interface"})

AtmAsksForCard ==
    /\ Prompt("WaitForCard", "DisplayEnterCard")
    /\ prompted' = TRUE
    /\ UNCHANGED <<state, pin, goodPins, authorised, running>>

AtmOffersActions ==
    /\ Prompt("WaitForAction", "DisplayWithdrawalOptions")
    /\ prompted' = TRUE
    /\ UNCHANGED <<state, pin, goodPins, authorised, running>>

AtmEjectsCard ==
    /\ Prompt("DoneProcessing", "EjectCard")
    /\ Enter("WaitForCard")
    /\ UNCHANGED <<pin, goodPins, authorised, running>>

AtmTakesCard ==
    /\ Takes("WaitForCard", "CardInserted")
    /\ Sent(Push(Pop(queue, "atm"), "interface", Msg("DisplayEnterPin")), {"interface"})
    /\ pin' = << >>
    /\ Enter("GettingPin")
    /\ UNCHANGED <<goodPins, authorised, running>>

AtmTakesDigit ==
    /\ Takes("GettingPin", "DigitPressed")
    /\ pin' = pin \o Head(queue["atm"]).digits
    /\ Len(pin') # PinLength
    /\ Sent(Pop(queue, "atm"), {})
    /\ UNCHANGED <<state, prompted, goodPins, authorised, running>>

AtmSendsPin ==
    /\ Takes("GettingPin", "DigitPressed")
    /\ pin' = pin \o Head(queue["atm"]).digits
    /\ Len(pin') = PinLength
    /\ Sent(Push(Pop(queue, "atm"), "bank", DigitMsg("VerifyPin", pin')), {"bank"})
    /\ goodPins' = goodPins + (IF pin' = CorrectPin THEN 1 ELSE 0)
    /\ Enter("VerifyingPin")
    /\ UNCHANGED <<authorised, running>>

AtmAcceptsPin ==
    /\ Takes("VerifyingPin", "PinVerified")
    /\ Sent(Pop(queue, "atm"), {})
    /\ authorised' = authorised + 1
    /\ Enter("WaitForAction")
    /\ UNCHANGED <<pin, goodPins, running>>

AtmRejectsPin ==
    /\ Takes("VerifyingPin", "PinIncorrect")
    /\ Sent(Push(Pop(queue, "atm"), "interface", Msg("DisplayPinIncorrectMessage")),
            {"interface"})
    /\ Enter("DoneProcessing")
    /\ UNCHANGED <<pin, goodPins, authorised, running>>

AtmAsksWithdrawal ==
    /\ Takes("WaitForAction", "WithdrawPressed")
    /\ Sent(Push(Pop(queue, "atm"), "bank", Msg("Withdraw")), {"bank"})
    /\ Enter("ProcessWithdrawal")
    /\ UNCHANGED <<pin, goodPins, authorised, running>>

AtmAsksBalance ==
    /\ Takes("WaitForAction", "BalancePressed")
    /\ Sent(Push(Pop(queue, "atm"), "bank", Msg("GetBalance")), {"bank"})
    /\ Enter("ProcessBalance")
    /\ UNCHANGED <<pin, goodPins, authorised, running>>

AtmShowsBalance ==
    /\ Takes("ProcessBalance", "Balance")
    /\ Sent(Push(Pop(queue, "atm"), "interface", Msg("DisplayBalance")), {"interface"})
    /\ Enter("WaitForAction")
    /\ UNCHANGED <<pin, goodPins, authorised, running>>

AtmIssuesMoney ==
    /\ Takes("ProcessWithdrawal", "WithdrawOK")
    /\ Sent(Push(Push(Pop(queue, "atm"), "interface", Msg("IssueMoney")),
                 "bank", Msg("WithdrawProcessed")), {"interface", "bank"})
    /\ Enter("DoneProcessing")
    /\ UNCHANGED <<pin, goodPins, authorised, running>>

AtmReportsDenial ==
    /\ Takes("ProcessWithdrawal", "WithdrawDenied")
    /\ Sent(Push(Pop(queue, "atm"), "interface", Msg("DisplayInsufficientFunds")),
            {"interface"})
    /\ Enter("DoneProcessing")
    /\ UNCHANGED <<pin, goodPins, authorised, running>>

AtmCancelsWithdrawal ==
    /\ Takes("ProcessWithdrawal", "CancelPressed")
    /\ Sent(Push(Push(Pop(queue, "atm"), "bank", Msg("CancelWithdrawal")),
                 "interface", Msg("DisplayWithdrawalCancelled")), {"interface", "bank"})
    /\ Enter("DoneProcessing")
    /\ UNCHANGED <<pin, goodPins, authorised, running>>

\* Mutant: cancelling leads back to the choice of actions.
AtmCancelsToActions ==
    /\ \E s \in {"GettingPin", "VerifyingPin", "WaitForAction", "ProcessBalance"} :
           Takes(s, "CancelPressed")
    /\ Sent(Pop(queue, "atm"), {})
    /\ Enter("WaitForAction")
    /\ UNCHANGED <<pin, goodPins, authorised, running>>

\* The other four handlers of CancelPressed only change the state.
AtmCancels ==
    /\ \E s \in {"GettingPin", "VerifyingPin", "WaitForAction", "ProcessBalance"} :
           Takes(s, "CancelPressed")
    /\ Sent(Pop(queue, "atm"), {})
    /\ Enter("DoneProcessing")
    /\ UNCHANGED <<pin, goodPins, authorised, running>>

AtmDiscards == prompted /\ Discard("atm", Handled[state]) /\ UNCHANGED atmVars

AtmBlocks == prompted /\ Block("atm") /\ UNCHANGED atmVars

AtmCloses == prompted /\ Close("atm") /\ UNCHANGED atmVars

AtmNext ==
    \/ AtmAsksForCard
    \/ AtmOffersActions
    \/ AtmEjectsCard
    \/ AtmTakesCard
    \/ AtmTakesDigit
    \/ AtmSendsPin
    \/ AtmAcceptsPin
    \/ AtmRejectsPin
    \/ AtmAsksWithdrawal
    \/ AtmAsksBalance
    \/ AtmShowsBalance
    \/ AtmIssuesMoney
    \/ AtmReportsDenial
    \/ AtmCancelsWithdrawal
    \/ AtmCancels
    \/ AtmDiscards
    \/ AtmBlocks
    \/ AtmCloses
==============================================================================
