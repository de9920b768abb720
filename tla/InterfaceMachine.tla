--------------------------- MODULE InterfaceMachine ---------------------------
(***************************************************************************)
(* atm/interface_machine.h: the hardware.  What it prints is left out but  *)
(* for the cash: issued is the money that left the machine.                *)
(***************************************************************************)
EXTENDS Messaging

VARIABLE issued      \* the sum of the amounts printed by "Issuing"

interfaceVars == <<issued>>

\* The handlers that print a line and change nothing.
Displays ==
    { "DisplayInsufficientFunds", "DisplayEnterPin", "DisplayEnterCard",
      "DisplayBalance", "DisplayWithdrawalOptions",
      "DisplayWithdrawalCancelled", "DisplayPinIncorrectMessage", "EjectCard" }

InterfaceInit == issued = 0

InterfaceIssues ==
    /\ Receives("interface", "IssueMoney")
    /\ Sent(Pop(queue, "interface"), {})
    /\ issued' = issued + Amount
    /\ UNCHANGED running

InterfaceShows ==
    /\ \E d \in Displays : Receives("interface", d)
    /\ Sent(Pop(queue, "interface"), {})
    /\ UNCHANGED <<issued, running>>

InterfaceBlocks == Block("interface") /\ UNCHANGED issued

InterfaceCloses == Close("interface") /\ UNCHANGED issued

InterfaceNext ==
    \/ InterfaceIssues
    \/ InterfaceShows
    \/ InterfaceBlocks
    \/ InterfaceCloses
==============================================================================
