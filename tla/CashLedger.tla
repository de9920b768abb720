------------------------------ MODULE CashLedger ------------------------------
(***************************************************************************)
(* What the bank, the ATM and its hardware promise together about money:   *)
(* it is taken from the account in steps of Amount while the funds last,   *)
(* and cash is handed out only against money already taken.                *)
(***************************************************************************)
EXTENDS Integers

CONSTANTS Funds, Amount

VARIABLES withdrawn, issued

Init == withdrawn = 0 /\ issued = 0

Withdraw ==
    /\ withdrawn + Amount <= Funds
    /\ withdrawn' = withdrawn + Amount
    /\ UNCHANGED issued

Issue ==
    /\ issued + Amount <= withdrawn
    /\ issued' = issued + Amount
    /\ UNCHANGED withdrawn

Next == Withdraw \/ Issue

Spec == Init /\ [][Next]_<<withdrawn, issued>>
==============================================================================
