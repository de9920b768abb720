-------------------------------- MODULE MCAtm --------------------------------
(***************************************************************************)
(* Two digit keys, PINs of one digit or two, and funds for one withdrawal. *)
(***************************************************************************)
EXTENDS AtmSystem

MCDigits == {1, 9}
MCShortPin == <<1>>
MCLongPin == <<1, 9>>
==============================================================================
