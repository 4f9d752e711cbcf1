------------------------------ MODULE MCTimer ------------------------------
(* Timer for TLC. *)
EXTENDS Timer

MCMainText == <<"m", "m">>
MCIrqText  == <<"i", "i", "i">>
=============================================================================
