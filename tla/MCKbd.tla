------------------------------- MODULE MCKbd -------------------------------
(* The keyboard with a buffer of three slots (two codes), which one burst of *)
(* typing fills, one byte at the port and one behind it.                       *)
EXTENDS KbdDriver
MCBothShifts == {"LSHIFT", "RSHIFT"}
=============================================================================
