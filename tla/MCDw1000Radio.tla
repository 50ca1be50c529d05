--------------------------- MODULE MCDw1000Radio ---------------------------
(* The radio commands and the interrupt routine for TLC. *)
EXTENDS Dw1000Radio
=============================================================================
