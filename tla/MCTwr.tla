------------------------------- MODULE MCTwr -------------------------------
(***************************************************************************)
(* An instance of Twr for TLC.  The delays keep the order of the code's:   *)
(* 210 < 940 < 1130 < 940 + 210 < 2 * 940.                                 *)
(***************************************************************************)
EXTENDS Twr
=============================================================================
