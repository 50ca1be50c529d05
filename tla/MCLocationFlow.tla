--------------------------- MODULE MCLocationFlow ---------------------------
(***************************************************************************)
(* An instance of LocationFlow for TLC.                                    *)
(***************************************************************************)
EXTENDS LocationFlow
=============================================================================
