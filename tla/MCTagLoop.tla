------------------------------ MODULE MCTagLoop ------------------------------
(***************************************************************************)
(* Instances of TagLoop for TLC.                                           *)
(***************************************************************************)
EXTENDS TagLoop, TLC

AnchorSymmetry == Permutations(Anchors)
=============================================================================
