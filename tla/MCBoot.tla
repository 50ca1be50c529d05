-------------------------------- MODULE MCBoot --------------------------------
(* One node of each kind; a device id that gives the address of the gateway *)
(* and one that does not.                                                   *)
EXTENDS Boot

MCIds == {<<0, 1>>, <<18, 1>>}
=============================================================================
