------------------------------ MODULE MCUwbInit ------------------------------
(***************************************************************************)
(* Instances of UwbInit for TLC.                                           *)
(***************************************************************************)
EXTENDS UwbInit

\* After a wake-up: with and without microcode; and asking for the OTP.
PlainWakeUps == {{"WAKE_UP"}, {"WAKE_UP", "WUP_NO_UCODE"}}
ReadingWakeUps == {{"WAKE_UP", "READ_OTP"}}
=============================================================================
