---------------------------- MODULE MCMqttClient ----------------------------
(***************************************************************************)
(* Instances of MqttClient for TLC: with the topics the client is written  *)
(* for and without, as the gateway calls it.                               *)
(***************************************************************************)
EXTENDS MqttClient
=============================================================================
