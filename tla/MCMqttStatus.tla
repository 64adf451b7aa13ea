----------------------------- MODULE MCMqttStatus -----------------------------
(* MqttStatus on the instances of MqttChannel.                             *)
EXTENDS MqttStatus, MCMqttChannel
=============================================================================
