---------------------------- MODULE MCMqttChannel ----------------------------
(* MqttChannel with two callers, two event loops and short queues.         *)
EXTENDS MqttChannel

CONSTANTS c1, c2

OneTopic == <<"telemetry">>
TwoTopics == <<"status", "telemetry">>
=============================================================================
