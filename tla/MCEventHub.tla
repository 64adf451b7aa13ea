------------------------------ MODULE MCEventHub ------------------------------
(* Two clients, a channel of two events and connections that hold one.      *)
EXTENDS EventHub
=============================================================================
