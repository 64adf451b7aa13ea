---------------------------- MODULE SubboardState ----------------------------
(* The global variable that both halves of the firmware (unit/main/app_main.c)
   use: SubboardLink writes it with the session, SubboardSampling reads it
   before everything it publishes.                                         *)
VARIABLE mqtt_connected
=============================================================================
