--------------------------- MODULE MCDeviceRegistry ---------------------------
(* DeviceRegistry with one reporting device and two web clients.  *)
EXTENDS DeviceRegistry, TLC

CONSTANTS k1, k2

ClientSymmetry == Permutations({k1, k2})
=============================================================================
