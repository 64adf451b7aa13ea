------------------------------ MODULE Telemetry ------------------------------
(* What the engines of the host share: device ids and telemetry frames
   (domain/telemetry.rs).  A reading is an integer (the code has f32 from JSON,
   never NaN).                                                              *)
EXTENDS Integers, Sequences

CONSTANTS
  Devices,      \* device ids
  Frames        \* telemetry frames: functions from 0..n-1 to readings

ASSUME TelemetryAssumption ==
  \A f \in Frames : DOMAIN f \subseteq Nat /\ \A c \in DOMAIN f : f[c] \in Int

\* The last n elements of s, or all of them: VecDeque with pop_front.
LastN(s, n) == IF Len(s) <= n THEN s ELSE SubSeq(s, Len(s) - n + 1, Len(s))
=============================================================================
