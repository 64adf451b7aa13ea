-------------------------- MODULE MCSubboardSampling --------------------------
(* SubboardSampling with readings below, in and above the limits.         *)
EXTENDS SubboardSampling

Band(l, u) == [lower |-> l, upper |-> u]
Wide == Band(0, 1)
MCReadings == {0, 1, 2}
MCLimits == {Wide, Band(1, 2)}
=============================================================================
