------------------------- MODULE MCTelemetryPipeline -------------------------
(* One worker and two devices; messages with one or two channels, one of them
   with a gap that parsing closes.                                         *)
EXTENDS TelemetryPipeline

CONSTANTS w1, d1, d2, k1, k2

MCFeeds == [w \in Workers |-> Devices]

MCPayloads == {(1 :> 3), (1 :> 2 @@ 3 :> 0)}
MCFrames == {Parse(p) : p \in Payloads}

MCChannels == {0}
MCConfigs ==
  {[lower |-> 1, upper |-> 2, lowerEnabled |-> TRUE, upperEnabled |-> TRUE, enabled |-> TRUE]}
\* The engines share no state: one of them is called in each behaviour.
MCMenus ==
  {[calls |-> {"configure", "enable", "acknowledge", "clear"}, requests |-> 3, messages |-> 3],
   [calls |-> {"resize", "forget"}, requests |-> 3, messages |-> 3],
   [calls |-> {"record"}, requests |-> 3, messages |-> 1],
   [calls |-> {"record"}, requests |-> 1, messages |-> 3],
   [calls |-> {"record", "split"}, requests |-> 2, messages |-> 2]}

MCLimits == {0, 1}

MCDevices == {d1, d2}
MCClients == {k1, k2}
Symmetry == Permutations(MCDevices) \cup Permutations(MCClients)
=============================================================================
