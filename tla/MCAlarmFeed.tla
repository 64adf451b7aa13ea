----------------------------- MODULE MCAlarmFeed -----------------------------
(* One worker, one device with one alarmed channel, two web clients.       *)
EXTENDS AlarmFeed

CONSTANTS w1, d1

MCFeeds == [w \in {w1} |-> {d1}]

MCBand == [lower |-> 1, upper |-> 2, lowerEnabled |-> TRUE, upperEnabled |-> TRUE, enabled |-> TRUE]

\* The band, and what the panel sends to switch the channel's alarm off.
MCConfigs == {MCBand, [MCBand EXCEPT !.enabled = FALSE]}
MCBandOnly == {MCBand}

MCFrames == [{0} -> {2, 3}]
MCOneChannel == {0}
=============================================================================
