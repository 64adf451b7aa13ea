\* Two clients acknowledge, clear and list while telemetry raises alarms; a
\* channel is configured once.
SPECIFICATION FairSpec
CONSTANTS
  Devices = {d1}
  NoConfig = NoConfig
  NoFrame = NoFrame
  d1 = d1
  w1 = w1
  Workers = {w1}
  Feeds <- MCFeeds
  Clients = {k1, k2}
  Channels <- MCOneChannel
  Configs <- MCBandOnly
  Frames <- MCFrames
  Operations = {"acknowledge", "clear", "list", "configure"}
  MaxRequests = 3
  MaxRaised = 2
INVARIANTS
  NoPhantomAcknowledgement
PROPERTIES
  ExcursionRaises
  AlarmsAnnounced
