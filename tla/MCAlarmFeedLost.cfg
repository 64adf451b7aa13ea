\* Acknowledging one alarm while another is raised.
SPECIFICATION Spec
CONSTANTS
  Devices = {d1}
  NoConfig = NoConfig
  NoFrame = NoFrame
  d1 = d1
  w1 = w1
  Workers = {w1}
  Feeds <- MCFeeds
  Clients = {k1, k2}
  Channels <- MCOneChannel
  Configs <- MCBandOnly
  Frames <- MCFrames
  Operations = {"acknowledge", "configure"}
  MaxRequests = 2
  MaxRaised = 1
INVARIANT
  NoLostAlarm
