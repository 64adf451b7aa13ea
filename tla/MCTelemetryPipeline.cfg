\* A buffer of two frames, files of two rows and two seconds: resizing, splitting
\* and a second recording of the same name all happen within three messages.
SPECIFICATION Spec
CONSTANTS
  w1 = w1
  d1 = d1
  d2 = d2
  k1 = k1
  k2 = k2
  Devices <- MCDevices
  Workers = {w1}
  Feeds <- MCFeeds
  Payloads <- MCPayloads
  Frames <- MCFrames
  Channels <- MCChannels
  Configs <- MCConfigs
  NoConfig = NoConfig
  MaxRaised = 2
  DefaultLimit = 2
  Limits <- MCLimits
  MaxRows = 2
  SplitInterval = 1
  LastSecond = 1
  NoFile = NoFile
  Clients <- MCClients
  Requesters <- MCClients
  Menus <- MCMenus
INVARIANTS
  ReadsAreRecent
  StatsMatch
  RecordingIsAStretch
  RecordingShown
  OldestAcknowledgedFirst
PROPERTIES
  RecordingsKept
  UnseenAlarmsSurvive
  OneRecordPerExcursion
CHECK_DEADLOCK FALSE
SYMMETRY Symmetry
