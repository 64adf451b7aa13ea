\* Two channels, two commands, one loss of the session.
SPECIFICATION SamplingSpec
CONSTANTS
  MaxChannels = 2
  Readings <- MCReadings
  Limits <- MCLimits
  Default <- Wide
  Rates = {0, 1000, 10000}
  UploadInterval = 1000
  MaxCommands = 2
  MaxLosses = 1
INVARIANTS
  SamplingTypeOK
  LatchIsAnnounced
  StopStops
CHECK_DEADLOCK FALSE
