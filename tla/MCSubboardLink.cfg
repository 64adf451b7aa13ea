\* Start-up, two losses, retries.
SPECIFICATION LinkSpec
CONSTANTS
  BackoffBase = 2
  BackoffMax = 5
  BackoffJitter = 2
  MaxEvents = 2
  MaxFaults = 2
INVARIANTS
  LinkTypeOK
  BackoffInRange
  WifiFlagTrue
  SessionAnnounced
PROPERTY
  WifiRetried
CHECK_DEADLOCK FALSE
