\* One loss of the access point after the session was up.
SPECIFICATION LinkSpec
CONSTANTS
  BackoffBase = 2
  BackoffMax = 5
  BackoffJitter = 2
  MaxEvents = 2
  MaxFaults = 1
PROPERTY
  SessionReturns
CHECK_DEADLOCK FALSE
