\* Four events are two more than the channel holds: a client can lag.  Two
\* attempts and three faults: a client can give up, also after a connection.
SPECIFICATION FairSpec
CONSTANTS
  Clients = {k1, k2}
  Capacity = 2
  WireSize = 1
  MaxAttempts = 2
  MaxEvents = 4
  MaxFaults = 3
INVARIANTS
  GivesUpLate
PROPERTIES
  ImplementsFeed
  ReconnectionSettles
  ServedCatchUp
CHECK_DEADLOCK FALSE
