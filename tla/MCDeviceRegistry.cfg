\* Reports and requests of two clients; behaviours end when the bounds are used up.
SPECIFICATION Spec
CONSTANTS
  k1 = k1
  k2 = k2
  Absent = Absent
  Reporters = {m1}
  Clients = {k1, k2}
  Requesters = {k1, k2}
  MaxRequests = 2
  MaxReports = 1
  MaxSecond = 2
INVARIANTS
  TypeOK
  ConnectedIsOnline
  ListsAreSnapshots
  ListsConverge
CHECK_DEADLOCK FALSE
SYMMETRY ClientSymmetry
