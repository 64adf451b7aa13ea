\* A queue that fills while the broker is away.
SPECIFICATION FairSpec
CONSTANTS
  c1 = c1
  c2 = c2
  NoOne = NoOne
  Callers = {c1, c2}
  Topics <- OneTopic
  Cap = 1
  MaxAttempts = 2
  SharedId = FALSE
  MaxLoops = 1
  MaxCalls = 3
  MaxFaults = 1
PROPERTY
  CallsReturn
CHECK_DEADLOCK FALSE
