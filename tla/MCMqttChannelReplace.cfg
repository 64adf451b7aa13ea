\* connect against the session it replaces.
SPECIFICATION Spec
CONSTANTS
  c1 = c1
  c2 = c2
  NoOne = NoOne
  Callers = {c1}
  Topics <- TwoTopics
  Cap = 2
  MaxAttempts = 2
  SharedId = FALSE
  MaxLoops = 2
  MaxCalls = 2
  MaxFaults = 0
PROPERTY
  DisconnectIsFinal
CHECK_DEADLOCK FALSE
