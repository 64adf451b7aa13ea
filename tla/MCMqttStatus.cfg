\* Two callers, two event loops with their reports, a queue of requests with room
\* for every request of the bounds (mqtt_full has one that fills), a queue of
\* reports that one report fills.
SPECIFICATION StatusFairSpec
CONSTANTS
  c1 = c1
  c2 = c2
  NoOne = NoOne
  Callers = {c1, c2}
  Topics <- OneTopic
  Cap = 6
  MaxAttempts = 2
  SharedId = FALSE
  MaxLoops = 2
  MaxCalls = 2
  MaxFaults = 1
  Room = 1
INVARIANTS
  TypeOK
  LockDiscipline
  SessionSubscribed
  FlagTracksSession
  SessionShown
PROPERTIES
  CallsReturn
  RetriesEnd
  SessionsSettle
  SessionShownAtLast
CHECK_DEADLOCK FALSE
