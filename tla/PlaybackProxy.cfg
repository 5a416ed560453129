SPECIFICATION FairSpec
CONSTANTS
  Sessions = {s1}
  Requests = {r1, r2}
  MaxSessions = 1
  MaxConcurrentStreams = 2
  MaxStreamsPerSession = 1
INVARIANTS StreamsAreClean NoTransferMissed
PROPERTIES CloseEnds
CHECK_DEADLOCK FALSE
