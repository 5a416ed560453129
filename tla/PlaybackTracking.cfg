SPECIFICATION FairSpec
CONSTANTS
  Episodes = {e1, e2}
  First = e1
  Late = 1
  EventCap = 1
  StageCap = 1
  MaxLoads = 1
  MaxEvents = 1
INVARIANTS SavesAreTrue MovesOnSaved SavedIsEarned
PROPERTIES CloseReturns
CHECK_DEADLOCK FALSE
