SPECIFICATION FairSpec
CONSTANTS
  ChannelCap = 1
  MaxLoads = 3
  MaxReports = 1
INVARIANTS NewsIsOwn LoadsAreAccounted
PROPERTIES LoadSettles
CHECK_DEADLOCK FALSE
