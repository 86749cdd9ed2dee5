SPECIFICATION FairSpec
CONSTANTS
  c1 = c1
  c2 = c2
  c3 = c3
  None = None
  Calls <- MCPair
  KeyOf <- MCPairKeyOf
  MaxConcurrent = 1
  PerMinute = 2
  MaxCrashes = 1
  MaxFaults = 1
PROPERTY RunningRowsResolve
CHECK_DEADLOCK FALSE
