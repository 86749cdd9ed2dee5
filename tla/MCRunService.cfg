SPECIFICATION Spec
CONSTANTS
  c1 = c1
  c2 = c2
  c3 = c3
  None = None
  Calls <- MCCalls
  KeyOf <- MCKeyOf
  MaxConcurrent = 2
  PerMinute = 2
  MaxCrashes = 1
  MaxFaults = 1
SYMMETRY Symmetry
INVARIANTS
  TypeOK
  FollowersAgreeWithOwners
  RunningRowsHaveThreads
  DecisionsStand
PROPERTY ImplementsRunTable
CHECK_DEADLOCK FALSE
