SPECIFICATION Spec
CONSTANTS
  Policies <- MCDefaultPolicy
  Usages <- MCUsages
INVARIANT HandoffsAreDelivered
CHECK_DEADLOCK FALSE
