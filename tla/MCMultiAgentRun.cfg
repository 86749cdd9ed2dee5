SPECIFICATION FairSpec
CONSTANTS
  Policies <- MCPolicies
  Usages <- MCUsages
INVARIANTS
  TypeOK
  NoWorkOutlivesItsStage
  InputsAreHandedOff
  NothingSuperseded
  StatusFollowsReview
  BudgetsAreExact
PROPERTIES
  TransitionsAreLegal
  RunEnds
CHECK_DEADLOCK FALSE
