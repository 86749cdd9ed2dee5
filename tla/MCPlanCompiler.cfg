SPECIFICATION Spec
CONSTANT Specs <- MCSpecs
INVARIANTS
  CyclesRejected
  StagesAreLevels
CHECK_DEADLOCK FALSE
