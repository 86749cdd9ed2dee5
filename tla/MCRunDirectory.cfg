SPECIFICATION Spec
CONSTANTS
  Proc = {p1, p2, p3}
  Torn = Torn
  Modes <- MCModes
  Overlap <- MCOverlap
  MaxCrashes = 1
SYMMETRY MCSymmetry
INVARIANTS
  TypeOK
  CompleteMeansIntact
  SuccessStands
PROPERTY ImplementsClaimedDirectory
CHECK_DEADLOCK FALSE
