SPECIFICATION Spec
CONSTANTS
  Proc = {p1, p2}
  Torn = Torn
  Modes <- MCMulti
  Overlap <- MCRace
  MaxCrashes = 0
INVARIANT CompleteMeansIntact
CHECK_DEADLOCK FALSE
