SPECIFICATION Spec
CONSTANTS
  None = None
  Keys = {k1, k2, k3}
  Callers = {t1, t2, t3}
  FailureThreshold = 2
  HalfOpenMaxProbes = 2
  MaxEntries = 2
  MaxFailures = 7
SYMMETRY Interchangeable
INVARIANTS
  TypeOK
  CallsAccounted
  AliasesNameOneResource
  ProbesBounded
PROPERTIES
  OpenCircuitHolds
  ClosesByItsLastProbe
