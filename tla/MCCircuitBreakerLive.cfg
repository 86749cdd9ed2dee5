SPECIFICATION FairSpec
CONSTANTS
  None = None
  Keys = {k1, k2}
  Callers = {t1, t2}
  FailureThreshold = 2
  HalfOpenMaxProbes = 1
  MaxEntries = 2
  MaxFailures = 5
PROPERTY
  TrippedCircuitsRecover
