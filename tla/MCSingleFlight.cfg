SPECIFICATION Spec
CONSTANTS
  a1 = a1
  a2 = a2
  a3 = a3
  b1 = b1
  u1 = u1
  k1 = k1
  k2 = k2
  None = None
  Calls = {a1, a2, a3, b1, u1}
  ApiCalls = {a1, a2, a3, b1}
  KeyOf <- MCKeyOf
  Results = {"completed"}
  MaxConcurrent = 2
  PerMinute = 3
SYMMETRY Equivalent
INVARIANTS
  TypeOK
  EntriesHaveLiveOwners
  PermitsAccounted
  FollowersGetOwnersOutcome
PROPERTY
  ImplementsCoalescedCalls
CHECK_DEADLOCK FALSE
