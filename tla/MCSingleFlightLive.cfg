SPECIFICATION FairSpec
CONSTANTS
  a1 = a1
  a2 = a2
  a3 = a3
  b1 = b1
  u1 = u1
  k1 = k1
  k2 = k2
  None = None
  Calls = {a1, a2, u1}
  ApiCalls = {a1, a2}
  KeyOf <- MCKeyOf
  Results = {"completed"}
  MaxConcurrent = 1
  PerMinute = 2
PROPERTIES
  FollowersReturn
  KeysAreFreed
CHECK_DEADLOCK FALSE
