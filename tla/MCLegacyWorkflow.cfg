SPECIFICATION FairSpec
CONSTANTS
  Keywords = 2
  Files = 3
  Depth <- MCDepth
  Size <- MCSize
  Kinds <- MCKinds
  ToolCallLimits = {2, 4, 5}
  MaxSelectedFiles = 2
  MaxEvidenceChars = 4
  MaxSearchMatches = 3
  InputBudget = 8
  CharsPerToken = 2
  MaxCalls = 4
  MaxRetries = 1
  Messages <- MCMessages
  NoOutput = NoOutput
  ModelTexts = {"plain", "split"}
  BaselineTexts = {"baseline"}
  Sanitized <- MCSanitized
INVARIANTS
  TypeOK
  EvidenceSound
  TrimKeepsPriorities
  LineageHolds
  HonestExit
PROPERTY RunEnds
CHECK_DEADLOCK FALSE
