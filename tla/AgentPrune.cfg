\* The defaults: three calls per turn; what the fallback profile leaves of the
\* context holds two truncated results and not three (the unit is half of one).
CONSTANTS
  MaxModelRounds = 3
  MaxTotalToolCalls = 5
  PerTurnLimit = 3
  Budget = 6
  MaxResult = 8
  MaxKept = 2
  ResultSizes = {1, 4}
  ReplySize = 1
  Keys = {k1, k2, k3}
  MaxReply = 3
SPECIFICATION Spec
PROPERTIES
  UnresolvedActivityIsKept
CHECK_DEADLOCK FALSE
