\* The code's three rounds, with two calls per turn and a total that is spent
\* within the rounds; sizes in units of a third of a truncated result: small,
\* truncated, and over the result limit.
CONSTANTS
  MaxModelRounds = 3
  MaxTotalToolCalls = 5
  PerTurnLimit = 2
  Budget = 8
  MaxResult = 12
  MaxKept = 3
  ResultSizes = {1, 5, 13}
  ReplySize = 1
  Keys = {"k1", "k2"}
  MaxReply = 3
  Allowed <- MCAllowed
  Advertised <- MCAdvertised
  MaxPages = 2
  Profiles <- MCProfiles
  Fallback <- MCFallback
  Requests <- MCRequests
  MaxExposed = 2
  ToolOf <- MCToolOf
SPECIFICATION FairRunSpec
INVARIANTS
  CallBudget
  PromptIsWellFormed
  NoServerLeft
  ToolsComeFromTheirServer
PROPERTY RunEnds
CHECK_DEADLOCK FALSE
