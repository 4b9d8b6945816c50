\* Enough calls to fill every buffer and block a write: the channel holds two
\* instead of eight messages, the pipes two and one.
CONSTANTS
  MaxCalls = 8
  Buffer = 2
  InCap = 2
  OutCap = 1
SPECIFICATION FairSpec
INVARIANTS
  TypeOK
  OnlyAbandonedCallsLag
  ClosedMeansExited
  CircularWaitNeedsBacklog
PROPERTIES
  ImplementsCalls
  EveryCallReturns
  CloseReturns
CHECK_DEADLOCK FALSE
