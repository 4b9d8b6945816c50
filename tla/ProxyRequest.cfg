\* Two requests that share a fetch; the second catalogue is empty.  No symmetry:
\* liveness.
CONSTANTS
  Requests = {r1, r2}
  TTL = 1
  ErrTTL = 1
  MaxTime = 1
  Forms <- MCForms
  Responses <- MCResponses
  EmptyFetches = {2}
  MaxToolCalls = 2
  Distinct = TRUE
  Junk = "junk"
SPECIFICATION FairProxySpec
INVARIANT GuardedReply
PROPERTIES
  CancelledRequestEnds
  EveryRequestIsAnswered
CHECK_DEADLOCK FALSE
