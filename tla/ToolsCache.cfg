\* Three requests: a leader, a waiter and a late arrival, or three leaders in turn;
\* the clock crosses both TTLs.
CONSTANTS
  Requests = {r1, r2, r3}
  TTL = 2
  ErrTTL = 1
  MaxTime = 3
SPECIFICATION Spec
SYMMETRY Symmetric
INVARIANTS
  SingleFlight
  NoOrphanedWaiter
  CancellationIsPrivate
  AnswersAreFresh
  UpstreamIsSpared
PROPERTIES
  NoErrorAfterRecovery
  CatalogueNeverRegresses
  ImplementsRegister
CHECK_DEADLOCK FALSE
