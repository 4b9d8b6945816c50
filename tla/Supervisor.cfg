\* Every mode, with and without the proxy; three signals.
CONSTANT MaxSignals = 3
SPECIFICATION FairSpec
INVARIANTS
  NoChildLeft
  SuccessIsTheAgents
PROPERTIES
  SignalEnds
  DeathEnds
CHECK_DEADLOCK FALSE
