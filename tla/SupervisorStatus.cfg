CONSTANT MaxSignals = 1
SPECIFICATION Spec
INVARIANT WaitStatusIsExitCode
CHECK_DEADLOCK FALSE
