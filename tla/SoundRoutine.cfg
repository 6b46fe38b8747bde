SPECIFICATION Spec
CONSTANTS
  BufferSize = 2
  MaxDelay = 2
  MaxCycles = 4
  MaxCalls = 4
CHECK_DEADLOCK FALSE
INVARIANTS SampleDelayExact PauseNeverShortens NeverOverdue BufferDelayExact
