SPECIFICATION IMSpec
CONSTANTS
  Capacity = 4
  Producers = {hid}
  Consumers = {thread}
  Values = {a, b}
  Default = none
  MaxPushes = 5
  MaxBatch = 2
  MaxStarts = 2
CHECK_DEADLOCK FALSE
INVARIANT NoLostWakeup
PROPERTIES ImplementsFifo AllDispatched StopReturns
