SPECIFICATION ASpec
CONSTANTS
  Capacity = 2
  Producers = {p1, p2}
  Consumers = {worker, c1, c2}
  Values = {p1, p2}
  Default = none
  MaxClaims = 3
  Worker = worker
  Callers = {c1, c2}
  Flushers = {c1}
  NoThread = nobody
  RingLimit = 1
  MaxScribes = 2
  MaxEntries = 3
  MaxCalls = 2
INVARIANT WrittenOnce
CHECK_DEADLOCK FALSE
