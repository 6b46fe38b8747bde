SPECIFICATION ASpec
CONSTANTS
  Capacity = 1
  Producers = {p1, p2}
  Consumers = {worker, c1, c2}
  Values = {p1, p2}
  Default = none
  MaxClaims = 2
  Worker = worker
  Callers = {c1, c2}
  Flushers = {c1}
  NoThread = nobody
  RingLimit = 1
  MaxScribes = 2
  MaxEntries = 2
  MaxCalls = 2
INVARIANTS DropsAccounted OwedIsWritten
PROPERTIES KeepsUp ShutdownReturns
CHECK_DEADLOCK FALSE
