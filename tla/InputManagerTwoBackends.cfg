SPECIFICATION IMSpec
CONSTANTS
  Capacity = 4
  Producers = {hid, midi}
  Consumers = {thread}
  Values = {a}
  Default = none
  MaxPushes = 3
  MaxBatch = 1
  MaxStarts = 1
CHECK_DEADLOCK FALSE
INVARIANT NothingLost
