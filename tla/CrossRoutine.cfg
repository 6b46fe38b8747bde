CONSTANTS
  MaxDelay = 1
  MaxClock = 2
  Starts = {"AWAIT", "MULTIPLE"}
SPECIFICATION CrossSpec
INVARIANT OneRunner
PROPERTIES EventuallyResumed
