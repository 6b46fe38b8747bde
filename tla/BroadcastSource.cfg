SPECIFICATION BSpec
CONSTANTS
  Signallers = {s1, s2}
  Owner = owner
  NoValue = NoValue
  MaxSignals = 4
INVARIANT OneRuns
