SPECIFICATION Spec
CONSTANTS
  n1 = n1
  n2 = n2
  ui = ui
  script = script
  Nodes = {n1, n2}
  NoNode = null
  Controllers = {ui, script}
  Owner <- MCOwner
  MaxPending = 2
  CountModulus = 8
  MaxCalls = 3
CHECK_DEADLOCK FALSE
INVARIANTS CountMatches NoCallLost
PROPERTY EventuallySettled
