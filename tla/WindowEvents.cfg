SPECIFICATION Spec
CONSTANTS
  jump = jump
  fire = fire
  hold = hold
  PressHandlers = {jump, fire}
  KeyHandlers = {hold}
  Named = {fire, hold}
  NoHandler = null
  MaxEvents = 5
CHECK_DEADLOCK FALSE
INVARIANT ReceivedInOrder
