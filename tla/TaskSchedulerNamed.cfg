SPECIFICATION Spec
CONSTANTS
  ui = ui
  script = script
  pad = pad
  watch = watch
  voice = voice
  Controllers = {ui, script}
  Timed = {pad}
  Conditional = {watch}
  Names = {voice}
  NoRoutine = null
  NoName = ""
  TimedSlots = 2
  CondSlots = 1
  MaxCalls = 3
CHECK_DEADLOCK FALSE
PROPERTY NamedCancelTakesEffect
