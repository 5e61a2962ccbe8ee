SPECIFICATION Spec
CONSTANTS
  MaxPrompts = 2
  MaxActs = 1
  MaxCommands = 2
  MaxStates = 1
  KeepRecent = 1
  Overlap = FALSE
  Overtake = FALSE
  Saves = {TRUE}
  NoFile = NoFile
PROPERTY TurnsKept
CHECK_DEADLOCK FALSE
