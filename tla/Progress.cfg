SPECIFICATION ProgressSpec
CONSTANTS
  MaxPrompts = 2
  MaxActs = 1
  MaxCommands = 2
  MaxStates = 1
  KeepRecent = 1
  Overlap = TRUE
  Overtake = FALSE
  Saves = {TRUE}
  NoFile = NoFile
  MaxLinks = 2
  MaxCalls = 4
  Closes = TRUE
  Omits = FALSE
  ClosesEarly = FALSE
INVARIANTS OrderKept OwnAnswer
PROPERTIES OnlyCurrentWritten QueueDrains OutsideWaitsEnd
CHECK_DEADLOCK FALSE
