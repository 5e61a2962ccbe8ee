SPECIFICATION PatchSpec
CONSTANTS
  MaxFileLines = 3
  MaxHunks = 2
  MaxSections = 2
INVARIANT PartialListed
CHECK_DEADLOCK FALSE
