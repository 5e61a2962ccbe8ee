SPECIFICATION MergingSpec
CONSTANTS
  MaxAgents = 1
  MaxEdits = 1
  MaxFiles = 1
  MaxTyped = 3
  Hidden = TRUE
  CommitFails = TRUE
  MovesMidMerge = TRUE
  StartTree = 0
INVARIANT MergeExplained
CHECK_DEADLOCK FALSE
