SPECIFICATION StreamSpec
CONSTANTS
  MaxLines = 3
  MaxPending = 5
  Capacity = 1
  MaxPendingCalls = 1
  MaxPieces = 2
  Wide = FALSE
  Cut = TRUE
INVARIANT CallsWhole
CHECK_DEADLOCK FALSE
