SPECIFICATION PartsSpec
CONSTANTS
  MaxEvents = 2
  MaxConflicts = 1
  MaxText = 2
  MaxHistory = 2
  Questions = FALSE
  Windows = TRUE
  MaxTries = 3
  MaxRenameFaults = 1
  MaxLaunches = 2
  OtherProcess = FALSE
  MaxRuns = 2
  MaxAsks = 2
  MaxWaiting = 1
  MaxModes = 1
  Together = FALSE
  SubagentAsks = FALSE
  MaxAgents = 2
  MaxEdits = 1
  MaxFiles = 1
  MaxTyped = 3
  Hidden = TRUE
  CommitFails = TRUE
  MovesMidMerge = FALSE
  StartTree = 0
  MaxWrites = 3
  MaxStarts = 2
  Configures = FALSE
  OpensTwice = FALSE
  MaxLines = 3
  MaxPending = 5
  Capacity = 1
  MaxPendingCalls = 1
  MaxPieces = 2
  Wide = FALSE
  Cut = FALSE
  Limit = 3
  MaxOutput = 8
  MaxWidth = 1
  Programs = {1}
  MaxSaves = 3
  MaxKills = 1
  ByHand = FALSE
  Layered = FALSE
  Unlisted = FALSE
  MaxFileLines = 3
  MaxHunks = 2
  MaxSections = 2
  ChannelSize = 4
  MaxReplies = 2
  Background = FALSE
  QuestionCount = 2
  MaxEntered = 4
  Clears = FALSE
INVARIANTS TerminalSafe PermissionSlotSafe AppliedIsMerged TextFaithful LspSafe FilesSafe
CHECK_DEADLOCK FALSE
