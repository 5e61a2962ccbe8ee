SPECIFICATION Spec
CONSTANTS
    Ids = {a}
    NoId = NoId
    Messages = {m}
    Names = {a}
    ShortName <- OwnName
    Requests <- ReadOnlyRequests
    MaxConcurrent = 1
    MaxCrashes = 0
    MaxSaveFailures = 0
    MaxForeignBoots = 0
CHECK_DEADLOCK FALSE
INVARIANTS HistoryKept
