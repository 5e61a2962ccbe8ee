SPECIFICATION Spec
CONSTANTS
    Ids = {a, b}
    NoId = NoId
    Messages = {}
    Names = {a, b}
    ShortName <- OwnName
    Requests <- ReadOnlyRequests
    MaxConcurrent = 2
    MaxCrashes = 0
    MaxSaveFailures = 0
    MaxForeignBoots = 0
CHECK_DEADLOCK FALSE
INVARIANTS NoAbandonedRecord
