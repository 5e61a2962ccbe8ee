SPECIFICATION Spec
CONSTANTS
    Ids = {a}
    NoId = NoId
    Messages = {}
    Names = {a}
    ShortName <- OwnName
    Requests <- ReadOnlyRequests
    MaxConcurrent = 1
    MaxCrashes = 0
    MaxSaveFailures = 0
    MaxForeignBoots = 1
CHECK_DEADLOCK FALSE
PROPERTIES RecordFinal
