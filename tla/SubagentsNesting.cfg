SPECIFICATION Spec
CONSTANTS
    Ids = {a, b, c, d}
    NoId = NoId
    Messages = {}
    Names = {a, b, c, d}
    ShortName <- OwnName
    Requests <- ReadOnlyRequests
    MaxConcurrent = 2
    MaxCrashes = 0
    MaxSaveFailures = 0
    MaxForeignBoots = 0
CHECK_DEADLOCK FALSE
INVARIANTS NestingProgresses
