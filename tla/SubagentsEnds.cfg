SPECIFICATION FairSpec
CONSTANTS
    Ids = {a, b}
    NoId = NoId
    Messages = {}
    Names = {a, b}
    ShortName <- OwnName
    Requests <- WriteRequests
    MaxConcurrent = 2
    MaxCrashes = 1
    MaxSaveFailures = 0
    MaxForeignBoots = 0
CHECK_DEADLOCK FALSE
INVARIANTS WorktreeKept
PROPERTIES CleanupOrder EveryRunEnds RecordSettles
