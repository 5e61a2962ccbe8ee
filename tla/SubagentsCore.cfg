SPECIFICATION Spec
CONSTANTS
    Ids = {a, b}
    NoId = NoId
    Messages = {m}
    Names = {a, b}
    ShortName <- OwnName
    Requests <- ReadOnlyRequests
    MaxConcurrent = 2
    MaxCrashes = 1
    MaxSaveFailures = 0
    MaxForeignBoots = 0
CHECK_DEADLOCK FALSE
SYMMETRY IdSymmetry
INVARIANTS TypeOK DiskAgrees NoZombie
PROPERTIES RecordFinal StopReachesToken FollowsLifecycle
