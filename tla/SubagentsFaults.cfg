SPECIFICATION Spec
CONSTANTS
    Ids = {a, b}
    NoId = NoId
    Messages = {}
    Names = {a, b}
    ShortName <- OwnName
    Requests <- ReadOnlyRequests
    MaxConcurrent = 1
    MaxCrashes = 1
    MaxSaveFailures = 1
    MaxForeignBoots = 1
CHECK_DEADLOCK FALSE
SYMMETRY IdSymmetry
INVARIANTS ConcurrencyCap
