SPECIFICATION Spec
CONSTANTS
    Files = {f}
    Contents = {x, b}
    Binaries = {b}
    Absent = Absent
    Runs = {r, q}
    max_entries = 2
    MaxCalls = 3
    MaxCount = 2
    MaxFaults = 1
SYMMETRY Symmetry
CHECK_DEADLOCK FALSE
INVARIANTS TypeOK UndoRestores InOrder HistorySaved
PROPERTIES OnlyInHandLost
