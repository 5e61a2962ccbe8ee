SPECIFICATION Spec
CONSTANTS
    Files = {f, g}
    Contents = {x}
    Binaries = {}
    Absent = Absent
    Runs = {r, q}
    max_entries = 2
    MaxCalls = 2
    MaxCount = 1
    MaxFaults = 1
SYMMETRY Symmetry
CHECK_DEADLOCK FALSE
INVARIANTS RedoRestores ChainsFit
PROPERTIES NothingElseLost
