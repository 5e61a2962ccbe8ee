SPECIFICATION FairSpec
CONSTANTS
    Calls = {"inspect", "question", "unknown"}
    KindOf <- KindIsName
    Outputs = {o1}
    NoOutput = NoOutput
    MaxRequested = 1
    max_turns = 5
    max_total_tool_calls = 4
    max_tool_calls_per_turn = 1
    max_consecutive_failures = 3
CHECK_DEADLOCK FALSE
INVARIANTS StopsWhenStuck RepeatsAreReal
PROPERTIES CancelEnds RunEnds
