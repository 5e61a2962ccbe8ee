SPECIFICATION FairSpec
CONSTANTS
    Calls = {"command"}
    KindOf <- KindIsName
    Outputs = {o1}
    NoOutput = NoOutput
    MaxRequested = 1
    max_turns = 2
    max_total_tool_calls = 1
    max_tool_calls_per_turn = 1
    max_consecutive_failures = 2
CHECK_DEADLOCK FALSE
PROPERTIES CancelNeedsNoAnswer
