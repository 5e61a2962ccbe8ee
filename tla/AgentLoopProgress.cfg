SPECIFICATION Spec
CONSTANTS
    Calls = {"edit", "validate", "inspect"}
    KindOf <- KindIsName
    Outputs = {o1}
    NoOutput = NoOutput
    MaxRequested = 2
    max_turns = 3
    max_total_tool_calls = 4
    max_tool_calls_per_turn = 2
    max_consecutive_failures = 2
CHECK_DEADLOCK FALSE
INVARIANTS TypeOK WithinBudget NormalIsValidated NoBlindEdit ResultsReturned StopsPromptly
