------------------------------ MODULE AgentLoop ------------------------------
(***************************************************************************)
(* One run of an agent: Agent::run, drive, run_turn, execute_tool and      *)
(* soft_land (crates/gocode-agent/src/agent.rs), TaskProgress (progress.rs)*)
(* and the limits (limits.rs), against the command loop that cancels the   *)
(* run and answers its prompts (crates/gocode/src/main.rs).                *)
(*                                                                         *)
(* Processes: the run, the command loop, and the environment (provider,    *)
(* tools, user).  The run's steps are split where it awaits, because the   *)
(* cancellation token may change there.                                    *)
(***************************************************************************)
EXTENDS Naturals, Sequences

CONSTANTS
    Calls,          \* the tool calls the model may request: name and arguments
    KindOf,         \* what sort of tool each call names
    Outputs,        \* tool outputs the runtime can tell apart
    NoOutput,       \* last_exploration_output: None
    MaxRequested,   \* bound: tool calls the model asks for in one turn
    max_turns, max_total_tool_calls, max_tool_calls_per_turn,
    max_consecutive_failures

\* edit: write_file, apply_patch; validate: a run_command that is_validation_call
\* accepts; inspect: read_file, search, list_files; command: any other tool;
\* question: ask_user; unknown: a name that is not registered.
Kinds == {"edit", "validate", "inspect", "command", "question", "unknown"}

ASSUME CallsAssumption == KindOf \in [Calls -> Kinds]
ASSUME OutputsAssumption == NoOutput \notin Outputs
ASSUME AgentLimitsAssumption ==
    /\ MaxRequested \in Nat
    /\ max_turns \in Nat
    /\ max_total_tool_calls \in Nat
    /\ max_tool_calls_per_turn \in Nat
    /\ max_consecutive_failures \in Nat

MAX_REPEATS == 3
MAX_UNCHANGED_EXPLORATION_RESULTS == 3

Limits == {"MaxTurns", "MaxTotalToolCalls", "ConsecutiveFailures",
           "RepeatedToolCall", "ValidationPending", "NoProgress"}

-----------------------------------------------------------------------------
(* Tool results                                                            *)

Statuses == {"Success", "Failed", "Cancelled", "Denied"}

\* `exit`: exit code zero or none; `usable`: content neither empty nor
\* truncated; `changed`: affected_files is not empty.  What the runtime does
\* not see: `ran`, the tool was executed; `wrote`, it wrote to the workspace.
ToolResult == [status : Statuses, exit : BOOLEAN, usable : BOOLEAN, out : Outputs,
               changed : BOOLEAN, ran : BOOLEAN, wrote : BOOLEAN]

\* A result without an exit code or affected files.
Plain(status, usable, out, ran) ==
    [status |-> status, exit |-> TRUE, usable |-> usable, out |-> out,
     changed |-> FALSE, ran |-> ran, wrote |-> FALSE]

\* ToolResult::failed for a call that is not executed.
NotRun(out) == Plain("Failed", TRUE, out, FALSE)

\* What a tool may return.  Only commands have exit codes.  A successful edit
\* lists the files it wrote; apply_patch writes its files one by one, and when a
\* later one does not apply it returns an error that lists none.
Returns(kind) ==
    {r \in ToolResult :
        /\ r.ran
        /\ r.status \in {"Success", "Failed"}
        /\ r.exit \/ (kind \in {"validate", "command"} /\ r.status = "Success")
        /\ r.usable \/ (kind # "edit" /\ r.status = "Success")
        /\ r.changed = (kind = "edit" /\ r.status = "Success")
        /\ r.changed => r.wrote
        /\ r.wrote => kind = "edit"}

\* A denied command is a Denied result, a denied edit an error.
Refused(kind, out) ==
    Plain(IF kind = "edit" THEN "Failed" ELSE "Denied", TRUE, out, TRUE)

\* One executed call as the conversation and the undo history show it.
Entry == [call : Calls, result : ToolResult]

-----------------------------------------------------------------------------
VARIABLES
    pc,           \* where the run is
    cancelled,    \* the run's CancellationToken
    turns,        \* AgentRunStats::turns
    tool_calls,   \* AgentRunStats::tool_calls
    queue,        \* calls of this turn the for loop has not reached
    asked,        \* calls in Assistant messages of the history
    log,          \* Tool messages of the history, with the results behind them
    started,      \* numbers of the calls ToolStarted was emitted for
    progress,     \* TaskProgress
    repeats,      \* last_call_signature and same_call_repeat_count
    failures,     \* consecutive_failures
    limit,        \* budget_exhausted
    outcome,      \* how the run ended
    prompt,       \* the shared permission or question slot
    clearing,     \* the command loop is between cancelling and clearing slots
    cut,          \* the last stream was closed by its cancelled producer
    late          \* history: requests and tool starts since the cancellation

runVars == <<turns, tool_calls, queue, asked, log, started, progress, repeats, failures,
             limit, outcome>>
vars == <<pc, cancelled, turns, tool_calls, queue, asked, log, started, progress, repeats,
          failures, limit, outcome, prompt, clearing, cut, late>>

\* head: top of the drive loop; open: awaiting stream_chat; stream: receiving;
\* next: top of the for loop over calls; requested: before execute_tool; tool,
\* act: executing, before and after a prompt; prompt: awaiting the user; land:
\* soft_land's own check.
Pc == {"head", "open", "stream", "next", "requested", "tool", "prompt", "act", "land",
       "done"}
Outcomes == {"none", "Normal", "BudgetExhausted", "Cancelled", "Error"}
Progress == [validation_pending : BOOLEAN, recovery_required : BOOLEAN,
             last_exploration_output : Outputs \cup {NoOutput},
             unchanged_exploration_results : Nat]

Init ==
    /\ pc = "head"
    /\ cancelled = FALSE
    /\ turns = 0 /\ tool_calls = 0
    /\ queue = <<>> /\ asked = 0 /\ log = <<>> /\ started = {}
    /\ progress = [validation_pending |-> FALSE, recovery_required |-> FALSE,
                   last_exploration_output |-> NoOutput,
                   unchanged_exploration_results |-> 0]
    /\ repeats = [last |-> <<>>, count |-> 0]
    /\ failures = 0
    /\ limit = "none"
    /\ outcome = "none"
    /\ prompt = "none"
    /\ clearing = FALSE
    /\ cut = FALSE
    /\ late = 0

-----------------------------------------------------------------------------
(* TaskProgress                                                            *)

is_validation_call(c) == KindOf[c] = "validate"
is_editing_call(c) == KindOf[c] = "edit"
validation_succeeded(r) == r.status = "Success" /\ r.exit
is_recovery_evidence(c, r) == r.status = "Success" /\ KindOf[c] = "inspect"
blocks_edit(c) == progress.recovery_required /\ is_editing_call(c)

reset_exploration_progress(p) ==
    [p EXCEPT !.last_exploration_output = NoOutput, !.unchanged_exploration_results = 0]

observe_exploration_result(p, r) ==
    IF r.status # "Success" \/ ~r.usable
    THEN reset_exploration_progress(p)
    ELSE [p EXCEPT !.last_exploration_output = r.out,
                   !.unchanged_exploration_results =
                       IF p.last_exploration_output = r.out THEN @ + 1 ELSE 1]

\* Mutant: a failed validation releases the obligation to validate.
observe_clears_on_failure(p, c, r) ==
    IF r.changed /\ r.status = "Success"
    THEN reset_exploration_progress([p EXCEPT !.validation_pending = TRUE])
    ELSE IF is_validation_call(c)
    THEN reset_exploration_progress(
             [p EXCEPT !.validation_pending = FALSE,
                       !.recovery_required = ~validation_succeeded(r)])
    ELSE observe_exploration_result(
             [p EXCEPT !.recovery_required = @ /\ ~is_recovery_evidence(c, r)], r)

\* Mutant: any exploration result, also a failed one, counts as evidence.
observe_any_evidence(p, c, r) ==
    IF r.changed /\ r.status = "Success"
    THEN reset_exploration_progress([p EXCEPT !.validation_pending = TRUE])
    ELSE IF is_validation_call(c)
    THEN reset_exploration_progress(
             [p EXCEPT !.validation_pending = @ /\ ~validation_succeeded(r),
                       !.recovery_required = ~validation_succeeded(r)])
    ELSE observe_exploration_result([p EXCEPT !.recovery_required = FALSE], r)

\* TaskProgress::observe: a change, a validation or an exploration.
observe(p, c, r) ==
    IF r.changed /\ r.status = "Success"
    THEN reset_exploration_progress([p EXCEPT !.validation_pending = TRUE])
    ELSE IF is_validation_call(c)
    THEN reset_exploration_progress(
             [p EXCEPT !.validation_pending = @ /\ ~validation_succeeded(r),
                       !.recovery_required = ~validation_succeeded(r)])
    ELSE observe_exploration_result(
             [p EXCEPT !.recovery_required = @ /\ ~is_recovery_evidence(c, r)], r)

-----------------------------------------------------------------------------
(* Agent::drive                                                            *)

\* run returns: nothing of the run moves after this.
End(how) ==
    /\ pc' = "done"
    /\ outcome' = how

\* A request or a tool start, counted once the run has been cancelled.
Initiates == late' = IF cancelled THEN late + 1 ELSE late

\* Mutant: the turn budget is off by one.
TurnTopOffByOne ==
    /\ pc = "head"
    /\ \/ /\ cancelled
          /\ End("Cancelled")
          /\ UNCHANGED <<turns, limit>>
       \/ /\ ~cancelled /\ turns > max_turns
          /\ pc' = "land" /\ limit' = "MaxTurns"
          /\ UNCHANGED <<turns, outcome>>
       \/ /\ ~cancelled /\ turns <= max_turns
          /\ pc' = "open" /\ turns' = turns + 1
          /\ UNCHANGED <<limit, outcome>>
    /\ UNCHANGED <<cancelled, tool_calls, queue, asked, log, started, progress, repeats,
                   failures, prompt, clearing, cut, late>>

\* The top of the drive loop.
TurnTop ==
    /\ pc = "head"
    /\ \/ /\ cancelled
          /\ End("Cancelled")
          /\ UNCHANGED <<turns, limit>>
       \/ /\ ~cancelled /\ turns >= max_turns
          /\ pc' = "land" /\ limit' = "MaxTurns"
          /\ UNCHANGED <<turns, outcome>>
       \/ /\ ~cancelled /\ turns < max_turns
          /\ pc' = "open" /\ turns' = turns + 1
          /\ UNCHANGED <<limit, outcome>>
    /\ UNCHANGED <<cancelled, tool_calls, queue, asked, log, started, progress, repeats,
                   failures, prompt, clearing, cut, late>>

\* The request goes out; stream_chat itself does not watch the token.
Opens ==
    /\ pc = "open"
    /\ pc' = "stream"
    /\ Initiates
    /\ UNCHANGED <<cancelled, runVars, prompt, clearing, cut>>

\* stream_chat or a stream event is an error, or the text or a tool-call
\* payload is too large.  soft_land replaces any of them with its own summary.
TurnFails ==
    /\ pc \in {"open", "stream"}
    /\ End(IF limit = "none" THEN "Error" ELSE "BudgetExhausted")
    /\ UNCHANGED <<cancelled, turns, tool_calls, queue, asked, log, started, progress,
                   repeats, failures, limit, prompt, clearing, cut, late>>

\* Mutant: the summary turn does not watch the token.
TurnCancelledUnlessSummary ==
    /\ pc = "stream" /\ cancelled /\ limit = "none"
    /\ End("Cancelled")
    /\ UNCHANGED <<cancelled, turns, tool_calls, queue, asked, log, started, progress,
                   repeats, failures, limit, prompt, clearing, cut, late>>

\* run_turn's select! sees the token.
TurnCancelled ==
    /\ pc = "stream" /\ cancelled
    /\ End("Cancelled")
    /\ UNCHANGED <<cancelled, turns, tool_calls, queue, asked, log, started, progress,
                   repeats, failures, limit, prompt, clearing, cut, late>>

\* What drive does with a finished turn that requested `calls`.
AfterTurn(calls) ==
    /\ asked' = asked + Len(calls)
    /\ \/ /\ calls = <<>> /\ progress.validation_pending
          /\ pc' = "land" /\ limit' = "ValidationPending"
          /\ UNCHANGED <<queue, outcome>>
       \/ /\ calls = <<>> /\ ~progress.validation_pending
          /\ End("Normal")
          /\ UNCHANGED <<queue, limit>>
       \/ /\ calls # <<>>
          /\ tool_calls + Len(calls) > max_total_tool_calls
          /\ pc' = "land" /\ limit' = "MaxTotalToolCalls"
          /\ UNCHANGED <<queue, outcome>>
       \/ /\ calls # <<>>
          /\ tool_calls + Len(calls) <= max_total_tool_calls
          /\ Len(calls) > max_tool_calls_per_turn
          /\ End("Error")
          /\ UNCHANGED <<queue, limit>>
       \/ /\ calls # <<>>
          /\ tool_calls + Len(calls) <= max_total_tool_calls
          /\ Len(calls) <= max_tool_calls_per_turn
          /\ pc' = "next" /\ queue' = calls
          /\ UNCHANGED <<limit, outcome>>

Requested == UNION {[1..n -> Calls] : n \in 0..MaxRequested}

\* The stream ends.  Its producer also stops when it sees the token, and the
\* closed channel looks the same to the select! as the end of the answer.
TurnEnds(calls) ==
    /\ pc = "stream" /\ limit = "none"
    /\ cut' \in {FALSE, cancelled}
    /\ AfterTurn(calls)
    /\ UNCHANGED <<cancelled, turns, tool_calls, log, started, progress, repeats, failures,
                   prompt, clearing, late>>

\* The same for soft_land's summary turn: its tool calls are ignored.
SummaryEnds ==
    /\ pc = "stream" /\ limit # "none"
    /\ cut' \in {FALSE, cancelled}
    /\ turns' = turns + 1
    /\ End("BudgetExhausted")
    /\ UNCHANGED <<cancelled, tool_calls, queue, asked, log, started, progress, repeats,
                   failures, limit, prompt, clearing, late>>

\* The top of the loop over the turn's calls.
NextCall ==
    /\ pc = "next"
    /\ \/ /\ queue = <<>>
          /\ pc' = "head"
          /\ UNCHANGED <<tool_calls, outcome>>
       \/ /\ queue # <<>> /\ cancelled
          /\ End("Cancelled")
          /\ UNCHANGED tool_calls
       \/ /\ queue # <<>> /\ ~cancelled
          /\ pc' = "requested" /\ tool_calls' = tool_calls + 1
          /\ UNCHANGED outcome
    /\ UNCHANGED <<cancelled, turns, queue, asked, log, started, progress, repeats, failures,
                   limit, prompt, clearing, cut, late>>

-----------------------------------------------------------------------------
(* One tool call                                                           *)

Current == Head(queue)

\* Mutant: the loop detection looks at the request alone.
SignatureOfCall(c, r) == <<c>>

\* The window of identical results; the signature is the call and what its
\* result showed (tool_evidence_signature).
Signature(c, r) == <<c, r.status, r.exit, r.usable, r.out>>

\* Mutant: the first of a series is not counted.
repeats_after_uncounted(c, r) ==
    [last |-> Signature(c, r),
     count |-> IF repeats.last = Signature(c, r) THEN repeats.count + 1 ELSE 0]

repeats_after(c, r) ==
    [last |-> Signature(c, r),
     count |-> IF repeats.last = Signature(c, r) THEN repeats.count + 1 ELSE 1]

\* Mutant: a success takes back one failure instead of all.
failures_after_decay(r) == IF r.status = "Success" THEN failures - 1 ELSE failures + 1

failures_after(r) == IF r.status = "Success" THEN 0 ELSE failures + 1

\* The limit that stops the run after a call, given the updated counters.
Exhausted(rep, prog, fails) ==
    IF rep.count >= MAX_REPEATS THEN "RepeatedToolCall"
    ELSE IF prog.unchanged_exploration_results >= MAX_UNCHANGED_EXPLORATION_RESULTS
    THEN "NoProgress"
    ELSE IF fails >= max_consecutive_failures THEN "ConsecutiveFailures"
    ELSE "none"

\* Mutant: a stopped call leaves no Tool message behind.
RecordForgets(c, r) ==
    /\ progress' = observe(progress, c, r)
    /\ repeats' = repeats_after(c, r)
    /\ failures' = failures_after(r)
    /\ limit' = Exhausted(repeats', progress', failures')
    /\ log' = IF r.ran THEN Append(log, [call |-> c, result |-> r]) ELSE log
    /\ queue' = Tail(queue)
    /\ pc' = IF limit' = "none" THEN "next" ELSE "land"
    /\ UNCHANGED <<turns, tool_calls, asked, outcome>>

\* Everything drive does with a result, from observe to the three budgets.
Record(c, r) ==
    /\ progress' = observe(progress, c, r)
    /\ repeats' = repeats_after(c, r)
    /\ failures' = failures_after(r)
    /\ limit' = Exhausted(repeats', progress', failures')
    /\ log' = Append(log, [call |-> c, result |-> r])
    /\ queue' = Tail(queue)
    /\ pc' = IF limit' = "none" THEN "next" ELSE "land"
    /\ UNCHANGED <<turns, tool_calls, asked, outcome>>

\* blocks_edit refuses the call, or the registry does not know its name.
CallRefused ==
    /\ pc = "requested"
    /\ blocks_edit(Current) \/ KindOf[Current] = "unknown"
    /\ \E o \in Outputs : Record(Current, NotRun(o))
    /\ UNCHANGED <<cancelled, started, prompt, clearing, cut, late>>

\* ToolStarted, and Tool::execute.
ToolStarts ==
    /\ pc = "requested"
    /\ ~blocks_edit(Current) /\ KindOf[Current] # "unknown"
    /\ started' = started \cup {tool_calls}
    /\ pc' = "tool"
    /\ Initiates
    /\ UNCHANGED <<cancelled, turns, tool_calls, queue, asked, log, progress, repeats,
                   failures, limit, outcome, prompt, clearing, cut>>

\* Mutant: the prompt is shown before anyone can answer it.
ToolAsksUnregistered ==
    /\ pc = "tool"
    /\ KindOf[Current] \in {"edit", "validate", "command", "question"}
    /\ pc' = "prompt"
    /\ UNCHANGED <<cancelled, runVars, prompt, clearing, cut, late>>

\* The tool asks: a permission, or ask_user's question.
ToolAsks ==
    /\ pc = "tool"
    /\ KindOf[Current] \in {"edit", "validate", "command", "question"}
    /\ prompt' = IF KindOf[Current] = "question" THEN "question" ELSE "permission"
    /\ pc' = "prompt"
    /\ UNCHANGED <<cancelled, runVars, clearing, cut, late>>

\* The tool returns a result.
ToolReturns ==
    /\ \/ pc = "act"
       \/ pc = "tool" /\ KindOf[Current] # "question"
    /\ \E r \in Returns(KindOf[Current]) : Record(Current, r)
    /\ UNCHANGED <<cancelled, started, prompt, clearing, cut, late>>

\* The tool sees the token: search returns ToolError::Cancelled, which ends
\* the run, and run_command a Cancelled result.
ToolCancelled ==
    /\ pc \in {"tool", "act"} /\ cancelled
    /\ \/ /\ KindOf[Current] = "inspect"
          /\ End("Cancelled")
          /\ UNCHANGED <<turns, tool_calls, queue, asked, log, progress, repeats, failures,
                         limit>>
       \/ /\ KindOf[Current] \in {"validate", "command"}
          /\ \E o \in Outputs : Record(Current, Plain("Cancelled", TRUE, o, TRUE))
    /\ UNCHANGED <<cancelled, started, prompt, clearing, cut, late>>

-----------------------------------------------------------------------------
(* The user and the command loop                                           *)

\* AppCommand::PermissionResponse and GuidedAnswer: the slot is taken.
UserAllows ==
    /\ prompt # "none"
    /\ prompt' = "none"
    /\ pc' = "act"
    /\ UNCHANGED <<cancelled, runVars, clearing, cut, late>>

Denied ==
    /\ prompt = "permission"
    /\ prompt' = "none"
    /\ \E o \in Outputs : Record(Current, Refused(KindOf[Current], o))

UserDenies ==
    /\ Denied
    /\ UNCHANGED <<cancelled, started, clearing, cut, late>>

\* AppCommand::CancelProviderRequest: the token first, then the slots.
CancelToken ==
    /\ ~clearing
    /\ cancelled' = TRUE
    /\ clearing' = TRUE
    /\ UNCHANGED <<pc, runVars, prompt, cut, late>>

\* A pending permission is denied, a pending question answered with None,
\* which ask_user turns into ToolError::Cancelled.
ClearPrompts ==
    /\ clearing
    /\ clearing' = FALSE
    /\ \/ Denied
       \/ /\ prompt = "question"
          /\ prompt' = "none"
          /\ End("Cancelled")
          /\ UNCHANGED <<turns, tool_calls, queue, asked, log, progress, repeats, failures,
                         limit>>
       \/ /\ prompt = "none"
          /\ UNCHANGED <<pc, turns, tool_calls, queue, asked, log, progress, repeats,
                         failures, limit, outcome, prompt>>
    /\ UNCHANGED <<cancelled, started, cut, late>>

\* AppCommand::DebugStop cancels the token and leaves the slots alone.
DebugStop ==
    /\ ~clearing
    /\ cancelled' = TRUE
    /\ UNCHANGED <<pc, runVars, prompt, clearing, cut, late>>

-----------------------------------------------------------------------------
(* soft_land                                                               *)

\* Mutant: a cancelled run is summarised all the same.
SoftLandAlways ==
    /\ pc = "land"
    /\ pc' = "open"
    /\ UNCHANGED <<cancelled, runVars, prompt, clearing, cut, late>>

\* The summary prompt joins the history and one more turn begins, unless the
\* run has been cancelled.
SoftLand ==
    /\ pc = "land"
    /\ \/ /\ cancelled
          /\ End("Cancelled")
       \/ /\ ~cancelled
          /\ pc' = "open"
          /\ UNCHANGED outcome
    /\ UNCHANGED <<cancelled, turns, tool_calls, queue, asked, log, started, progress,
                   repeats, failures, limit, prompt, clearing, cut, late>>

-----------------------------------------------------------------------------
RunSteps ==
    \/ TurnTop \/ Opens \/ NextCall \/ CallRefused \/ ToolStarts \/ SoftLand

ProviderSteps ==
    \/ TurnFails \/ SummaryEnds \/ \E calls \in Requested : TurnEnds(calls)

ToolSteps == ToolAsks \/ ToolReturns \/ ToolCancelled

UserSteps == UserAllows \/ UserDenies

Next ==
    \/ RunSteps \/ ProviderSteps \/ TurnCancelled \/ ToolSteps
    \/ UserSteps \/ CancelToken \/ ClearPrompts \/ DebugStop

Spec == Init /\ [][Next]_vars

\* The run is a task that tokio keeps polling, its provider's HTTP request and
\* its tools come back (run_command has a timeout), and the command loop
\* finishes a command it has begun.  Nothing is assumed of the user here, nor
\* of a stream that has been opened.
Fairness ==
    /\ WF_vars(RunSteps)
    /\ WF_vars(TurnCancelled)
    /\ WF_vars(ToolSteps)
    /\ WF_vars(ClearPrompts)

FairSpec == Spec /\ Fairness

\* What a property may assume of the others: the user answers prompts, and the
\* provider ends every stream.
UserAnswers == WF_vars(UserSteps)
StreamsEnd == WF_vars(ProviderSteps)

-----------------------------------------------------------------------------
(* Properties                                                              *)

\* What a recorded call was.
Changed(x) == x.result.changed
Validated(x) == KindOf[x.call] = "validate" /\ validation_succeeded(x.result)
FailedValidation(x) == KindOf[x.call] = "validate" /\ ~validation_succeeded(x.result)
Evidence(x) == Validated(x) \/ is_recovery_evidence(x.call, x.result)
ExecutedEdit(x) == KindOf[x.call] = "edit" /\ x.result.ran

TypeOK ==
    /\ pc \in Pc
    /\ cancelled \in BOOLEAN
    /\ turns \in Nat
    /\ tool_calls \in Nat
    /\ queue \in Seq(Calls)
    /\ asked \in Nat
    /\ log \in Seq(Entry)
    /\ started \subseteq Nat
    /\ progress \in Progress
    /\ repeats.count \in Nat
    /\ failures \in Nat
    /\ limit \in Limits \cup {"none"}
    /\ outcome \in Outcomes
    /\ prompt \in {"none", "permission", "question"}
    /\ clearing \in BOOLEAN
    /\ cut \in BOOLEAN
    /\ late \in Nat

\* A run never takes more turns than its limit and the one summary, and never
\* attempts more calls than its limit.
WithinBudget ==
    /\ turns <= max_turns + 1
    /\ tool_calls <= max_total_tool_calls

\* Whenever the drive loop sends the history to the provider, every tool call
\* in it has been answered by a Tool message: results return to the model
\* whether the call ran, was refused, unknown, denied or failed.
ResultsReturned ==
    pc \in {"open", "stream"} /\ limit = "none" => asked = Len(log)

\* A run that ends normally has validated its last change: after every change
\* some validation succeeded.
NormalIsValidated ==
    outcome = "Normal" =>
        \A n \in 1..Len(log) : Changed(log[n]) => \E m \in n + 1 .. Len(log) : Validated(log[m])

\* After a failed validation no edit is executed until a tool has inspected
\* the project with success, or a validation has succeeded.
NoBlindEdit ==
    \A m, n \in 1..Len(log) :
        m < n /\ FailedValidation(log[m]) /\ ExecutedEdit(log[n]) =>
            \E k \in m + 1 .. n - 1 : Evidence(log[k])

\* The same request with results that show the same.
LooksTheSame(n, m) ==
    /\ log[n].call = log[m].call
    /\ \A f \in {"status", "exit", "usable", "out"} : log[n].result[f] = log[m].result[f]

\* Two explorations, one after the other, that show the same usable output.
SameEvidence(n, m) ==
    /\ \A k \in {n, m} :
          /\ KindOf[log[k].call] # "validate" /\ ~log[k].result.changed
          /\ log[k].result.status = "Success" /\ log[k].result.usable
    /\ log[n].result.out = log[m].result.out

\* A run that is stuck stops: three results in a row that show the same, three
\* explorations in a row with the same output, and as many failures in a row
\* as the limit are the last of the run, across turns too.
StopsWhenStuck ==
    /\ \A n \in 1..Len(log) - 3 :
          /\ ~(LooksTheSame(n, n + 1) /\ LooksTheSame(n + 1, n + 2))
          /\ ~(SameEvidence(n, n + 1) /\ SameEvidence(n + 1, n + 2))
    /\ max_consecutive_failures > 0 =>
          \A n \in 1..Len(log) - max_consecutive_failures :
              \E k \in n .. n + max_consecutive_failures - 1 :
                  log[k].result.status = "Success"

\* Nothing stops early for repetition: a run wrapped up as RepeatedToolCall
\* ends with three results that show the same.
RepeatsAreReal ==
    limit = "RepeatedToolCall" =>
        /\ Len(log) >= MAX_REPEATS
        /\ \A k \in Len(log) - 2 .. Len(log) - 1 : LooksTheSame(k, k + 1)

\* After the cancellation a run sends at most one more request or starts at
\* most one more tool: the one it had already checked the token for.
StopsPromptly == late <= 1

\* A cancelled run ends if the user answers its prompts, even when the
\* provider's stream never ends.
CancelEnds == UserAnswers => (cancelled ~> pc = "done")

\* Every run ends if the user answers and the provider's streams do not go on
\* for ever.
RunEnds == UserAnswers /\ StreamsEnd => <>(pc = "done")

-----------------------------------------------------------------------------
(* The inductive invariant behind the properties that are proved           *)

\* One call is under way, and it is the head of the queue.
CallPc == {"requested", "tool", "prompt", "act"}

\* Whose turn it is: only the user moves a run that shows a prompt, a run that
\* has not ended has no outcome, and a limit leads to soft_land and nowhere else.
PhaseInv ==
    /\ prompt # "none" => pc = "prompt"
    /\ outcome # "none" => pc = "done"
    /\ pc \in CallPc \cup {"head", "next"} => limit = "none"
    /\ pc = "land" => limit # "none"

\* The calls still queued are paid for, and the summary is the only turn above
\* the limit.
BudgetInv ==
    /\ pc # "done" => turns <= max_turns
    /\ pc = "next" => tool_calls + Len(queue) <= max_total_tool_calls
    /\ pc \in CallPc =>
          queue # <<>> /\ tool_calls + Len(queue) <= max_total_tool_calls + 1

\* Every requested call has a result or is still queued.
HistoryInv ==
    /\ pc \in CallPc \cup {"next"} => asked = Len(log) + Len(queue)
    /\ pc = "head" => asked = Len(log)

\* What TaskProgress remembers of the log: without an obligation every change
\* has been validated, and without a required recovery every failed
\* validation has been followed by evidence.
ProgressInv ==
    /\ progress.validation_pending
       \/ \A n \in 1..Len(log) : Changed(log[n]) => \E m \in n + 1 .. Len(log) : Validated(log[m])
    /\ outcome = "Normal" => ~progress.validation_pending
    /\ progress.recovery_required
       \/ \A n \in 1..Len(log) :
              FailedValidation(log[n]) => \E m \in n + 1 .. Len(log) : Evidence(log[m])
    /\ pc \in {"tool", "prompt", "act"} => ~blocks_edit(Current)

\* Between the check of the token and what it allows nothing else is started.
PromptnessInv == (~cancelled \/ pc \in {"open", "requested"}) => late = 0

LoopInv ==
    /\ TypeOK /\ PhaseInv /\ BudgetInv /\ HistoryInv /\ ProgressInv /\ PromptnessInv
    /\ WithinBudget /\ ResultsReturned /\ NoBlindEdit /\ StopsPromptly

-----------------------------------------------------------------------------
(* What the documentation says and the code does not do                    *)

\* AgentEvent: "a ToolFinished is never emitted before the matching
\* ToolStarted".  Every recorded call emits ToolFinished.
FinishedWasStarted == \A n \in 1..Len(log) : n \in started

\* AgentEvent::FileSnapshot: undo history "is never lost to an early return",
\* "including one that then fails": whatever a call wrote is in its result's
\* affected files, which the snapshots are taken from.
WritesAreRecorded ==
    \A n \in 1..Len(log) : log[n].result.wrote => log[n].result.changed

\* split_for_compaction: "a fresh user turn never continues a pending tool-call
\* sequence".  soft_land appends a User message and sends the history.
SummaryFollowsResults == pc = "open" => asked = Len(log)

\* docs/AGENT.md, section 101: "final response occurs only at true completion".
NormalIsComplete == outcome = "Normal" => ~cut

\* docs/AGENT.md, sections 59 and 101: cancellation works during permission
\* waiting and "ends the run", without the user's answer to a prompt.
CancelNeedsNoAnswer == cancelled ~> pc = "done"

=============================================================================
