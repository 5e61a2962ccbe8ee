--------------------------- MODULE AgentLoopProofs ---------------------------
(***************************************************************************)
(* Machine-checked theorems about AgentLoop, for every set of calls and    *)
(* outputs and for every limit.                                            *)
(***************************************************************************)
EXTENDS AgentLoop, TLAPS

USE CallsAssumption, OutputsAssumption, AgentLimitsAssumption

-----------------------------------------------------------------------------
(* Tool results and TaskProgress                                           *)

\* What the loop relies on in a result: its type, and that only a successful
\* edit reports changed files.
Proper(kind, r) ==
    /\ r \in ToolResult
    /\ r.changed => r.status = "Success" /\ kind = "edit"

LEMMA PlainProper ==
    ASSUME NEW status \in Statuses, NEW usable \in BOOLEAN, NEW o \in Outputs,
           NEW ran \in BOOLEAN, NEW kind
    PROVE  /\ Proper(kind, Plain(status, usable, o, ran))
           /\ Plain(status, usable, o, ran).ran = ran
BY DEF Proper, Plain, ToolResult

LEMMA ReturnsProper ==
    ASSUME NEW kind \in Kinds, NEW r \in Returns(kind)
    PROVE  Proper(kind, r)
BY DEF Returns, Proper

\* observe keeps the type of TaskProgress, and what it says of the two
\* obligations.
LEMMA ObserveFacts ==
    ASSUME NEW p \in Progress, NEW c \in Calls, NEW r, Proper(KindOf[c], r)
    PROVE  LET q == observe(p, c, r)
               ok == KindOf[c] = "validate" /\ validation_succeeded(r)
           IN  /\ q \in Progress
               /\ r.changed => q.validation_pending
               /\ p.validation_pending => q.validation_pending \/ ok
               /\ KindOf[c] = "validate" /\ ~validation_succeeded(r) => q.recovery_required
               /\ p.recovery_required =>
                     q.recovery_required \/ ok \/ is_recovery_evidence(c, r)
<1> DEFINE ok == KindOf[c] = "validate" /\ validation_succeeded(r)
<1>0. /\ KindOf[c] = "validate" <=> is_validation_call(c)
      /\ r.changed => r.status = "Success" /\ KindOf[c] = "edit"
      /\ r.changed \in BOOLEAN /\ r.usable \in BOOLEAN /\ r.exit \in BOOLEAN
      /\ r.out \in Outputs
      /\ validation_succeeded(r) \in BOOLEAN /\ is_recovery_evidence(c, r) \in BOOLEAN
    BY DEF is_validation_call, Proper, ToolResult, validation_succeeded,
           is_recovery_evidence
<1> USE DEF Progress
<1>1. ASSUME NEW s \in Progress
      PROVE  /\ reset_exploration_progress(s) \in Progress
             /\ reset_exploration_progress(s).validation_pending = s.validation_pending
             /\ reset_exploration_progress(s).recovery_required = s.recovery_required
    BY DEF reset_exploration_progress
<1>2. ASSUME NEW s \in Progress
      PROVE  /\ observe_exploration_result(s, r) \in Progress
             /\ observe_exploration_result(s, r).validation_pending = s.validation_pending
             /\ observe_exploration_result(s, r).recovery_required = s.recovery_required
    <2>1. CASE r.status # "Success" \/ ~r.usable
        BY <1>1, <2>1 DEF observe_exploration_result
    <2>2. CASE ~(r.status # "Success" \/ ~r.usable)
        <3> DEFINE n == IF s.last_exploration_output = r.out
                        THEN s.unchanged_exploration_results + 1 ELSE 1
        <3>1. n \in Nat
            OBVIOUS
        <3>2. observe_exploration_result(s, r)
                = [s EXCEPT !.last_exploration_output = r.out,
                            !.unchanged_exploration_results = n]
            BY <2>2 DEF observe_exploration_result
        <3> HIDE DEF n
        <3> QED
            BY <1>0, <3>1, <3>2
    <2> QED
        BY <2>1, <2>2
<1>3. CASE r.changed /\ r.status = "Success"
    <2> DEFINE s == [p EXCEPT !.validation_pending = TRUE]
    <2>1. s \in Progress /\ s.validation_pending /\ s.recovery_required = p.recovery_required
        OBVIOUS
    <2>2. observe(p, c, r) = reset_exploration_progress(s)
        BY <1>3 DEF observe
    <2>3. KindOf[c] # "validate"
        BY <1>0, <1>3
    <2> QED
        BY <1>1, <2>1, <2>2, <2>3
<1>4. CASE ~(r.changed /\ r.status = "Success") /\ KindOf[c] = "validate"
    <2> DEFINE s == [p EXCEPT !.validation_pending = @ /\ ~validation_succeeded(r),
                              !.recovery_required = ~validation_succeeded(r)]
    <2>1. /\ s \in Progress
          /\ s.validation_pending = (p.validation_pending /\ ~validation_succeeded(r))
          /\ s.recovery_required = ~validation_succeeded(r)
        OBVIOUS
    <2>2. observe(p, c, r) = reset_exploration_progress(s)
        BY <1>0, <1>4 DEF observe
    <2>3. ~r.changed
        BY <1>0, <1>4
    <2> QED
        BY <1>1, <1>4, <2>1, <2>2, <2>3
<1>5. CASE ~(r.changed /\ r.status = "Success") /\ KindOf[c] # "validate"
    <2> DEFINE s == [p EXCEPT !.recovery_required = @ /\ ~is_recovery_evidence(c, r)]
    <2>1. /\ s \in Progress
          /\ s.validation_pending = p.validation_pending
          /\ s.recovery_required = (p.recovery_required /\ ~is_recovery_evidence(c, r))
        OBVIOUS
    <2>2. observe(p, c, r) = observe_exploration_result(s, r)
        BY <1>0, <1>5 DEF observe
    <2>3. ~r.changed
        BY <1>0, <1>5
    <2> QED
        BY <1>2, <1>5, <2>1, <2>2, <2>3
<1> QED
    BY <1>3, <1>4, <1>5

-----------------------------------------------------------------------------
(* A recorded result                                                       *)

LEMMA AppendFacts ==
    ASSUME log \in Seq(Entry), NEW e \in Entry, log' = Append(log, e)
    PROVE  /\ log' \in Seq(Entry)
           /\ Len(log) \in Nat /\ Len(log') = Len(log) + 1
           /\ \A n \in 1..Len(log) : log'[n] = log[n]
           /\ log'[Len(log) + 1] = e
OBVIOUS

\* Record keeps what TaskProgress remembers of the log, and no edit is blind as
\* long as a call that needs evidence is not executed.
LEMMA RecordProgress ==
    ASSUME TypeOK, ProgressInv, NoBlindEdit, NEW c \in Calls, NEW r, Proper(KindOf[c], r),
           KindOf[c] = "edit" /\ r.ran => ~progress.recovery_required,
           progress' = observe(progress, c, r),
           log' = Append(log, [call |-> c, result |-> r]),
           outcome' = "none",
           pc' \notin {"tool", "prompt", "act"}
    PROVE  progress' \in Progress /\ log' \in Seq(Entry) /\ ProgressInv' /\ NoBlindEdit'
<1> DEFINE e == [call |-> c, result |-> r]
<1> DEFINE N == Len(log)
<1>1. e \in Entry /\ progress \in Progress
    BY DEF Entry, Proper, TypeOK
<1>2. /\ log' \in Seq(Entry)
      /\ N \in Nat /\ Len(log') = N + 1
      /\ \A n \in 1..N : log'[n] = log[n]
      /\ log'[N + 1] = e
    BY <1>1, AppendFacts DEF TypeOK
<1>3. /\ Changed(e) <=> r.changed
      /\ Validated(e) <=> KindOf[c] = "validate" /\ validation_succeeded(r)
      /\ FailedValidation(e) <=> KindOf[c] = "validate" /\ ~validation_succeeded(r)
      /\ Evidence(e) <=> Validated(e) \/ is_recovery_evidence(c, r)
      /\ ExecutedEdit(e) <=> KindOf[c] = "edit" /\ r.ran
    BY DEF Changed, Validated, FailedValidation, Evidence, ExecutedEdit
<1>4. /\ progress' \in Progress
      /\ Changed(e) => progress'.validation_pending
      /\ progress.validation_pending => progress'.validation_pending \/ Validated(e)
      /\ FailedValidation(e) => progress'.recovery_required
      /\ progress.recovery_required => progress'.recovery_required \/ Evidence(e)
      /\ ExecutedEdit(e) => ~progress.recovery_required
    BY <1>1, <1>3, ObserveFacts
<1> HIDE DEF N, e
<1>5. ASSUME ~progress'.validation_pending, NEW n \in 1..N + 1, Changed(log'[n])
      PROVE  \E m \in n + 1 .. N + 1 : Validated(log'[m])
    <2>1. n \in 1..N /\ Changed(log[n])
        BY <1>2, <1>4, <1>5
    <2>2. CASE progress.validation_pending
        BY <1>2, <1>4, <1>5, <2>1, <2>2
    <2>3. CASE ~progress.validation_pending
        <3>1. PICK m \in n + 1 .. N : Validated(log[m])
            BY <2>1, <2>3 DEF ProgressInv, N
        <3> QED
            BY <1>2, <2>1, <3>1
    <2> QED
        BY <2>2, <2>3
<1>6. ASSUME ~progress'.recovery_required, NEW n \in 1..N + 1, FailedValidation(log'[n])
      PROVE  \E m \in n + 1 .. N + 1 : Evidence(log'[m])
    <2>1. n \in 1..N /\ FailedValidation(log[n])
        BY <1>2, <1>4, <1>6
    <2>2. CASE progress.recovery_required
        BY <1>2, <1>4, <1>6, <2>1, <2>2
    <2>3. CASE ~progress.recovery_required
        <3>1. PICK m \in n + 1 .. N : Evidence(log[m])
            BY <2>1, <2>3 DEF ProgressInv, N
        <3> QED
            BY <1>2, <2>1, <3>1
    <2> QED
        BY <2>2, <2>3
<1>7. ASSUME NEW m \in 1..N + 1, NEW n \in 1..N + 1, m < n, FailedValidation(log'[m]),
             ExecutedEdit(log'[n])
      PROVE  \E k \in m + 1 .. n - 1 : Evidence(log'[k])
    <2>1. m \in 1..N /\ FailedValidation(log[m])
        BY <1>2, <1>7
    <2>2. CASE n \in 1..N
        <3>1. PICK k \in m + 1 .. n - 1 : Evidence(log[k])
            BY <1>2, <1>7, <2>1, <2>2 DEF NoBlindEdit, N
        <3> QED
            BY <1>2, <2>1, <2>2, <3>1
    <2>3. CASE n = N + 1
        <3>1. ~progress.recovery_required
            BY <1>2, <1>4, <1>7, <2>3
        <3>2. PICK k \in m + 1 .. N : Evidence(log[k])
            BY <2>1, <3>1 DEF ProgressInv, N
        <3>3. k \in 1..N /\ k \in m + 1 .. n - 1
            BY <1>2, <2>1, <2>3, <3>2
        <3> QED
            BY <1>2, <3>2, <3>3
    <2> QED
        BY <1>2, <2>2, <2>3
<1>8. ProgressInv'
    BY <1>2, <1>5, <1>6 DEF ProgressInv
<1>9. NoBlindEdit'
    BY <1>2, <1>7 DEF NoBlindEdit
<1> QED
    BY <1>2, <1>4, <1>8, <1>9

-----------------------------------------------------------------------------
(* The invariant, action by action                                         *)

LEMMA TailFacts ==
    ASSUME queue \in Seq(Calls), queue # <<>>
    PROVE  /\ Head(queue) \in Calls
           /\ Tail(queue) \in Seq(Calls) /\ Len(Tail(queue)) = Len(queue) - 1
           /\ Len(queue) \in Nat
OBVIOUS

\* The counters of the three budgets stay counters.
LEMMA CounterFacts ==
    ASSUME TypeOK, NEW c, NEW r
    PROVE  /\ repeats_after(c, r).count \in Nat
           /\ failures_after(r) \in Nat
           /\ \A rep, prog, fails : Exhausted(rep, prog, fails) \in Limits \cup {"none"}
BY DEF TypeOK, repeats_after, failures_after, Exhausted, Limits

\* Whatever a call's result comes from, recording it keeps the invariant.
LEMMA RecordKeepsInv ==
    ASSUME LoopInv, pc \in CallPc, NEW r, Proper(KindOf[Current], r),
           KindOf[Current] = "edit" /\ r.ran => ~progress.recovery_required,
           Record(Current, r),
           prompt' = "none",
           clearing' \in BOOLEAN,
           UNCHANGED <<cancelled, started, cut, late>>
    PROVE  LoopInv'
<1> USE DEF LoopInv
<1>1. /\ queue # <<>> /\ queue \in Seq(Calls) /\ limit = "none"
      /\ tool_calls + Len(queue) <= max_total_tool_calls + 1
      /\ asked = Len(log) + Len(queue)
      /\ outcome = "none"
    BY DEF PhaseInv, BudgetInv, HistoryInv, TypeOK, CallPc
<1>2. Current \in Calls /\ queue' \in Seq(Calls) /\ Len(queue') = Len(queue) - 1
      /\ Len(queue) \in Nat
    BY <1>1, TailFacts DEF Current, Record
<1>3. /\ outcome' = "none" /\ pc' \in {"next", "land"}
      /\ limit' \in Limits \cup {"none"}
      /\ pc' = "next" <=> limit' = "none"
      /\ repeats'.count \in Nat /\ failures' \in Nat
      /\ progress' = observe(progress, Current, r)
      /\ log' = Append(log, [call |-> Current, result |-> r])
      /\ UNCHANGED <<turns, tool_calls, asked>>
    BY <1>1, CounterFacts DEF Record
<1>4. progress' \in Progress /\ log' \in Seq(Entry) /\ ProgressInv' /\ NoBlindEdit'
    BY <1>2, <1>3, RecordProgress
<1>5. [call |-> Current, result |-> r] \in Entry
    BY <1>2 DEF Proper, Entry
<1>6. Len(log') = Len(log) + 1 /\ Len(log) \in Nat
    BY <1>3, <1>5, AppendFacts DEF TypeOK
<1>7. TypeOK'
    BY <1>2, <1>3, <1>4 DEF TypeOK, Pc, Outcomes
<1>8. PhaseInv'
    BY <1>3 DEF PhaseInv, CallPc
<1>9. BudgetInv' /\ WithinBudget'
    BY <1>1, <1>2, <1>3 DEF BudgetInv, WithinBudget, CallPc, TypeOK
<1>10. HistoryInv' /\ ResultsReturned'
    BY <1>1, <1>2, <1>3, <1>6 DEF HistoryInv, ResultsReturned, CallPc, TypeOK
<1>11. PromptnessInv' /\ StopsPromptly'
    BY <1>3 DEF PromptnessInv, StopsPromptly, CallPc
<1> QED
    BY <1>4, <1>7, <1>8, <1>9, <1>10, <1>11

\* A step that records nothing keeps what is remembered of the log.
LEMMA LogUnchanged ==
    ASSUME ProgressInv, NoBlindEdit, UNCHANGED <<log, progress>>,
           outcome' = "Normal" => outcome = "Normal" \/ ~progress.validation_pending,
           pc' \in {"tool", "prompt", "act"} => ~blocks_edit(Current)'
    PROVE  ProgressInv' /\ NoBlindEdit'
<1>1. ProgressInv'
    BY DEF ProgressInv
<1>2. NoBlindEdit'
    BY DEF NoBlindEdit
<1> QED
    BY <1>1, <1>2

LEMMA InitInv == Init => LoopInv
<1> SUFFICES ASSUME Init PROVE LoopInv
    OBVIOUS
<1>1. TypeOK
    <2>1. <<>> \in Seq(Calls) /\ <<>> \in Seq(Entry)
        OBVIOUS
    <2>2. progress \in Progress /\ repeats.count \in Nat
        BY DEF Init, Progress
    <2>3. cancelled \in BOOLEAN /\ clearing \in BOOLEAN /\ cut \in BOOLEAN
        BY DEF Init
    <2> QED
        BY <2>1, <2>2, <2>3 DEF Init, TypeOK, Pc, Outcomes
<1>2. ProgressInv /\ NoBlindEdit
    BY DEF Init, ProgressInv, NoBlindEdit
<1> QED
    BY <1>1, <1>2 DEF Init, LoopInv, PhaseInv, BudgetInv, HistoryInv, PromptnessInv,
        WithinBudget, ResultsReturned, StopsPromptly, CallPc

\* The conjuncts that do not look into the log.
LEMMA QuietStep ==
    ASSUME LoopInv, UNCHANGED <<log, progress>>, TypeOK', PhaseInv', BudgetInv', HistoryInv',
           PromptnessInv', WithinBudget', ResultsReturned', StopsPromptly',
           outcome' = "Normal" => outcome = "Normal" \/ ~progress.validation_pending,
           pc' \in {"tool", "prompt", "act"} => ~blocks_edit(Current)'
    PROVE  LoopInv'
BY LogUnchanged DEF LoopInv

LEMMA TurnTopInv == LoopInv /\ TurnTop => LoopInv'
<1> SUFFICES ASSUME LoopInv, TurnTop PROVE LoopInv'
    OBVIOUS
<1>1. TypeOK'
    BY DEF LoopInv, TurnTop, End, TypeOK, Pc, Limits, Outcomes
<1>2. UNCHANGED <<log, progress>> /\ outcome' # "Normal"
      /\ pc' \notin {"tool", "prompt", "act"}
    BY DEF LoopInv, TurnTop, End, PhaseInv
<1>3. PhaseInv' /\ BudgetInv' /\ HistoryInv' /\ PromptnessInv' /\ WithinBudget'
      /\ ResultsReturned' /\ StopsPromptly'
    BY DEF LoopInv, TurnTop, End, TypeOK, PhaseInv, BudgetInv, HistoryInv, PromptnessInv,
        WithinBudget, ResultsReturned, StopsPromptly, CallPc
<1> QED
    BY <1>1, <1>2, <1>3, QuietStep

LEMMA OpensInv == LoopInv /\ Opens => LoopInv'
<1> SUFFICES ASSUME LoopInv, Opens PROVE LoopInv'
    OBVIOUS
<1>1. TypeOK'
    BY DEF LoopInv, Opens, Initiates, runVars, TypeOK, Pc
<1>2. UNCHANGED <<log, progress>> /\ outcome' = outcome /\ pc' = "stream"
    BY DEF Opens, runVars
<1>3. PhaseInv' /\ BudgetInv' /\ HistoryInv' /\ PromptnessInv' /\ WithinBudget'
      /\ ResultsReturned' /\ StopsPromptly'
    BY DEF LoopInv, Opens, Initiates, runVars, TypeOK, PhaseInv, BudgetInv, HistoryInv,
        PromptnessInv, WithinBudget, ResultsReturned, StopsPromptly, CallPc
<1> QED
    BY <1>1, <1>2, <1>3, QuietStep

LEMMA TurnFailsInv == LoopInv /\ TurnFails => LoopInv'
<1> SUFFICES ASSUME LoopInv, TurnFails PROVE LoopInv'
    OBVIOUS
<1>1. TypeOK'
    BY DEF LoopInv, TurnFails, End, TypeOK, Pc, Outcomes
<1>2. UNCHANGED <<log, progress>> /\ outcome' # "Normal" /\ pc' = "done"
    BY DEF TurnFails, End
<1>3. PhaseInv' /\ BudgetInv' /\ HistoryInv' /\ PromptnessInv' /\ WithinBudget'
      /\ ResultsReturned' /\ StopsPromptly'
    BY DEF LoopInv, TurnFails, End, TypeOK, PhaseInv, BudgetInv, HistoryInv,
        PromptnessInv, WithinBudget, ResultsReturned, StopsPromptly, CallPc
<1> QED
    BY <1>1, <1>2, <1>3, QuietStep

LEMMA TurnCancelledInv == LoopInv /\ TurnCancelled => LoopInv'
<1> SUFFICES ASSUME LoopInv, TurnCancelled PROVE LoopInv'
    OBVIOUS
<1>1. TypeOK'
    BY DEF LoopInv, TurnCancelled, End, TypeOK, Pc, Outcomes
<1>2. UNCHANGED <<log, progress>> /\ outcome' # "Normal" /\ pc' = "done"
    BY DEF TurnCancelled, End
<1>3. PhaseInv' /\ BudgetInv' /\ HistoryInv' /\ PromptnessInv' /\ WithinBudget'
      /\ ResultsReturned' /\ StopsPromptly'
    BY DEF LoopInv, TurnCancelled, End, TypeOK, PhaseInv, BudgetInv, HistoryInv,
        PromptnessInv, WithinBudget, ResultsReturned, StopsPromptly, CallPc
<1> QED
    BY <1>1, <1>2, <1>3, QuietStep

\* The calls of one turn are a sequence of calls.
LEMMA RequestedFacts ==
    ASSUME NEW calls \in Requested
    PROVE  calls \in Seq(Calls) /\ Len(calls) \in Nat /\ (calls = <<>> => Len(calls) = 0)
<1>1. PICK n \in 0..MaxRequested : calls \in [1..n -> Calls]
    BY DEF Requested
<1>2. n \in Nat
    OBVIOUS
<1>3. calls \in Seq(Calls)
    BY <1>1, <1>2
<1> QED
    BY <1>3

LEMMA TurnEndsInv ==
    ASSUME LoopInv, NEW calls \in Requested, TurnEnds(calls) PROVE LoopInv'
<1>1. calls \in Seq(Calls) /\ Len(calls) \in Nat /\ (calls = <<>> => Len(calls) = 0)
    BY RequestedFacts
<1>2. TypeOK'
    <2>1. cut' \in BOOLEAN
        BY DEF LoopInv, TypeOK, TurnEnds
    <2> QED
        BY <1>1, <2>1 DEF LoopInv, TurnEnds, AfterTurn, End, TypeOK, Pc, Limits, Outcomes
<1>3. UNCHANGED <<log, progress>> /\ pc' \in {"land", "done", "next"}
    BY DEF TurnEnds, AfterTurn, End
<1>4. outcome' = "Normal" => ~progress.validation_pending
    BY DEF LoopInv, PhaseInv, TurnEnds, AfterTurn, End
<1>5. /\ pc = "stream" /\ asked = Len(log) /\ asked' = asked + Len(calls)
      /\ Len(log) \in Nat /\ asked \in Nat /\ tool_calls \in Nat
      /\ outcome = "none" /\ prompt = "none"
    BY DEF LoopInv, TurnEnds, AfterTurn, ResultsReturned, TypeOK, PhaseInv
<1>6. PhaseInv'
    BY <1>5 DEF LoopInv, TurnEnds, AfterTurn, End, PhaseInv, CallPc
<1>7. BudgetInv' /\ WithinBudget'
    BY <1>1, <1>5 DEF LoopInv, TurnEnds, AfterTurn, End, BudgetInv, WithinBudget, CallPc
<1>8. HistoryInv' /\ ResultsReturned'
    BY <1>1, <1>5 DEF LoopInv, TurnEnds, AfterTurn, End, HistoryInv, ResultsReturned, CallPc
<1>9. PromptnessInv' /\ StopsPromptly'
    BY <1>3, <1>5 DEF LoopInv, TurnEnds, PromptnessInv, StopsPromptly
<1> QED
    BY <1>2, <1>3, <1>4, <1>6, <1>7, <1>8, <1>9, QuietStep

LEMMA SummaryEndsInv == LoopInv /\ SummaryEnds => LoopInv'
<1> SUFFICES ASSUME LoopInv, SummaryEnds PROVE LoopInv'
    OBVIOUS
<1>1. TypeOK'
    <2>1. cut' \in BOOLEAN
        BY DEF LoopInv, TypeOK, SummaryEnds
    <2> QED
        BY <2>1 DEF LoopInv, SummaryEnds, End, TypeOK, Pc, Outcomes
<1>2. UNCHANGED <<log, progress>> /\ outcome' # "Normal" /\ pc' = "done"
    BY DEF SummaryEnds, End
<1>3. PhaseInv' /\ BudgetInv' /\ HistoryInv' /\ PromptnessInv' /\ WithinBudget'
      /\ ResultsReturned' /\ StopsPromptly'
    BY DEF LoopInv, SummaryEnds, End, TypeOK, PhaseInv, BudgetInv, HistoryInv,
        PromptnessInv, WithinBudget, ResultsReturned, StopsPromptly, CallPc
<1> QED
    BY <1>1, <1>2, <1>3, QuietStep

LEMMA NextCallInv == LoopInv /\ NextCall => LoopInv'
<1> SUFFICES ASSUME LoopInv, NextCall PROVE LoopInv'
    OBVIOUS
<1>1. TypeOK'
    BY DEF LoopInv, NextCall, End, TypeOK, Pc, Outcomes
<1>2. UNCHANGED <<log, progress>> /\ pc' \notin {"tool", "prompt", "act"}
      /\ outcome' # "Normal"
    BY DEF LoopInv, PhaseInv, NextCall, End
<1>3. queue # <<>> => Len(queue) \in Nat \ {0}
    BY TailFacts DEF LoopInv, TypeOK
<1>4. queue = <<>> => Len(queue) = 0
    OBVIOUS
<1>5. PhaseInv' /\ BudgetInv' /\ HistoryInv' /\ PromptnessInv' /\ WithinBudget'
      /\ ResultsReturned' /\ StopsPromptly'
    BY <1>3, <1>4 DEF LoopInv, NextCall, End, TypeOK, PhaseInv, BudgetInv, HistoryInv,
        PromptnessInv, WithinBudget, ResultsReturned, StopsPromptly, CallPc
<1> QED
    BY <1>1, <1>2, <1>5, QuietStep

LEMMA ToolStartsInv == LoopInv /\ ToolStarts => LoopInv'
<1> SUFFICES ASSUME LoopInv, ToolStarts PROVE LoopInv'
    OBVIOUS
<1>1. TypeOK'
    BY DEF LoopInv, ToolStarts, Initiates, TypeOK, Pc
<1>2. UNCHANGED <<log, progress>> /\ outcome' = outcome /\ pc' = "tool"
    BY DEF ToolStarts
<1>3. ~blocks_edit(Current)'
    BY DEF ToolStarts, blocks_edit, Current
<1>4. PhaseInv' /\ BudgetInv' /\ HistoryInv' /\ PromptnessInv' /\ WithinBudget'
      /\ ResultsReturned' /\ StopsPromptly'
    BY DEF LoopInv, ToolStarts, Initiates, TypeOK, PhaseInv, BudgetInv, HistoryInv,
        PromptnessInv, WithinBudget, ResultsReturned, StopsPromptly, CallPc
<1> QED
    BY <1>1, <1>2, <1>3, <1>4, QuietStep

LEMMA ToolAsksInv == LoopInv /\ ToolAsks => LoopInv'
<1> SUFFICES ASSUME LoopInv, ToolAsks PROVE LoopInv'
    OBVIOUS
<1>1. TypeOK'
    BY DEF LoopInv, ToolAsks, runVars, TypeOK, Pc
<1>2. UNCHANGED <<log, progress>> /\ outcome' = outcome /\ pc' = "prompt"
    BY DEF ToolAsks, runVars
<1>3. ~blocks_edit(Current)'
    BY DEF LoopInv, ProgressInv, ToolAsks, runVars, blocks_edit, Current
<1>4. PhaseInv' /\ BudgetInv' /\ HistoryInv' /\ PromptnessInv' /\ WithinBudget'
      /\ ResultsReturned' /\ StopsPromptly'
    BY DEF LoopInv, ToolAsks, runVars, TypeOK, PhaseInv, BudgetInv, HistoryInv,
        PromptnessInv, WithinBudget, ResultsReturned, StopsPromptly, CallPc
<1> QED
    BY <1>1, <1>2, <1>3, <1>4, QuietStep

LEMMA UserAllowsInv == LoopInv /\ UserAllows => LoopInv'
<1> SUFFICES ASSUME LoopInv, UserAllows PROVE LoopInv'
    OBVIOUS
<1>1. TypeOK'
    BY DEF LoopInv, UserAllows, runVars, TypeOK, Pc
<1>2. UNCHANGED <<log, progress>> /\ outcome' = outcome /\ pc = "prompt" /\ pc' = "act"
    BY DEF LoopInv, PhaseInv, UserAllows, runVars
<1>3. ~blocks_edit(Current)'
    BY <1>2 DEF LoopInv, ProgressInv, UserAllows, runVars, blocks_edit, Current
<1>4. PhaseInv' /\ BudgetInv' /\ HistoryInv' /\ PromptnessInv' /\ WithinBudget'
      /\ ResultsReturned' /\ StopsPromptly'
    BY <1>2 DEF LoopInv, UserAllows, runVars, TypeOK, PhaseInv, BudgetInv, HistoryInv,
        PromptnessInv, WithinBudget, ResultsReturned, StopsPromptly, CallPc
<1> QED
    BY <1>1, <1>2, <1>3, <1>4, QuietStep

LEMMA SoftLandInv == LoopInv /\ SoftLand => LoopInv'
<1> SUFFICES ASSUME LoopInv, SoftLand PROVE LoopInv'
    OBVIOUS
<1>1. TypeOK'
    BY DEF LoopInv, SoftLand, End, TypeOK, Pc, Outcomes
<1>2. UNCHANGED <<log, progress>> /\ pc' \in {"done", "open"} /\ outcome' # "Normal"
    BY DEF LoopInv, PhaseInv, SoftLand, End
<1>3. PhaseInv' /\ BudgetInv' /\ HistoryInv' /\ PromptnessInv' /\ WithinBudget'
      /\ ResultsReturned' /\ StopsPromptly'
    BY DEF LoopInv, SoftLand, End, TypeOK, PhaseInv, BudgetInv, HistoryInv,
        PromptnessInv, WithinBudget, ResultsReturned, StopsPromptly, CallPc
<1> QED
    BY <1>1, <1>2, <1>3, QuietStep

\* The run ends without a result for its current call.
LEMMA EndsCancelled ==
    ASSUME LoopInv, End("Cancelled"), prompt' = "none", clearing' \in BOOLEAN,
           UNCHANGED <<turns, tool_calls, queue, asked, log, progress, repeats, failures,
                       limit, cancelled, started, cut, late>>
    PROVE  LoopInv'
<1>1. TypeOK'
    BY DEF LoopInv, End, TypeOK, Pc, Outcomes
<1>2. outcome' # "Normal" /\ pc' = "done"
    BY DEF End
<1>3. PhaseInv' /\ BudgetInv' /\ HistoryInv' /\ PromptnessInv' /\ WithinBudget'
      /\ ResultsReturned' /\ StopsPromptly'
    BY DEF LoopInv, End, TypeOK, PhaseInv, BudgetInv, HistoryInv, PromptnessInv,
        WithinBudget, ResultsReturned, StopsPromptly, CallPc
<1> QED
    BY <1>1, <1>2, <1>3, QuietStep

\* The four places a result comes from.
LEMMA CallRefusedInv == LoopInv /\ CallRefused => LoopInv'
<1> SUFFICES ASSUME LoopInv, CallRefused PROVE LoopInv'
    OBVIOUS
<1>1. PICK o \in Outputs : Record(Current, NotRun(o))
    BY DEF CallRefused
<1>2. Proper(KindOf[Current], NotRun(o)) /\ ~NotRun(o).ran
    BY PlainProper DEF NotRun, Statuses
<1>3. pc \in CallPc /\ prompt' = "none" /\ clearing' \in BOOLEAN
      /\ UNCHANGED <<cancelled, started, cut, late>>
    BY DEF CallRefused, CallPc, LoopInv, PhaseInv, TypeOK
<1> QED
    BY <1>1, <1>2, <1>3, RecordKeepsInv

\* A tool that is executing is not an edit that needs evidence first.
LEMMA ExecutingNotBlocked ==
    ASSUME LoopInv, pc \in {"tool", "prompt", "act"}
    PROVE  KindOf[Current] = "edit" => ~progress.recovery_required
BY DEF LoopInv, ProgressInv, blocks_edit, is_editing_call

LEMMA CurrentKind ==
    ASSUME LoopInv, pc \in CallPc
    PROVE  Current \in Calls /\ KindOf[Current] \in Kinds
BY TailFacts DEF LoopInv, BudgetInv, TypeOK, Current

LEMMA ToolReturnsInv == LoopInv /\ ToolReturns => LoopInv'
<1> SUFFICES ASSUME LoopInv, ToolReturns PROVE LoopInv'
    OBVIOUS
<1>1. PICK r \in Returns(KindOf[Current]) : Record(Current, r)
    BY DEF ToolReturns
<1>2. pc \in CallPc /\ pc \in {"tool", "prompt", "act"} /\ prompt' = "none"
      /\ clearing' \in BOOLEAN /\ UNCHANGED <<cancelled, started, cut, late>>
    BY DEF ToolReturns, CallPc, LoopInv, PhaseInv, TypeOK
<1>3. Proper(KindOf[Current], r)
    BY <1>2, CurrentKind, ReturnsProper
<1> QED
    BY <1>1, <1>2, <1>3, ExecutingNotBlocked, RecordKeepsInv

LEMMA ToolCancelledInv == LoopInv /\ ToolCancelled => LoopInv'
<1> SUFFICES ASSUME LoopInv, ToolCancelled PROVE LoopInv'
    OBVIOUS
<1>1. pc \in CallPc /\ pc \in {"tool", "prompt", "act"} /\ prompt' = "none"
      /\ clearing' \in BOOLEAN /\ UNCHANGED <<cancelled, started, cut, late>>
    BY DEF ToolCancelled, CallPc, LoopInv, PhaseInv, TypeOK
<1>2. CASE KindOf[Current] = "inspect"
    BY <1>1, <1>2, EndsCancelled DEF ToolCancelled
<1>3. CASE KindOf[Current] # "inspect"
    <2>1. PICK o \in Outputs : Record(Current, Plain("Cancelled", TRUE, o, TRUE))
        BY <1>3 DEF ToolCancelled
    <2>2. Proper(KindOf[Current], Plain("Cancelled", TRUE, o, TRUE))
        BY PlainProper DEF Statuses
    <2> QED
        BY <1>1, <2>1, <2>2, ExecutingNotBlocked, RecordKeepsInv
<1> QED
    BY <1>2, <1>3

LEMMA DeniedInv ==
    ASSUME LoopInv, Denied, clearing' \in BOOLEAN, UNCHANGED <<cancelled, started, cut, late>>
    PROVE  LoopInv'
<1>1. pc \in CallPc /\ pc \in {"tool", "prompt", "act"} /\ prompt' = "none"
    BY DEF Denied, CallPc, LoopInv, PhaseInv
<1>2. PICK o \in Outputs : Record(Current, Refused(KindOf[Current], o))
    BY DEF Denied
<1>3. Proper(KindOf[Current], Refused(KindOf[Current], o))
    BY PlainProper DEF Refused, Statuses
<1> QED
    BY <1>1, <1>2, <1>3, ExecutingNotBlocked, RecordKeepsInv

LEMMA ClearPromptsInv == LoopInv /\ ClearPrompts => LoopInv'
<1> SUFFICES ASSUME LoopInv, ClearPrompts PROVE LoopInv'
    OBVIOUS
<1>1. clearing' = FALSE /\ UNCHANGED <<cancelled, started, cut, late>>
    BY DEF ClearPrompts
<1>2. CASE Denied
    BY <1>1, <1>2, DeniedInv
<1>3. CASE prompt = "question" /\ ~Denied
    BY <1>1, <1>3, EndsCancelled DEF ClearPrompts
<1>4. CASE prompt # "question" /\ ~Denied
    <2>1. UNCHANGED <<pc, turns, tool_calls, queue, asked, log, progress, repeats, failures,
                      limit, outcome, prompt>>
        BY <1>4 DEF ClearPrompts
    <2>2. TypeOK'
        BY <1>1, <2>1 DEF LoopInv, TypeOK
    <2>3. pc \in {"tool", "prompt", "act"} => ~blocks_edit(Current)'
        BY <2>1 DEF LoopInv, ProgressInv, blocks_edit, Current
    <2>4. PhaseInv' /\ BudgetInv' /\ HistoryInv' /\ PromptnessInv' /\ WithinBudget'
          /\ ResultsReturned' /\ StopsPromptly'
        BY <1>1, <2>1 DEF LoopInv, PhaseInv, BudgetInv, HistoryInv, PromptnessInv,
            WithinBudget, ResultsReturned, StopsPromptly
    <2> QED
        BY <2>1, <2>2, <2>3, <2>4, QuietStep
<1> QED
    BY <1>2, <1>3, <1>4

\* The token alone changes, or nothing.
LEMMA TokenInv ==
    ASSUME LoopInv, cancelled' \in {TRUE, cancelled}, clearing' \in BOOLEAN,
           UNCHANGED <<pc, runVars, prompt, cut, late>>
    PROVE  LoopInv'
<1>1. TypeOK'
    BY DEF LoopInv, runVars, TypeOK
<1>2. pc \in {"tool", "prompt", "act"} => ~blocks_edit(Current)'
    BY DEF LoopInv, ProgressInv, runVars, blocks_edit, Current
<1>3. PhaseInv' /\ BudgetInv' /\ HistoryInv' /\ PromptnessInv' /\ WithinBudget'
      /\ ResultsReturned' /\ StopsPromptly'
    BY DEF LoopInv, runVars, TypeOK, PhaseInv, BudgetInv, HistoryInv, PromptnessInv,
        WithinBudget, ResultsReturned, StopsPromptly
<1> QED
    BY <1>1, <1>2, <1>3, QuietStep DEF runVars

LEMMA NextInv == LoopInv /\ [Next]_vars => LoopInv'
<1> SUFFICES ASSUME LoopInv, [Next]_vars PROVE LoopInv'
    OBVIOUS
<1>1. CASE RunSteps
    BY <1>1, TurnTopInv, OpensInv, NextCallInv, CallRefusedInv, ToolStartsInv, SoftLandInv
        DEF RunSteps
<1>2. CASE ProviderSteps
    BY <1>2, TurnFailsInv, SummaryEndsInv, TurnEndsInv DEF ProviderSteps
<1>3. CASE TurnCancelled
    BY <1>3, TurnCancelledInv
<1>4. CASE ToolSteps
    BY <1>4, ToolAsksInv, ToolReturnsInv, ToolCancelledInv DEF ToolSteps
<1>5. CASE UserAllows
    BY <1>5, UserAllowsInv
<1>6. CASE UserDenies
    BY <1>6, DeniedInv DEF UserDenies, LoopInv, TypeOK
<1>7. CASE CancelToken
    BY <1>7, TokenInv DEF CancelToken
<1>8. CASE ClearPrompts
    BY <1>8, ClearPromptsInv
<1>9. CASE DebugStop
    BY <1>9, TokenInv DEF DebugStop, LoopInv, TypeOK
<1>10. CASE UNCHANGED vars
    BY <1>10, TokenInv DEF vars, runVars, LoopInv, TypeOK
<1> QED
    BY <1>1, <1>2, <1>3, <1>4, <1>5, <1>6, <1>7, <1>8, <1>9, <1>10 DEF Next, UserSteps

-----------------------------------------------------------------------------
(* The theorems                                                            *)

\* The drive loop keeps its inductive invariant: what TaskProgress, the queue
\* and the counters remember of the log is true of the log.
THEOREM LoopInvariant == Spec => []LoopInv
<1> QED
    BY InitInv, NextInv, PTL DEF Spec

\* Every variable of a run stays in its type.
THEOREM TypeCorrect == Spec => []TypeOK
<1>1. LoopInv => TypeOK
    BY DEF LoopInv
<1> QED
    BY <1>1, LoopInvariant, PTL

\* No run exceeds its turn or tool-call limit, whatever the model requests, in
\* whatever portions.
THEOREM BudgetHolds == Spec => []WithinBudget
<1>1. LoopInv => WithinBudget
    BY DEF LoopInv
<1> QED
    BY <1>1, LoopInvariant, PTL

\* Every tool call of the history the drive loop sends has its Tool message.
THEOREM EveryCallAnswered == Spec => []ResultsReturned
<1>1. LoopInv => ResultsReturned
    BY DEF LoopInv
<1> QED
    BY <1>1, LoopInvariant, PTL

\* A run that ends normally has validated its last recorded change.
THEOREM NormalEndIsValidated == Spec => []NormalIsValidated
<1>1. LoopInv => NormalIsValidated
    BY DEF LoopInv, ProgressInv, NormalIsValidated
<1> QED
    BY <1>1, LoopInvariant, PTL

\* After a failed validation no edit is executed without new evidence.
THEOREM EditsSeeEvidence == Spec => []NoBlindEdit
<1>1. LoopInv => NoBlindEdit
    BY DEF LoopInv
<1> QED
    BY <1>1, LoopInvariant, PTL

\* A cancelled run starts at most the one request or tool it had already
\* checked the token for.
THEOREM CancelIsPrompt == Spec => []StopsPromptly
<1>1. LoopInv => StopsPromptly
    BY DEF LoopInv
<1> QED
    BY <1>1, LoopInvariant, PTL


-----------------------------------------------------------------------------
(* A run that is stuck stops: what the three counters say of the log       *)

\* What the agent shows for a call and its result.
SignatureOf(x) == Signature(x.call, x.result)

\* A result that observe counts as an exploration.
Explored(x) ==
    /\ KindOf[x.call] # "validate" /\ ~x.result.changed
    /\ x.result.status = "Success" /\ x.result.usable

\* The calls of the log that a counter stands for: the last k.
LastOf(k) == Len(log) - k + 1 .. Len(log)

\* same_call_repeat_count is the length of the last series of calls that show
\* the same, and the call before them shows something else.
RepeatInv ==
    /\ repeats.count <= Len(log)
    /\ Len(log) > 0 => repeats.count > 0
    /\ \A n \in LastOf(repeats.count) : SignatureOf(log[n]) = repeats.last
    /\ repeats.count < Len(log) =>
          SignatureOf(log[Len(log) - repeats.count]) # repeats.last

\* unchanged_exploration_results is the length of the last series of
\* explorations with the same output.
ExploreInv ==
    LET k == progress.unchanged_exploration_results
        o == progress.last_exploration_output
    IN  /\ k <= Len(log)
        /\ \A n \in LastOf(k) : Explored(log[n]) /\ log[n].result.out = o
        /\ k < Len(log) /\ Explored(log[Len(log) - k]) =>
              k > 0 /\ log[Len(log) - k].result.out # o

\* consecutive_failures is the length of the last series of calls that did not
\* succeed.
FailureInv ==
    /\ failures <= Len(log)
    /\ \A n \in LastOf(failures) : log[n].result.status # "Success"
    /\ failures < Len(log) => log[Len(log) - failures].result.status = "Success"

\* A run that goes on has reached none of the three limits.
LimitInv ==
    /\ limit = "none" =>
          /\ repeats.count < MAX_REPEATS
          /\ progress.unchanged_exploration_results < MAX_UNCHANGED_EXPLORATION_RESULTS
          /\ max_consecutive_failures > 0 => failures < max_consecutive_failures
    /\ limit = "RepeatedToolCall" => repeats.count >= MAX_REPEATS

StuckInv == RepeatInv /\ ExploreInv /\ FailureInv /\ LimitInv /\ StopsWhenStuck

\* Looking the same is having the same signature.
LEMMA SameSignature ==
    ASSUME log \in Seq(Entry), NEW n \in 1..Len(log), NEW m \in 1..Len(log)
    PROVE  LooksTheSame(n, m) <=> SignatureOf(log[n]) = SignatureOf(log[m])
BY DEF LooksTheSame, SignatureOf, Signature

\* SameEvidence is about two explorations with the same output.
LEMMA SameOutput ==
    ASSUME NEW n, NEW m
    PROVE  SameEvidence(n, m) <=> Explored(log[n]) /\ Explored(log[m])
                                  /\ log[n].result.out = log[m].result.out
BY DEF SameEvidence, Explored

\* observe counts an exploration and forgets the series at anything else.
LEMMA ObserveCounts ==
    ASSUME NEW p \in Progress, NEW c \in Calls, NEW r, Proper(KindOf[c], r)
    PROVE  LET q == observe(p, c, r)
               x == [call |-> c, result |-> r]
           IN  /\ ~Explored(x) => q.unchanged_exploration_results = 0
               /\ Explored(x) =>
                     /\ q.last_exploration_output = r.out
                     /\ q.unchanged_exploration_results =
                           IF p.last_exploration_output = r.out
                           THEN p.unchanged_exploration_results + 1 ELSE 1
<1> DEFINE x == [call |-> c, result |-> r]
<1>1. /\ Explored(x) <=> /\ KindOf[c] # "validate" /\ ~r.changed
                         /\ r.status = "Success" /\ r.usable
      /\ r.changed => r.status = "Success"
      /\ is_validation_call(c) <=> KindOf[c] = "validate"
    BY DEF Explored, Proper, is_validation_call
<1>2. ASSUME NEW s \in Progress
      PROVE  reset_exploration_progress(s).unchanged_exploration_results = 0
    BY DEF reset_exploration_progress, Progress
<1>3. CASE r.changed
    <2>1. [p EXCEPT !.validation_pending = TRUE] \in Progress
        BY DEF Progress
    <2> QED
        BY <1>1, <1>2, <1>3, <2>1 DEF observe
<1>4. CASE ~r.changed /\ KindOf[c] = "validate"
    <2> DEFINE s == [p EXCEPT !.validation_pending = @ /\ ~validation_succeeded(r),
                              !.recovery_required = ~validation_succeeded(r)]
    <2>1. s \in Progress
        BY DEF Progress, validation_succeeded, Proper, ToolResult
    <2>2. observe(p, c, r) = reset_exploration_progress(s)
        BY <1>1, <1>4 DEF observe
    <2> QED
        BY <1>1, <1>2, <1>4, <2>1, <2>2
<1>5. CASE ~r.changed /\ KindOf[c] # "validate"
    <2> DEFINE s == [p EXCEPT !.recovery_required = @ /\ ~is_recovery_evidence(c, r)]
    <2>1. /\ s \in Progress
          /\ s.last_exploration_output = p.last_exploration_output
          /\ s.unchanged_exploration_results = p.unchanged_exploration_results
        BY DEF Progress, is_recovery_evidence, Proper, ToolResult
    <2>2. observe(p, c, r) = observe_exploration_result(s, r)
        BY <1>1, <1>5 DEF observe
    <2>3. CASE Explored(x)
        <3> DEFINE n == IF s.last_exploration_output = r.out
                        THEN s.unchanged_exploration_results + 1 ELSE 1
        <3>1. observe(p, c, r) = [s EXCEPT !.last_exploration_output = r.out,
                                           !.unchanged_exploration_results = n]
            BY <1>1, <2>2, <2>3 DEF observe_exploration_result
        <3>2. n = IF p.last_exploration_output = r.out
                  THEN p.unchanged_exploration_results + 1 ELSE 1
            BY <2>1
        <3> HIDE DEF n, s
        <3>3. /\ observe(p, c, r).last_exploration_output = r.out
              /\ observe(p, c, r).unchanged_exploration_results = n
            BY <2>1, <3>1 DEF Progress
        <3> QED
            BY <2>3, <3>2, <3>3
    <2>4. CASE ~Explored(x)
        BY <1>1, <1>2, <1>5, <2>1, <2>2, <2>4 DEF observe_exploration_result
    <2> QED
        BY <2>3, <2>4
<1> QED
    BY <1>1, <1>3, <1>4, <1>5

\* A step either records a result for the current call, or leaves the log and
\* the counters alone; a limit it then sets is another one than RepeatedToolCall.
Quiet ==
    /\ UNCHANGED <<log, repeats, progress, failures>>
    /\ limit' = limit \/ limit' \notin {"none", "RepeatedToolCall"}

Records ==
    /\ pc \in CallPc
    /\ \E r : Proper(KindOf[Current], r) /\ Record(Current, r)

LEMMA DeniedRecords == LoopInv /\ Denied => Records
<1> SUFFICES ASSUME LoopInv, Denied PROVE Records
    OBVIOUS
<1>1. PICK o \in Outputs : Record(Current, Refused(KindOf[Current], o))
    BY DEF Denied
<1>2. Proper(KindOf[Current], Refused(KindOf[Current], o))
    BY PlainProper DEF Refused, Statuses
<1>3. pc \in CallPc
    BY DEF Denied, CallPc, LoopInv, PhaseInv
<1> QED
    BY <1>1, <1>2, <1>3 DEF Records

LEMMA CallRefusedRecords == LoopInv /\ CallRefused => Records
<1> SUFFICES ASSUME LoopInv, CallRefused PROVE Records
    OBVIOUS
<1>1. PICK o \in Outputs : Record(Current, NotRun(o))
    BY DEF CallRefused
<1>2. Proper(KindOf[Current], NotRun(o))
    BY PlainProper DEF NotRun, Statuses
<1>3. pc \in CallPc
    BY DEF CallRefused, CallPc
<1> QED
    BY <1>1, <1>2, <1>3 DEF Records

LEMMA ToolReturnsRecords == LoopInv /\ ToolReturns => Records
<1> SUFFICES ASSUME LoopInv, ToolReturns PROVE Records
    OBVIOUS
<1>1. PICK r \in Returns(KindOf[Current]) : Record(Current, r)
    BY DEF ToolReturns
<1>2. pc \in CallPc
    BY DEF ToolReturns, CallPc
<1>3. Proper(KindOf[Current], r)
    BY <1>2, CurrentKind, ReturnsProper
<1> QED
    BY <1>1, <1>2, <1>3 DEF Records

LEMMA ToolCancelledRecords == ToolCancelled => Quiet \/ Records
<1> SUFFICES ASSUME ToolCancelled, ~Quiet PROVE Records
    OBVIOUS
<1>1. PICK o \in Outputs : Record(Current, Plain("Cancelled", TRUE, o, TRUE))
    BY DEF ToolCancelled, Quiet
<1>2. Proper(KindOf[Current], Plain("Cancelled", TRUE, o, TRUE))
    BY PlainProper DEF Statuses
<1>3. pc \in CallPc
    BY DEF ToolCancelled, CallPc
<1> QED
    BY <1>1, <1>2, <1>3 DEF Records

LEMMA TurnIsQuiet ==
    /\ TurnTop => Quiet
    /\ Opens => Quiet
    /\ TurnFails => Quiet
    /\ TurnCancelled => Quiet
    /\ SummaryEnds => Quiet
    /\ \A calls \in Requested : TurnEnds(calls) => Quiet
<1>1. TurnTop => Quiet
    BY DEF TurnTop, Quiet
<1>2. Opens => Quiet
    BY DEF Opens, runVars, Quiet
<1>3. (TurnFails => Quiet) /\ (TurnCancelled => Quiet) /\ (SummaryEnds => Quiet)
    BY DEF TurnFails, TurnCancelled, SummaryEnds, Quiet
<1>4. \A calls \in Requested : TurnEnds(calls) => Quiet
    BY DEF TurnEnds, AfterTurn, Quiet
<1> QED
    BY <1>1, <1>2, <1>3, <1>4

LEMMA CallsAreQuiet ==
    /\ NextCall => Quiet
    /\ ToolStarts => Quiet
    /\ SoftLand => Quiet
    /\ ToolAsks => Quiet
    /\ UserAllows => Quiet
    /\ CancelToken => Quiet
    /\ DebugStop => Quiet
    /\ ClearPrompts => Quiet \/ Denied
    /\ UNCHANGED vars => Quiet
<1>1. (NextCall => Quiet) /\ (ToolStarts => Quiet) /\ (SoftLand => Quiet)
    BY DEF NextCall, ToolStarts, SoftLand, Quiet
<1>2. (ToolAsks => Quiet) /\ (UserAllows => Quiet) /\ (CancelToken => Quiet)
      /\ (DebugStop => Quiet)
    BY DEF ToolAsks, UserAllows, CancelToken, DebugStop, runVars, Quiet
<1>3. ClearPrompts => Quiet \/ Denied
    BY DEF ClearPrompts, Quiet
<1>4. UNCHANGED vars => Quiet
    BY DEF vars, Quiet
<1> QED
    BY <1>1, <1>2, <1>3, <1>4

LEMMA QuietOrRecords == LoopInv /\ [Next]_vars => Quiet \/ Records
BY TurnIsQuiet, CallsAreQuiet, DeniedRecords, CallRefusedRecords, ToolReturnsRecords,
   ToolCancelledRecords
   DEF Next, RunSteps, ProviderSteps, ToolSteps, UserSteps, UserDenies

LEMMA QuietKeepsStuckInv == StuckInv /\ Quiet => StuckInv'
<1> SUFFICES ASSUME StuckInv, Quiet PROVE StuckInv'
    OBVIOUS
<1>1. RepeatInv' /\ ExploreInv' /\ FailureInv'
    BY DEF StuckInv, Quiet, RepeatInv, ExploreInv, FailureInv, LastOf
<1>2. LimitInv'
    BY DEF StuckInv, Quiet, LimitInv
<1>3. StopsWhenStuck'
    BY DEF StuckInv, Quiet, StopsWhenStuck, LooksTheSame, SameEvidence
<1> QED
    BY <1>1, <1>2, <1>3 DEF StuckInv

\* The counters after a recorded call.
LEMMA RecordRepeats ==
    ASSUME TypeOK, RepeatInv, NEW x \in Entry, log' = Append(log, x),
           repeats' = repeats_after(x.call, x.result)
    PROVE  RepeatInv'
<1> DEFINE N == Len(log)
<1> DEFINE k == repeats.count
<1>1. /\ Len(log') = N + 1 /\ N \in Nat /\ log'[N + 1] = x
      /\ \A n \in 1..N : log'[n] = log[n]
    BY AppendFacts DEF TypeOK
<1>2. k \in Nat /\ k <= N /\ (N > 0 => k > 0)
    BY DEF TypeOK, RepeatInv
<1>3. /\ repeats'.last = SignatureOf(x)
      /\ repeats'.count = IF repeats.last = SignatureOf(x) THEN k + 1 ELSE 1
    BY DEF repeats_after, SignatureOf
<1>4. /\ \A n \in N - k + 1 .. N : SignatureOf(log[n]) = repeats.last
      /\ k < N => SignatureOf(log[N - k]) # repeats.last
    BY DEF RepeatInv, LastOf
<1>5. CASE repeats.last = SignatureOf(x)
    <2>1. repeats'.count = k + 1
        BY <1>3, <1>5
    <2>2. \A n \in N - k + 1 .. N + 1 : SignatureOf(log'[n]) = SignatureOf(x)
        BY <1>1, <1>2, <1>4, <1>5
    <2>3. k + 1 < N + 1 => SignatureOf(log'[N - k]) # SignatureOf(x)
        BY <1>1, <1>2, <1>4, <1>5
    <2> HIDE DEF N, k
    <2>4. N + 1 - (k + 1) = N - k
        BY <1>1, <1>2
    <2> QED
        BY <1>1, <1>2, <1>3, <2>1, <2>2, <2>3, <2>4 DEF RepeatInv, LastOf
<1>6. CASE repeats.last # SignatureOf(x)
    <2>1. repeats'.count = 1
        BY <1>3, <1>6
    <2>2. N > 0 => SignatureOf(log'[N]) # SignatureOf(x)
        <3>1. N > 0 => N \in 1..N /\ N \in N - k + 1 .. N
            BY <1>1, <1>2
        <3> QED
            BY <1>1, <1>4, <1>6, <3>1
    <2> HIDE DEF N, k
    <2> QED
        BY <1>1, <1>2, <1>3, <2>1, <2>2 DEF RepeatInv, LastOf
<1> QED
    BY <1>5, <1>6

LEMMA RecordExplores ==
    ASSUME TypeOK, ExploreInv, NEW x \in Entry, Proper(KindOf[x.call], x.result),
           log' = Append(log, x), progress' = observe(progress, x.call, x.result)
    PROVE  ExploreInv'
<1> DEFINE N == Len(log)
<1> DEFINE k == progress.unchanged_exploration_results
<1> DEFINE o == progress.last_exploration_output
<1> DEFINE m == progress'.unchanged_exploration_results
<1>1. /\ Len(log') = N + 1 /\ N \in Nat /\ log'[N + 1] = x
      /\ \A n \in 1..N : log'[n] = log[n]
    BY AppendFacts DEF TypeOK
<1>2. k \in Nat /\ k <= N
    BY DEF TypeOK, ExploreInv, Progress
<1>3. /\ ~Explored(x) => m = 0
      /\ Explored(x) => /\ progress'.last_exploration_output = x.result.out
                        /\ m = IF o = x.result.out THEN k + 1 ELSE 1
    <2>1. x.call \in Calls /\ x = [call |-> x.call, result |-> x.result]
        BY DEF Entry
    <2> QED
        BY <2>1, ObserveCounts DEF TypeOK
<1>4. /\ \A n \in N - k + 1 .. N : Explored(log[n]) /\ log[n].result.out = o
      /\ k < N /\ Explored(log[N - k]) => k > 0 /\ log[N - k].result.out # o
    BY DEF ExploreInv, LastOf
<1>5. CASE ~Explored(x)
    BY <1>1, <1>3, <1>5 DEF ExploreInv, LastOf
<1>6. CASE Explored(x) /\ o = x.result.out
    <2>1. m = k + 1
        BY <1>3, <1>6
    <2>2. \A n \in N - k + 1 .. N + 1 : Explored(log'[n]) /\ log'[n].result.out = x.result.out
        BY <1>1, <1>2, <1>4, <1>6
    <2>3. k + 1 < N + 1 /\ Explored(log'[N - k]) => log'[N - k].result.out # x.result.out
        BY <1>1, <1>2, <1>4, <1>6
    <2> HIDE DEF N, k, o
    <2>4. N + 1 - (k + 1) = N - k
        BY <1>1, <1>2
    <2> QED
        BY <1>1, <1>2, <1>3, <1>6, <2>1, <2>2, <2>3, <2>4 DEF ExploreInv, LastOf
<1>7. CASE Explored(x) /\ o # x.result.out
    <2>1. m = 1
        BY <1>3, <1>7
    <2>2. N > 0 /\ Explored(log'[N]) => log'[N].result.out # x.result.out
        BY <1>1, <1>2, <1>4, <1>7
    <2> HIDE DEF N, k, o
    <2> QED
        BY <1>1, <1>2, <1>3, <1>7, <2>1, <2>2 DEF ExploreInv, LastOf
<1> QED
    BY <1>5, <1>6, <1>7

LEMMA RecordFailures ==
    ASSUME TypeOK, FailureInv, NEW x \in Entry, log' = Append(log, x),
           failures' = failures_after(x.result)
    PROVE  FailureInv'
<1> DEFINE N == Len(log)
<1>1. /\ Len(log') = N + 1 /\ N \in Nat /\ log'[N + 1] = x
      /\ \A n \in 1..N : log'[n] = log[n]
    BY AppendFacts DEF TypeOK
<1>2. failures \in Nat /\ failures <= N
    BY DEF TypeOK, FailureInv
<1>3. failures' = IF x.result.status = "Success" THEN 0 ELSE failures + 1
    BY DEF failures_after
<1>4. /\ \A n \in N - failures + 1 .. N : log[n].result.status # "Success"
      /\ failures < N => log[N - failures].result.status = "Success"
    BY DEF FailureInv, LastOf
<1>5. CASE x.result.status = "Success"
    BY <1>1, <1>3, <1>5 DEF FailureInv, LastOf
<1>6. CASE x.result.status # "Success"
    <2>1. \A n \in N - failures + 1 .. N + 1 : log'[n].result.status # "Success"
        BY <1>1, <1>2, <1>4, <1>6
    <2>2. failures + 1 < N + 1 => log'[N - failures].result.status = "Success"
        BY <1>1, <1>2, <1>4
    <2> HIDE DEF N
    <2>3. N + 1 - (failures + 1) = N - failures
        BY <1>1, <1>2
    <2> QED
        BY <1>1, <1>2, <1>3, <1>6, <2>1, <2>2, <2>3 DEF FailureInv, LastOf
<1> QED
    BY <1>5, <1>6

\* The counters below their limits, no series of the log so far is complete.
LEMMA RecordStopsWhenStuck ==
    ASSUME TypeOK, StuckInv, limit = "none", NEW x \in Entry, log' = Append(log, x)
    PROVE  StopsWhenStuck'
<1> DEFINE N == Len(log)
<1> DEFINE max == max_consecutive_failures
<1>1. /\ log' \in Seq(Entry) /\ Len(log') = N + 1 /\ N \in Nat /\ log'[N + 1] = x
      /\ \A n \in 1..N : log'[n] = log[n]
    BY AppendFacts DEF TypeOK
<1>2. max \in Nat /\ log \in Seq(Entry) /\ repeats.count \in Nat /\ failures \in Nat
      /\ progress.unchanged_exploration_results \in Nat
    BY DEF TypeOK, Progress
<1>3. ASSUME NEW n \in 1 .. N - 2
      PROVE  ~(LooksTheSame(n, n + 1) /\ LooksTheSame(n + 1, n + 2))
    <2>1. CASE n \in 1 .. N - 3
        BY <2>1 DEF StuckInv, StopsWhenStuck
    <2>2. CASE n = N - 2
        <3> DEFINE k == repeats.count
        <3>0. k \in Nat /\ k < 3 /\ (N > 0 => k > 0) /\ N >= 3
            BY <1>1, <1>2, <2>2 DEF StuckInv, RepeatInv, LimitInv, MAX_REPEATS
        <3>1. /\ \A m \in N - k + 1 .. N : SignatureOf(log[m]) = repeats.last
              /\ k < N => SignatureOf(log[N - k]) # repeats.last
            BY DEF StuckInv, RepeatInv, LastOf
        <3>2. k \in {1, 2} /\ k < N /\ N \in N - k + 1 .. N
            BY <1>1, <3>0
        <3>3. /\ LooksTheSame(n, n + 1) <=> SignatureOf(log[N - 2]) = SignatureOf(log[N - 1])
              /\ LooksTheSame(n + 1, n + 2) <=> SignatureOf(log[N - 1]) = SignatureOf(log[N])
            <4>1. n \in 1..N /\ n + 1 \in 1..N /\ n + 2 \in 1..N
                  /\ n + 1 = N - 1 /\ n + 2 = N
                BY <1>1, <2>2
            <4>2. /\ LooksTheSame(n, n + 1) <=> SignatureOf(log[n]) = SignatureOf(log[n + 1])
                  /\ LooksTheSame(n + 1, n + 2)
                        <=> SignatureOf(log[n + 1]) = SignatureOf(log[n + 2])
                BY <1>2, <4>1, SameSignature
            <4> QED
                BY <2>2, <4>1, <4>2
        <3> HIDE DEF N, k
        <3> QED
            BY <3>1, <3>2, <3>3
    <2> QED
        BY <1>1, <2>1, <2>2
<1>4. ASSUME NEW n \in 1 .. N - 2
      PROVE  ~(SameEvidence(n, n + 1) /\ SameEvidence(n + 1, n + 2))
    <2>1. CASE n \in 1 .. N - 3
        BY <2>1 DEF StuckInv, StopsWhenStuck
    <2>2. CASE n = N - 2
        <3> DEFINE k == progress.unchanged_exploration_results
        <3> DEFINE o == progress.last_exploration_output
        <3>1. k \in {0, 1, 2} /\ k < N /\ N \in LastOf(1) /\ N \in LastOf(2)
            BY <1>1, <1>2, <2>2
               DEF StuckInv, ExploreInv, LimitInv, MAX_UNCHANGED_EXPLORATION_RESULTS, LastOf
        <3>2. /\ k > 0 => log[N].result.out = o
              /\ Explored(log[N - k]) => k > 0 /\ log[N - k].result.out # o
            BY <3>1 DEF StuckInv, ExploreInv
        <3>3. /\ SameEvidence(n, n + 1) <=>
                    Explored(log[N - 2]) /\ Explored(log[N - 1])
                    /\ log[N - 2].result.out = log[N - 1].result.out
              /\ SameEvidence(n + 1, n + 2) <=>
                    Explored(log[N - 1]) /\ Explored(log[N])
                    /\ log[N - 1].result.out = log[N].result.out
            <4>1. n + 1 = N - 1 /\ n + 2 = N
                BY <1>1, <2>2
            <4> QED
                BY <2>2, <4>1, SameOutput
        <3>4. N - 0 = N
            BY <1>1
        <3> QED
            BY <3>1, <3>2, <3>3, <3>4
    <2> QED
        BY <1>1, <2>1, <2>2
<1>5. ASSUME max > 0, NEW n \in 1 .. N + 1 - max
      PROVE  \E k \in n .. n + max - 1 : log[k].result.status = "Success"
    <2>1. CASE n \in 1 .. N - max
        BY <1>5, <2>1 DEF StuckInv, StopsWhenStuck
    <2>2. CASE n = N + 1 - max
        <3>1. failures < max /\ failures < N
            BY <1>1, <1>2, <1>5, <2>2 DEF StuckInv, LimitInv
        <3>2. log[N - failures].result.status = "Success"
            BY <3>1 DEF StuckInv, FailureInv
        <3>3. N - failures \in n .. n + max - 1
            BY <1>1, <1>2, <2>2, <3>1
        <3> QED
            BY <3>2, <3>3
    <2> QED
        BY <1>1, <1>2, <2>1, <2>2
<1>6. ASSUME NEW n \in 1 .. N + 1 - 3
      PROVE  /\ ~(LooksTheSame(n, n + 1) /\ LooksTheSame(n + 1, n + 2))'
             /\ ~(SameEvidence(n, n + 1) /\ SameEvidence(n + 1, n + 2))'
    <2>1. n \in 1 .. N - 2 /\ n \in 1..N /\ n + 1 \in 1..N /\ n + 2 \in 1..N
        BY <1>1
    <2>2. log'[n] = log[n] /\ log'[n + 1] = log[n + 1] /\ log'[n + 2] = log[n + 2]
        BY <1>1, <2>1
    <2>3. /\ LooksTheSame(n, n + 1)' <=> LooksTheSame(n, n + 1)
          /\ LooksTheSame(n + 1, n + 2)' <=> LooksTheSame(n + 1, n + 2)
        BY <2>2 DEF LooksTheSame
    <2>4. /\ SameEvidence(n, n + 1)' <=> SameEvidence(n, n + 1)
          /\ SameEvidence(n + 1, n + 2)' <=> SameEvidence(n + 1, n + 2)
        BY <2>2 DEF SameEvidence
    <2> QED
        BY <1>3, <1>4, <2>1, <2>3, <2>4
<1>7. ASSUME max > 0, NEW n \in 1 .. N + 1 - max
      PROVE  \E k \in n .. n + max - 1 : log'[k].result.status = "Success"
    <2>1. PICK k \in n .. n + max - 1 : log[k].result.status = "Success"
        BY <1>5, <1>7
    <2>2. k \in 1..N
        BY <1>1, <1>2, <1>7
    <2> QED
        BY <1>1, <2>1, <2>2
<1> HIDE DEF N, max
<1>8. Len(log') - 3 = N + 1 - 3 /\ Len(log') - max = N + 1 - max
    BY <1>1, <1>2
<1>9. \A n \in 1..Len(log') - 3 :
         /\ ~(LooksTheSame(n, n + 1) /\ LooksTheSame(n + 1, n + 2))'
         /\ ~(SameEvidence(n, n + 1) /\ SameEvidence(n + 1, n + 2))'
    BY <1>6, <1>8
<1>10. max > 0 => \A n \in 1..Len(log') - max :
                     \E k \in n .. n + max - 1 : log'[k].result.status = "Success"
    BY <1>7, <1>8
<1> QED
    BY <1>9, <1>10 DEF StopsWhenStuck, max

LEMMA RecordsKeepStuckInv == LoopInv /\ StuckInv /\ Records => StuckInv'
<1> SUFFICES ASSUME LoopInv, StuckInv, Records PROVE StuckInv'
    OBVIOUS
<1>1. PICK r : Proper(KindOf[Current], r) /\ Record(Current, r)
    BY DEF Records
<1> DEFINE x == [call |-> Current, result |-> r]
<1>2. x \in Entry /\ x.call = Current /\ x.result = r
    BY <1>1, CurrentKind DEF Records, Entry, Proper
<1>3. /\ log' = Append(log, x)
      /\ repeats' = repeats_after(x.call, x.result)
      /\ failures' = failures_after(x.result)
      /\ progress' = observe(progress, x.call, x.result)
      /\ limit' = Exhausted(repeats', progress', failures')
    BY <1>1 DEF Record
<1>4. TypeOK /\ limit = "none" /\ Proper(KindOf[x.call], x.result)
    BY <1>1, <1>2 DEF LoopInv, PhaseInv, Records
<1> HIDE DEF x
<1>5. repeats'.count \in Nat /\ failures' \in Nat
      /\ progress'.unchanged_exploration_results \in Nat
    <2>1. progress' \in Progress
        BY <1>2, <1>3, <1>4, ObserveFacts DEF TypeOK, Entry
    <2> QED
        BY <1>3, <1>4, <2>1, CounterFacts DEF Progress
<1>6. LimitInv'
    BY <1>3, <1>5 DEF LimitInv, Exhausted, MAX_REPEATS, MAX_UNCHANGED_EXPLORATION_RESULTS
<1> QED
    BY <1>2, <1>3, <1>4, <1>6, RecordRepeats, RecordExplores, RecordFailures,
       RecordStopsWhenStuck DEF StuckInv

LEMMA InitStuckInv == Init => StuckInv
<1> SUFFICES ASSUME Init PROVE StuckInv
    OBVIOUS
<1>1. /\ Len(log) = 0 /\ repeats.count = 0 /\ failures = 0 /\ limit = "none"
      /\ progress.unchanged_exploration_results = 0
    BY DEF Init
<1>2. RepeatInv /\ ExploreInv /\ FailureInv
    BY <1>1 DEF RepeatInv, ExploreInv, FailureInv, LastOf
<1>3. LimitInv /\ StopsWhenStuck
    BY <1>1 DEF LimitInv, StopsWhenStuck, MAX_REPEATS, MAX_UNCHANGED_EXPLORATION_RESULTS
<1> QED
    BY <1>2, <1>3 DEF StuckInv

LEMMA NextStuckInv == LoopInv /\ StuckInv /\ [Next]_vars => StuckInv'
BY QuietOrRecords, QuietKeepsStuckInv, RecordsKeepStuckInv

\* Every reachable state knows its series: the counters say of the log what
\* StuckInv states.
THEOREM StuckInvariant == Spec => []StuckInv
<1> QED
    BY LoopInvariant, InitStuckInv, NextStuckInv, PTL DEF Spec

\* Three results in a row that show the same, three explorations in a row with
\* the same output, and as many failures in a row as the limit end the run.
THEOREM StuckRunsStop == Spec => []StopsWhenStuck
<1>1. StuckInv => StopsWhenStuck
    BY DEF StuckInv
<1> QED
    BY <1>1, StuckInvariant, PTL

\* A run is wrapped up as RepeatedToolCall only when its last three results
\* show the same.
THEOREM NoFalseRepeats == Spec => []RepeatsAreReal
<1>1. LoopInv /\ StuckInv => RepeatsAreReal
    <2> SUFFICES ASSUME LoopInv, StuckInv, limit = "RepeatedToolCall"
                 PROVE  /\ Len(log) >= MAX_REPEATS
                        /\ \A k \in Len(log) - 2 .. Len(log) - 1 : LooksTheSame(k, k + 1)
        BY DEF RepeatsAreReal
    <2>1. log \in Seq(Entry) /\ repeats.count \in Nat /\ Len(log) \in Nat
        BY DEF LoopInv, TypeOK
    <2>2. repeats.count >= 3 /\ repeats.count <= Len(log)
        BY DEF StuckInv, LimitInv, RepeatInv, MAX_REPEATS
    <2>3. ASSUME NEW k \in Len(log) - 2 .. Len(log) - 1
          PROVE  LooksTheSame(k, k + 1)
        <3>1. /\ k \in 1..Len(log) /\ k + 1 \in 1..Len(log)
              /\ k \in LastOf(repeats.count) /\ k + 1 \in LastOf(repeats.count)
            BY <2>1, <2>2 DEF LastOf
        <3>2. SignatureOf(log[k]) = SignatureOf(log[k + 1])
            BY <3>1 DEF StuckInv, RepeatInv
        <3> QED
            BY <2>1, <3>1, <3>2, SameSignature
    <2> QED
        BY <2>1, <2>2, <2>3 DEF MAX_REPEATS
<1> QED
    BY <1>1, LoopInvariant, StuckInvariant, PTL

=============================================================================
