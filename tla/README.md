# gocode in TLA+

TLA+ modules of gocode's concurrent and stateful parts, the TLC configurations
that check them on small instances, and proofs, checked by the TLA+ proof
system, of what matters most for instances of any size. Paths below are
relative to the repository; `main.rs` is `crates/gocode/src/main.rs`, `tui` is
`crates/gocode-tui/src/lib.rs`.

## 1. The system

gocode is a coding assistant for the terminal. One process runs a terminal
interface, a command loop (`main.rs`), agent runs that talk to a model provider
and execute tools, and background subagents with runs of their own. They
communicate over bounded channels (`AppCommand` to the command loop, `AppEvent`
to the interface, `AgentEvent` from a run to its bridge), through shared maps
under tokio mutexes, through `CancellationToken`s and one-slot prompt senders,
and through files under the state directory.

| Component | State | Operations | Hard to get right |
|---|---|---|---|
| **Subagent engine** `gocode-agent/src/subagent_manager.rs`, `agent_spawn_tool.rs`, `gocode-core/src/subagent.rs` | map of records, pending messages, tokens, semaphore, claimed worktrees; one JSON record per subagent | spawn (by the user or by a subagent), worker, send_message, stop, cleanup, recover_interrupted | record kept three times (map, worker's copy, disk); futures dropped at an await; crash at any step; permits held while waiting for a child |
| **Agent loop** `gocode-agent/src/agent.rs`, `progress.rs`, `limits.rs` | history, counters, TaskProgress, last call signature | turn, stream, tool call, final summary, cancellation | four budgets tested at different points; obligations over many calls; cancellation between any two steps |
| **Undo history** `gocode-tools/src/undo.rs` and its users in `agent.rs`, `main.rs` | two stacks per worktree, in memory and on disk; the files | snapshot, commit, undo, redo, forced or not | files have other writers; runs overlap; a file that is not text reads as none; check and writes are apart; partial application; exits between files and history |
| **Conversation and sessions** `main.rs`, `gocode-core/src/session.rs` | session, history, active token, compaction, session files | submit, finish, compact, new, resume, fork, clear, debug | a run works on a snapshot of the history and replaces it when it ends; the session may change under it |
| **Terminal interface** `tui` | activity, one queued prompt, screens, popups, cards, the prompt's text | key and event reducer | its idea of the world against the command loop's; who gets a key; indices kept from an earlier list |
| **Channels** `tui`, `main.rs` | two bounded queues | send, drain, reply | each side is the only one to empty the other's queue |
| **Permissions and decisions** `gocode-tools/src/permissions.rs`, `main.rs` | mode, allow-always set, prompt slots | authorize, ask, answer | one shared slot against cancellations, late answers and a second asker |
| **Process runner** `gocode-tools/src/process.rs`, `run_command.rs` | child, pipes, deadline, bounded output | run_process | timeout, cancel and end of file race; descendants hold the pipes |
| **Patch engine** `gocode-tools/src/patch.rs` | files | sections, locate hunks, apply | several files one after the other; line arithmetic; ambiguity |
| **Worktrees and merging** `gocode-tools/src/worktree.rs`, `main.rs` | git's worktrees, a merge in progress, the conflict popup | create, switch, remove, diff, merge, resolve, abort | several git commands, each may fail; a popup that outlives its merge |
| **Provider client** `gocode-provider-nvidia/src/lib.rs`, `gocode-agent/src/toolcalls.rs` | byte buffer, event channel, partial calls | stream events, assemble calls | chunk borders, limits, a stream that ends early |
| **MCP client** `gocode-mcp/src` | pending requests by id, reader task, tokens | connect, call, disconnect, refresh | a request registered as the reader ends; the command loop waits for a handshake |
| **LSP client** `gocode-lsp/src` | a client per language, document versions, cached diagnostics | start, notify, query | a version taken before the send; paths of two kinds |
| **Updater** `gocode-updater/src` | installed program, backup, download | check, download, verify, replace, roll back, restart | a crash between two renames; a helper that retries |
| **Settings** `gocode-core/src/lib.rs`, `preferences.rs`, `mcp_config.rs` | config, preferences, MCP and skill files; their copy in memory | boot, save one setting | whole files written from memory; kills between steps |
| **Prompt assembly, credentials, scripts** | files, the platform's keyring | load, format | sequential, no protocol; not modelled |

Correctness, component by component: a subagent's record reaches exactly one
final status, on disk as in memory, whatever interrupts it, and no more run at
once than allowed; an agent run ends, within its budgets, answers each call,
validates what it changed and, once cancelled, starts at most the call it had
already checked for; undo and redo restore the text that the agent replaced and,
unforced, overwrite nobody else's; a conversation keeps its turns in order and
writes no other session's file; a prompt that waits is sent; what the user
approves is what runs, and what is on the screen can be closed; each request
gets its own answer or an error; a stream or an output arrives as it was
written; what is told as merged is merged; an update or a save leaves a working
program.

## 2. Modules

| Module | Models | Code |
|---|---|---|
| `Lifecycle` | abstract specification: the status of each subagent and the transitions its documentation allows | `gocode-core/src/subagent.rs` |
| `Subagents` | the engine, with the `/agent` commands and start-up recovery; implements `Lifecycle` | `subagent_manager.rs`, `agent_spawn_tool.rs`, `subagent.rs`, parts of `main.rs`, `worktree.rs` |
| `AgentLoop` | one run with its provider, tools, prompts and cancellation | `agent.rs`, `progress.rs`, `limits.rs`, prompt slots of `main.rs` |
| `Undo` | the history, the runs that feed it, the commands that use it, and the files | `undo.rs`, snapshots of `agent.rs`, event bridge and commands of `main.rs` |
| `Conversation` | prompts, runs with their snapshots, bridge, finisher, compaction, session commands | `main.rs`, `session.rs`, the activity and queue of `tui` |
| `Debug` | the guided investigation, its copy in the interface, and the sessions it moves through | `main.rs`, `session.rs`, `tui` |
| `Interface` | screens, popups and cards; one operator per event and per key handler, in the order the loop offers a key | `tui`, events of `gocode-core/src/lib.rs` |
| `Composer` | the prompt's text and cursor, recall of earlier prompts | `tui` |
| `Channels` | the two bounded channels between terminal and command loop | `tui`, `main.rs`, `gocode-core/src/lib.rs` |
| `Prompts` | the permission policy, the two slots, the cards, cancellation | `permissions.rs`, `main.rs`, `tui` |
| `Merging` | `/agent diff`, `apply`, the conflict resolver, worktree commands, cleanup | `main.rs`, `worktree.rs`, `tui` |
| `Stream` | one response: bytes, chunks, lines, events, fragments | `gocode-provider-nvidia/src/lib.rs`, `toolcalls.rs`, `agent.rs` |
| `Process`, `OutputBuffer` | a command and its descendants against the runner; the two ends of an output | `process.rs`, `run_command.rs`, `main.rs` |
| `Mcp` | connections, requests, reader tasks, OAuth tokens, the loop that connects | `gocode-mcp/src`, `main.rs` |
| `Lsp` | one language's client, document notifications, diagnostics, configuration | `gocode-lsp/src`, `lsp_config.rs`, `main.rs` |
| `Updater` | download to restart, every rename a step | `gocode-updater/src`, `main.rs`, `tui` |
| `Settings` | boot and saves, every step of a write | `gocode-core/src`, `workspace.rs`, `main.rs` |
| `Patch` | sections and hunks over the lines of files | `patch.rs`, `apply_patch.rs` |
| `SubagentsProofs`, `AgentLoopProofs`, `UndoProofs`, `ConversationProofs` | theorems about the module they extend | |
| `AnswersProofs` | theorems about `Mcp` and `Prompts`: an answer reaches what asked for it | |
| `TextProofs` | theorems about `Stream`, `OutputBuffer` and `Patch`: what is passed on arrives as it was | |
| `TerminalProofs` | theorems about `Interface`, `Composer`, `Debug` and `Channels` | |
| `PartsProofs` | theorems about `Updater`, `Settings`, `Lsp`, `Merging`, and about `MCParts`, which composes them | |
| `MCSubagents`, `MCAgentLoop`, `MCUndo` | constants and symmetry sets for TLC | |
| `MCProgress`, `MCParts` | several components in one run: `part`, chosen at the start, names the one that takes the steps | |

The components that share state are modelled together in one module
(`Conversation` has the interface's slot, the loop's queue, the runs and the
store; `Prompts` has policy, slots and cards; `Merging` has git, loop and popup),
because their interactions are what is hard. `MCProgress` and `MCParts` put
independent components side by side over disjoint variables; they compose
nothing, they only let one run check several modules.

### Subagents

One `pc` per subagent says where its `spawn` or its worker task stands. A step
ends at each await and at each release of a lock, because the runtime is
multi-threaded and because a dropped future stops exactly at an await. A status
update is therefore two steps, as in `SubagentWorker::update`: the map, then the
disk. `records` is the manager's map, `local` the worker's clone, `disk` the
JSON files; `permits`, `tokens`, `cancelled`, `pending`, `claimed` are the
manager's fields. `Acquire` takes the semaphore; `Timeout`, `ObserveStop` and
the steps of `drive_turns` are the branches of the worker's `select!`, and the
first two drop whatever the third was doing, an unfinished nested spawn
included. The supervisor (`sup`) runs one command at a time, each split at its
awaits; `Delete` forgets the subagent before it removes the file, which may
fail. `WorktreeRemove` is the user's `/worktree remove`, which asks no subagent;
the history variable `removed` remembers what it took. `Restart` is an exit and
a new start at any point; `booting` and `scan` are the pass of
`recover_interrupted`. `ForeignBoot` is the start of another process on the same
directory. Depth and the pool-size rule decide whether `agent_spawn` is offered.
Abstracted: prompt texts, timestamps, what the model says (nothing, a report, an
error), the four read-only modes into one.

### AgentLoop

`pc` follows `drive`: head, open, stream, next, requested, tool, prompt, act,
land. `asked` counts the calls in assistant messages and `log` holds the tool
messages, so their difference is what the history still owes. A tool result is
its status, exit code, usability and output class, and whether it changed or
wrote files: `Returns(kind)` enumerates what each kind of tool can report,
including a patch that writes one file and then fails. `observe`, `blocks_edit`
and their helpers are `TaskProgress`; `repeats_after` is the signature
comparison. `ToolAsks`, `UserAllows`, `UserDenies`, `CancelToken`, `ClearPrompts`
and `DebugStop` are the prompt slots and the commands that touch them. Ghosts:
`late` counts what starts after a cancellation, `cut` marks a stream that ended
without finishing, `started` the announced tools.

### Undo

`fs` is the project's files, `store` the registry's history, `saved` its file.
A file holds text, bytes that are not UTF-8 (`Binaries`), or does not exist; the
code sees it through `Read`, for which the second is the same as the third.
`runs` holds the runs that are going on at once, since `/review` and `/init`
begin one without asking for another. `Capture`, `WriteFile`, `Snapshot` are what
`drive` does around a write call; `EndRun` hands the snapshots to the run's event
bridge and `Commit` is the bridge's commit, later, under the registry's lock and
in any order among the bridges. `FailRun` is the provider error whose snapshots
the bridge never commits. `Command`, `NextTransaction`, `ApplyFile`, `ApplyFails`
and `CommandEnds` are `/undo` and `/redo`: they hold the lock, compare a whole
transaction at once, write its files one by one, and save at the end.
`ForeignWrite` is a person, a shell command or another program; `Restart` an exit
at any point. Ghosts: `dirty` names the files whose content was changed without
the history knowing or being able to follow (others' writes, calls that failed
half way, edits of a run whose snapshots were lost, a file edited twice in one
run or by two runs at once, a write over bytes that are not text); `base` and
`tip` remember each file before the oldest and after the newest transaction. The
restoring properties speak of the files that are not dirty and not being edited.
Abstracted: hashes, descriptions, times, and all worktrees but one.

### Conversation and Debug

A turn of a history is the number of the prompt that began it; `Summary` stands
for what a compaction leaves of everything older. `busy` and `queued` are the
interface's activity and its one kept-back prompt, `commands` and `events` the
queues, `runs` one record per prompt: its phase, the `base` history it was
started on and its bridge's `backlog`. A run ends by completing (its finisher
then replaces the history by its base and its turn, saves, and may start a
compaction), by cancellation through its bridge, or by an error that the task
reports past the bridge. `compactions` holds the histories being summarised
over a provider call; `CompactAndReport` replaces the history when the call
returns. `/resume` is three steps (read, save, install) because it takes the
session's lock only for the last. Abstracted: the text of turns, titles, token
counts (the threshold is either reached or not). `Debug` follows one `/debug`
investigation through the queues, with `shown` the interface's copy, which
decides whether an entered line is an answer or a prompt.

### Interface, Composer, Channels

`Interface` is the reducer as operators: `Apply(u, e)` for an event,
`HandlePermission(u, k)` and so on for a key, each returning the new state, what
is sent, and whether the key is used up; `Route` offers a key to the handlers in
the order of the code, since a handler that lets a key pass may have moved a
cursor already. Keys are those the handlers tell apart. `Expected` restricts
events to those the command loop can send in that state. `Composer` counts
characters, as the code does before it converts to bytes. `Channels` counts
messages only; one input may send two commands, as the effort picker does when
it ends the choice of a model. Left out: drawing, scrolling, mouse, themes, file
mentions, the transcript.

### Prompts and Merging

In `Prompts` a run's call asks the policy of its mode (`Asks`, `Denies`: the
decision table); an `Ask` registers its sender in the one slot, sends the card
and waits, three steps of their own; `PermissionResponse` hands the answer to
whoever the slot holds by then; `CancelRuns` cancels first and empties the slots
second. The ghost `agreed` holds the requests the user accepted while seeing
them. In `Merging` git is external: a merge belongs to one worktree, a second is
refused while it lasts, a side is taken only of a file that is unmerged. Each
command runs to its end in the loop; the popup works from the events received.
The ghost `applied` is what the user was told, `reviewed` what the last diff
showed.

### Stream, Process, OutputBuffer

`wire` holds the bytes under way, in pieces that let a chunk end anywhere, inside
a line and inside a character; `partial` the bytes after the last newline taken;
`channel` the bounded event channel; `turn` the collecting side with the
assembler. A line that is too long, a body that ends, a dropped receiver and the
token are ways out. `Process` has the child and one process it may leave behind,
each holding the writing ends of the pipes; the runner reads until both end, or
deadline or token, kills the child, and waits. `OutputBuffer` is the buffer on
characters of one or two bytes.

### Mcp and Lsp

A link of `Mcp` is a transport with its pending requests, its next id, what the
server has to answer and its reader. The command loop connects itself, so a
handshake holds it. Over HTTP a call is its own exchange and fails on its own.
`tokens` is what OAuth stored, an access token and perhaps a refresh token. In
`Lsp` a task per write looks for the client under the map's lock, starts it if
there is none, takes a version under the document's lock and sends after it; a
query looks for the client the same way. Diagnostics arrive under the path of
their URI.

### Updater, Settings, Patch

`files` says what each path of an update holds (old, new, bad, none). The steps
of `replace_with_rollback` are actions; any rename may fail, up to a bound, and
the process may die before or after it; `Launch` starts what is there.
`Settings` splits a save into its steps, atomic or in place, each of which may
fail or be the process's last; memory is what a process read at boot and changed
since. In `Patch` a file is its lines, drawn from texts some of which differ
only by a trailing blank; a section is one action, its hunks located as
`locate_hunk` does.

## 3. Runs

| Run | Shows | Bounds |
|---|---|---|
| `SubagentsCore` | `DiskAgrees`, `NoZombie`, `RecordFinal`, `StopReachesToken`, and that `Subagents` implements `Lifecycle` | 2 subagents, 2 permits (so one may spawn the other), 1 message, 1 restart |
| `SubagentsEnds` | `EveryRunEnds`, `RecordSettles` under fairness; `WorktreeKept`, `CleanupOrder` | 2 writing subagents with worktrees, refusals in Plan mode, removals by the user, 1 restart |
| `SubagentsFaults` | `ConcurrencyCap` | 2 subagents queue for 1 permit; 1 restart, 1 failed save, 1 foreign start |
| `SubagentsNesting` | *counterexample* of `NestingProgresses` | 4 subagents, 2 permits: the least that fills the pool with waiting parents |
| `AgentLoopProgress` | `WithinBudget`, `NormalIsValidated`, `NoBlindEdit`, `ResultsReturned`, `StopsPromptly` | edits, validations, inspections; 2 calls a turn, 3 turns, 4 calls, 2 failures |
| `AgentLoopEnds` | `StopsWhenStuck`, `RepeatsAreReal`, `CancelEnds`, `RunEnds` | inspections, questions, unknown tools; 5 turns, 4 calls, so that three repetitions and a fourth call fit |
| `AgentLoopSummary` | *counterexample* of `SummaryFollowsResults` | one call over the budget |
| `UndoFiles` | `RedoRestores`, `ChainsFit`, `NothingElseLost` | 2 files, 2 runs at once with 2 write calls between them, so that commits come in either order; commands for 1 transaction, 1 fault |
| `UndoHistory` | `UndoRestores`, `InOrder`, `HistorySaved`, `OnlyInHandLost` | 1 file that may not be text, 3 write calls in up to three runs, two of them at once, room for 2 transactions: the oldest is dropped; commands for 1 or 2 transactions, 1 fault |
| `Progress` | `OrderKept`, `OnlyCurrentWritten`, `QueueDrains` of `Conversation`; `OwnAnswer` of `Mcp`; `OutsideWaitsEnd`, which is `CallsEnd` of `Mcp` and `CommandEnds` of `Process` | 2 prompts that may overlap, 1 interrupt or session command, 2 commands waiting, 1 activity event per run, compaction keeps 1 turn; 2 connections, 4 requests (a handshake takes two, so two calls are open at once), servers that exit; a child with one descendant |
| `Parts` | `TerminalSafe`, `PermissionSlotSafe`, `AppliedIsMerged`, `TextFaithful`, `LspSafe`, `FilesSafe` | table below |
| `MergingExplained` | *counterexample* of `MergeExplained` | 1 subagent, 1 file, 3 commands |

`TypeOK` of `Subagents`, `AgentLoop` and `Undo` is checked in one of their runs;
the other modules' types are part of their inductive invariants (section 4) or
left to their properties.

| Part of `Parts` | What it shows | Bounds |
|---|---|---|
| `Interface` | `EscapeFrees`, `ChoiceInRange` | 2 events after boot in any state the keys can reach, a merge conflict on 1 file; the MCP wizard, whose drafts multiply, comes with one event fewer (`Bounded`) |
| `Composer` | `BrowsedShown` | texts of 2 characters, a history that holds 2 prompts, so the oldest drops out |
| `Channels` | `Unstuck` | channels of 4, 2 commands from one input, 2 replies to a command, so that both just fit |
| `Debug` | `InvestigationShown` | 2 questions, 4 entered lines, 5 sessions |
| `Prompts` | `PermissionSlotSafe` = `ApprovedAsShown`, `WaiterSeen` | 2 runs after one another, 2 calls each, 1 waiting command, 1 mode change |
| `Merging` | `AppliedIsMerged` | 2 subagents with 1 change each, 1 conflicting file and a hidden one, 3 commands |
| `Stream`, `OutputBuffer`, `Patch` | `TextFaithful` = `EventsInOrder`, `CallsWhole`, `EndsKept`, `EndsFull`, `PatchPlaced` | 3 lines of 3 bytes against a limit of 5 and a channel of 1; 8 characters against a buffer of 3 at each end; files of 3 lines, 2 hunks, 2 sections |
| `Lsp` | `LspSafe` = `ServerStartedOnce`, `VersionsDistinct` | 3 writes, 1 query, 2 starts |
| `Updater`, `Settings` | `FilesSafe` = `Recoverable`, `Verified`, `NeverTorn`, `ModelKept` | 3 tries of the helper, 1 failed rename, 2 launches; 3 saves, 1 kill |

Why the bounds are enough. In `Subagents` every interaction is between a
subagent and at most its parent or child, the supervisor (one command at a
time), and one crash or foreign start; two subagents show each pair, and the
permit count is proved for any number. In `AgentLoop` the counters matter only
relative to their limits, so each limit is small and each is reached; the log
properties relate two or three entries. In `Undo` two transactions on each
stack, one overflow, two files in a transaction, two runs at once and one fault
at any point show every pair of neighbours; two contents (one text and absence)
and one of bytes suffice because the code only compares contents for equality
and the interesting error is a wrong one. Two overlapping runs tell something
only with two files, since what both edit is dirty, and an overflow needs three
calls; TLC takes the two apart, the theorems take all at once. In `Conversation`
a stale snapshot needs two runs, or a run and one command, and order and
ownership of histories are proved for any number; in `Mcp` ids can be confused
between two calls of one link or two links, and any number is proved. A card can
be met by one earlier or one later question of the same slot. A queue of two
holds a command that was sent before the one that changed the world. Deadlock
checking is off: a subagent engine with all ids used, a run that is done and a
behaviour whose bounds are used up all stop rightfully. Symmetry is used only in
runs without liveness properties.

Some constants switch on an action, or a size, under which a property is known
to fail; `Progress` and `Parts` set them FALSE so that the rest stays checked,
and section 6 lists what each one shows when it is TRUE: `Overtake` (an error's
report passes events the bridge holds), `Questions`, `Together`, `SubagentAsks`,
`OtherProcess`, `Configures`, `Wide`, `Cut`, `ByHand`, `Layered`, `Unlisted`,
`Background`, `Clears`, `Omits`, `ClosesEarly`, `MovesMidMerge` (a worktree
command comes between an apply and the end of its merge), `OpensTwice` (two
notifications find the document untracked at once). What holds is therefore stated
with its conditions, and the conditions are exactly the departures.

### Fairness

`Subagents!Fairness`: tokio polls every ready task (weak fairness of spawn and
worker steps), the timer of `tokio::time::timeout` fires (weak fairness of
`Timeout`), the semaphore is a fair queue (strong fairness of `Acquire`, because
a permit is free again and again rather than for ever), and the command loop
finishes the command it has begun. Nothing is assumed of the provider, the user
or the number of exits.

`AgentLoop!Fairness`: the run's own steps, the opening request and the tools
come back (`run_command` has a deadline), and the command loop finishes the
clearing of prompts. The user and the provider's streams are not assumed to be
live in the specification. Where a property needs them it says so in its own
antecedent: `CancelEnds` assumes `UserAnswers`, `RunEnds` also `StreamsEnd`.

`Conversation!Fairness`: the terminal loop and the command loop never stop
polling, every spawned task (bridge, finisher) is scheduled, and a run ends, which
is what `RunEnds` of the agent loop gives. Compactions and the user's commands
need not ever happen. `Mcp!McpFairness`: a server that is up answers what it was
sent, the reader task and the exchanges of HTTP are scheduled, the command loop
takes its handshake further. A server may exit at any time. `Process!ProcessFairness`:
the timer fires, the runner's task is polled, and the kernel delivers a kill and
the exit of a killed child. Nothing is assumed of the child or its descendant.

## 4. Proofs

Proved for all values of the constants, subject only to the modules' named
assumptions (finite set of ids, natural bounds, each call has a kind, room for
two commands' replies in a channel) and to the conditions named below. A
condition on a constant switches off one of the departures of section 6; without
it the theorem is false, and the run shows how.

* `SubagentsProofs!TypeCorrect`, `NeverOverCapacity`. The invariant is
  `PoolInv`: types; free permits plus holders equal the pool's size
  (`PermitInv`); a nested spawn and the parent that waits for it name each other
  (`SpawnInv`, needed because a dropped parent drops its child's spawn); the
  map's and the worker's copy follow `pc` (`MapInv`, `LocalInv`). A subagent the
  map shows as active is then a holder. One lemma per action shows that it keeps
  `PoolInv`; the cardinality lemmas `HoldersTake` and `HoldersDrop` carry the
  arithmetic. Failed saves, restarts and foreign starts are included.
* `SubagentsProofs!FinalRecordsStay`: a terminal record on disk is never
  rewritten and a removed one does not return, under
  `Spec /\ MaxForeignBoots = 0`, that is, as long as this process is alone on
  the directory. The invariant `StoreInv` adds `DiskInv` (the record is
  unfinished on disk exactly while a worker will still write it), `ScanInv`
  (recovery runs only when no worker is left) and `CleanupInv`. The case with a
  foreign start is false, see section 6.
* `SubagentsProofs!CopiesAgreeAtTheEnd`, `NoneForgotten`, `ImplementsLifecycle`,
  when no save fails and no other process starts. `FollowInv` adds to `StoreInv`
  how the three copies of a status trail one another: the disk is behind the
  worker by at most the save in progress (`DiskFollows`), the map changes between
  the worker's decision and its save (`MapFollows`), and the last update leaves
  both the same (`CopiesAgree`). It is needed because `send_message` and `stop`
  save the map's copy to disk at any time. The refinement follows: each write to
  the disk is a transition of `Lifecycle` or none.
* `SubagentsProofs!StopFindsTheToken`, when no other process starts. `StopInv`
  says that a worker has a token from its insertion to its final save, and that
  only the supervisor awaits a spawn of the user's, so it is not stopping then.
* `SubagentsProofs!WorktreeStays`, `WorktreeGoesFirst`, when no other process
  starts and either the process never exits or the ids' first eight characters
  differ. `WorktreeInv` holds that no two writers share a name (`ClaimInv`): the
  claims keep them apart, but `claimed` is in memory, and what a restart forgets
  is whose names the old worktrees have. `TreeInv` ties a writer at work to its
  worktree, or to a removal by the user's own command (`removed`), and a cleanup
  past `git worktree remove` to its absence.
* `AgentLoopProofs!LoopInvariant`, and from it `TypeCorrect`, `BudgetHolds`,
  `EveryCallAnswered`, `NormalEndIsValidated`, `EditsSeeEvidence`,
  `CancelIsPrompt`. `LoopInv` ties the two booleans of `TaskProgress` to the whole
  log (`ProgressInv`), the queue to the budget (`BudgetInv`), the unanswered calls
  to the queue (`HistoryInv`) and the look at the token to what may start after
  it (`PromptnessInv`); none of the four properties is inductive without it. The
  heart is `ObserveFacts`/`RecordProgress`: what one more result does to the
  obligations of a log of any length.
* `AgentLoopProofs!StuckInvariant`, and from it `StuckRunsStop`, `NoFalseRepeats`.
  The counters are exact: the one of repetitions is the length of the series of
  equal signatures at the end of the log and the entry before it differs
  (`RepeatInv`), and so for unchanged explorations (`ExploreInv`) and failures
  (`FailureInv`); a run that goes on has reached no limit (`LimitInv`). A bound
  in one direction would not do, since a reset that comes too late stops a run
  that made progress and one that comes too early lets a stuck run go on.
* `UndoProofs`: all properties that the two runs check, for any number of files,
  contents, runs at once, transactions, commands and faults. `TypeCorrect`
  includes that no transaction is empty. `LosesOnlyInHand` is about each step
  alone: a command drops no transaction but the one whose file cannot be written.
  `SaveIsCurrent` needs to know whether the command has applied anything
  (`SavedInv`). `OthersWorkIsSafe` needs `UnracedInv`: until a command writes a
  file nobody else has written, the file reads as the check found it. `OrderKept`
  needs `OrderInv`: an id counts the commits, so the next one is above both stacks
  and the transaction in hand. `UndoGivesBack`, `RedoGivesBack` and
  `NeverConflicts` come from `ChainInv`: for each file, a chain of contents runs
  from `base` up the undo stack, through the transaction in hand, to where the
  redo stack starts and down it to `tip` (`HistoryFits`), and from there over what
  one run has recorded and the call it is in to what the file holds (`FlightFits`,
  which includes that no other run has written the file). The chain is the
  invariant, not the three properties, because a transaction that is moved takes
  its place in the other stack's chain only if the contents between it and its
  neighbours are known. Since the chain is per file, the order in which bridges
  commit runs that share no file does not matter. Files that others changed, that
  were not text, that a run is about to record twice (`Doomed`) or that two runs
  edit at once are outside it, as they are outside the properties; what happens
  to some of those is in section 6.
* `ConversationProofs!HistoriesOrdered` and `OthersUntouched`: with any number of
  prompts, overlapping runs, compactions and session commands, every history
  shows its turns in the order they were submitted, none twice, and a step
  touches only the file of the session in memory or of the one being installed.
  `OrderKept` is not inductive: a finisher appends its prompt to a snapshot
  taken long before. `ConvInv` therefore speaks of every history anybody holds
  (`Held`: memory, disk, a pending resume, the runs' bases, the compactions), and
  of prompts still in the queue, which are younger than all of those
  (`QueueYounger`), as each run is than its base (`RunsYounger`). `StoreMoves`
  reduces each action to one new history that must fit; `TurnFits` and
  `CompactedFits` are the two that are not there already.
* `AnswersProofs!AcceptedAsShown`, when runs do not overlap, and `SlotsAreSafe`,
  when no subagent asks either, for any number of runs, calls, typed commands and
  changes of mode. A card and the sender in its slot are related only through
  the queues: `RunInv` finds the one active run in the queue to the loop, at
  work, or in the queue back; `CardInv` says that at most one permission card
  is under way, on the screen or answered, and that it is the one of the call that
  waits, unless the run was cancelled; and that what a cancelled run leaves behind
  is gone before the next begins, because both queues keep their order.
  `DecisionInv` is the same for decisions, where only the last card posted counts.
* `AnswersProofs!AnswersAreOwn`: for any number of links and concurrent calls a
  response reaches the call it answers. `McpInv` counts the ids given out
  (`IdsCounted`), bounds those under way (`IdsGiven`) and makes them distinct
  per link (`IdsDistinct`); the count is needed because a line nobody asked for
  carries an id beyond all of them.
* `TerminalProofs!EscapeAlwaysFrees`, with no condition, for any number of events
  and of files in conflict. The invariant `UiInv` has little besides the types: the
  cursor is on a choice of the question that is asked, and the wizard has a step
  exactly while it is open. The argument is that Esc makes progress: `Closes` says
  of each handler that it either closes something (`Depth` falls), or asks for a
  merge to be aborted, or passes the key on because what it is for is shut;
  `KeyCloses` composes two of them, and if all eighteen have passed the key on
  nothing is open.
* `TerminalProofs!PromptBrowses`, while no investigation asks its questions, for
  texts and histories of any length. `ComposerInv` adds that no remembered prompt
  is a command: otherwise a suggestion would take the Up and Down keys and the
  place in the history would stay behind the text.
* `TerminalProofs!InvestigationFollowed`, when `/clear` is not used, for any number
  of questions, sessions and lines. `InvestigationShown` speaks of an empty channel
  only; `NewestDebug` says the same of every state: what the last report under way
  holds, or else what is on the screen, is what the session has open.
  `FilesAgree` ties the session's file to it, and has no file for a session not
  created yet, so a new one begins with nothing to ask.
* `TerminalProofs!NeverStuck`: if no events come but the answers to commands, the
  terminal never blocks on a full command channel while the command loop waits on
  a full event channel, for channels that hold the replies to two commands.
  `RoomToReply` is the argument: the terminal goes to the keys only after it has
  emptied the events, and sends at most two commands before it does so again
  (`TwiceAtMost`). Between the two the loop can take one command more, so while the
  command channel is full the events present and owed are the replies to two.
* `PartsProofs!PreparedIsSafe`, with one process preparing updates and at most
  one failed rename. `ReplaceInv` names where a working executable is at each step
  of `replace_with_rollback`: in its place, or else in the backup, and while it is
  away the new one is ready. `PreparedInv` follows the download from the checksum
  to the rename. For any number of tries and launches.
* `PartsProofs!SavedIsKept`, with one program, no model in the project's
  configuration and none unlisted. `ChosenInv` says that what a save of the
  configuration is about to write is what was chosen, and that the copy in memory
  is what the file says except during a save of it.
* `PartsProofs!OneServerInOrder`, when the document is opened by one notification.
  `ServerInv`: whoever starts a server holds the map of clients, and a server that
  is up is the one the map has. `VersionInv`: the versions on their way differ,
  were counted already, and none has been sent.
* `PartsProofs!AppliedHolds`, when no worktree command comes between an apply and
  the end of its merge, for any number of subagents, files and commands.
  What the user is told at the end of a merge is about the popup's subagent, and
  the merge that ends is the one of the worktree the loop is in, so the proof is
  about both queues: while the popup is open only it sends, so what it sends is
  behind each apply and each conflict (`QueueInv`); a popup without an open
  conflict has none on its way (`PopupInv`); there is one merge, where the loop
  works, and what finishes it was sent for it (`MergeInv`). The proof failed
  first for a good reason: worktree commands typed ahead move the loop between
  two merges. TLC finds the behaviour with `MovesMidMerge` (section 6).
* `TextProofs!HunksArePlaced`, with no condition, for files, hunks and sections of
  any number and length. `ApplyHunks` folds the hunks over a file that changes
  under them, while `PatchPlaced` speaks of places in the file as it was.
  `Aligned` relates the two: from the cursor on, the lines left are those of the
  file's end (`Reached` is where it begins). So each hunk lands at a place of the
  original behind the one before (`HunkApplied`, `PlacesAre`), what is laid out at
  those places is the result (`PlacesLayOut`), and any other way to fit the hunks
  exactly would have made one of them ambiguous, which `Found` refuses
  (`UpdatePlaced`).
* `TextProofs!OutputEndsKept`, when every character is one byte (`MaxWidth = 1`),
  for any limit, output and chunks. `BufferInv` counts the two ends: nothing goes
  to the tail before the head is full, and an end is below its limit only while
  the two together are the whole output (`RoomUsed`).
* `TextProofs!EventsArriveInOrder`, when no character is cut in two (`~Wide`), and
  `StreamIsFaithful`, when besides the body is not cut off (`~Cut`), for any number
  of lines, any channel and any limits. `StreamInv` cuts the lines at two places:
  the turn has what the first n carry (`GotInv`), the channel holds what the
  next ones up to t carry, followed at most by the reader's error (`ChannelInv`),
  and the bytes that are buffered and on the wire are those of the lines behind t,
  in order and without a gap (`WireInv`). A reader that is gone has said why or had
  nothing left to read (`EndInv`), so a turn completes only with n at the end.
* `PartsProofs!FilesAreSafe`, `TerminalAlwaysSafe` and `TextAlwaysFaithful` lift the
  theorems on files and those of `TerminalProofs` and `TextProofs` to `MCParts`, the
  specification that the run `Parts` checks.

The folds and recursive functions in `TextProofs` need induction over data, which
the library's theorems cannot give here because they take the hypothesis as an
operator. Instead each such fact is shown by its least counterexample: the set of
the places where it fails, if it is not empty, has a least element (`LeastOf`,
from the well-foundedness of < on the naturals), that one is not the first, and
the step from the place before it gives the contradiction. Sequences are opaque
in these proofs: `ListOf(S)` is `Seq(S)` under a name only the lemmas on length and
elements open.

Only model-checked:

* The liveness properties (`EveryRunEnds`, `RecordSettles`, `CancelEnds`,
  `RunEnds`, `QueueDrains`, `OutsideWaitsEnd`), which depend on fairness and
  ENABLED and are beyond the prover.

Every safety invariant and action property of the passing runs is stated by a
theorem, for the whole composition where a run checks the composition.

## 5. What is not modelled

* **System prompt and project context** (`context.rs`, `markdown_doc.rs`): reads
  files and formats text; no state between calls.
* **Credential store** (`gocode-credentials`): the environment first, the
  platform's keyring second; no protocol.
* **Release and install scripts**: straight-line packaging.
* **Drawing** in `tui`, mouse selection, themes, file mentions, the transcript's
  layout and scrolling; and in the reducer what only changes wording.
* **Reading tools** (`read_file`, `search`, `list_files`, `git`): what they read
  and format; each is a result status in `AgentLoop`.
* **Formats**: TOML, JSON, SSE framing of HTTP bodies, archives, the tokens of
  the patch language, git's porcelain, PKCE; a value that does not parse is one
  of the outcomes.
* **Provider requests**: building them, listing and probing models.
* **Reporting commands** of `main.rs` (status, diff, help, listings, export),
  and the submission and validation of a credential.
* **Simplifications inside modules**: `Settings` takes the rename of a save and its
  acknowledgement as one step; in `Mcp` an HTTP response that comes as one JSON
  document is matched by id like any other, while `http.rs:128-130` takes it
  unmatched, each request having its own response; `Conversation` leaves out a
  prompt submitted without a model, which only reports an error.

## 6. Where the code departs from what it says

Each of these is a property of its module, quoted from a comment, a document or
a test. Three are runs of the project. Those with a configuration of their own
end in the counterexample when run by hand
(`tlc -config SubagentsDelivery.cfg MCSubagents`, and so on). The rest are found
by checking the module's own specification with the constants of its run
(`SubagentsEnds.cfg`, `UndoHistory.cfg`, `Parts.cfg` or `Progress.cfg`), changed as
the last table says.

| Configuration | Property | What happens |
|---|---|---|
| `SubagentsNesting` (run) | `NestingProgresses` | `subagent_manager.rs:133-140` offers nesting from two slots on so that a parent does not end up "silently deadlocking (bounded only by `per_task_timeout`)". Two parents fill two slots and wait for children queued on the same semaphore until a timeout or a stop. |
| `AgentLoopSummary` (run) | `SummaryFollowsResults` | `main.rs:1056-1059`: "a fresh user turn never continues a pending tool-call sequence". A turn that asks for more calls than are left leaves the loop with its calls unanswered, and `soft_land` pushes a user message right after them. |
| `MergingExplained` (run) | `MergeExplained` | `docs/SUBAGENTS.md:153-154`: the workspace "never sits in an *unexplained* half-merged state". The commit that ends a merge fails, the popup closes on it, and the merge stays. |
| `SubagentsDelivery` | `AcceptedIsDelivered` | `subagent_manager.rs:332`: a message is "delivered once its current turn finishes". One accepted between the last drain (674) and the final update (721) returns Ok and is never delivered. |
| `SubagentsHistory` | `HistoryKept` | `subagent_manager.rs:334`: "Recorded in the subagent's message history immediately". The worker's next update overwrites the record by its own copy without the message. |
| `SubagentsPartial` | `StopKeepsPartial` | `subagent_manager.rs:366`: a stop "preserves whatever partial result exists". The cancel branch (545) finishes without a result. |
| `SubagentsAbandoned` | `NoAbandonedRecord` | `subagent_manager.rs:231`: a spawn stays Queued "until a concurrency slot frees up". A nested spawn dropped with its parent between 300 and 327 stays Queued without a task until the next start. `NoZombie` and `RecordSettles` except these records by name. |
| `SubagentsTwoProcesses` | `RecordFinal` | `subagent.rs:85`: Interrupted means the run was live "when the application restarted". A second instance marks the first one's live run, which then writes over the terminal record. |
| `AgentLoopStarted` | `FinishedWasStarted` | `events.rs:10-12`: "a `ToolFinished` is never emitted before the matching `ToolStarted`". A blocked edit and an unknown tool finish without a start. |
| `AgentLoopUndo` | `WritesAreRecorded` | `events.rs:39-42`: undo history is "never lost to an early return". A patch that fails at a later file leaves the earlier ones written without a snapshot. |
| `AgentLoopTruncated` | `NormalIsComplete` | `docs/AGENT.md:1680`: "final response occurs only at true completion". A stream that closes without `Finished` is taken for a complete answer. |
| `AgentLoopPrompt` | `CancelNeedsNoAnswer` | `docs/AGENT.md:1677`: "cancellation ends the run". A prompt registered after the command emptied the slots, or one the debug stop leaves, keeps the run waiting for the user. |
| `UndoTwice` | `OnlyOthersConflict` | `undo.rs:7-9`: a file "changed since by anything else (a human edit, another tool)" is a conflict. A run that edits one file twice records two snapshots in one transaction, and its undo reports a conflict with nobody's change. |
| `ConversationTurns` | `TurnsKept` | A run that finishes replaces the history by the snapshot it started on and its own turn: the turn of a run beside it, or of a session installed meanwhile, is gone. |
| `PatchPartial` | `PartialListed` | `docs/SECURITY.md:311`: "The result must identify which changes, if any, were applied". A patch that fails at a later section names none of the files it has written. |
| `StreamCut` | `CallsWhole` | `toolcalls.rs:15`: "No partial call is ever handed to a tool"; `docs/NVIDIA_NIM.md:1043-1047`, `docs/SECURITY.md:231`. A body that ends early ends the turn as complete, with the fragments it got. |
| `ChannelsFreeze` | `Unstuck` | `docs/TUI.md:2392`: "streaming does not freeze". A run, or a download's progress, fills the event channel while the terminal waits for room in the full command channel, and the loop waits to reply. |

Some windows of the undo code are in the model and not counted as violations:
files written by others between the check and the write are overwritten
(`NothingElseLost` excepts them by `raced`), an I/O error in the middle of a
transaction drops it from both stacks (`ApplyFails`; `OnlyInHandLost` excepts it),
and the snapshots of a file that two runs edit at once do not chain, so that undo
reports a conflict or, by force, ends in another content (`dirty`).

| Module, property | Constants changed | What happens |
|---|---|---|
| `Subagents`, `WritesInWorktree` | none | `docs/SUBAGENTS.md:17-18`: an implementer may write "only inside a worktree created for it". `/worktree remove` takes a clean worktree from under a running one. |
| `Subagents`, `CleanupPossible` | none | `docs/SUBAGENTS.md:155`: a finished subagent is cleaned up with its worktree. One whose worktree the user has removed by name cannot be: `git worktree remove` is refused first, and the record stays. |
| `Undo`, `BeforeIsContent` | none | `undo.rs:26-35`: `before` is "Content before the edit, or `None` if the file did not exist yet". A file that is not UTF-8 is recorded as `None`, and undoing the edit removes it. |
| `Undo`, `BytesKept` | none | `undo.rs:6-8`: a file changed since "is reported as a conflict instead of being silently overwritten". Where the transaction expects no file, one that is not UTF-8 is overwritten without force. |
| `Conversation`, `OneTask` | none | `docs/SECURITY.md:591`: "Only one task executes at a time". `/review` and `/init` start a run beside another, and so does a prompt sent before the first activity event arrives. |
| `Conversation`, `TailSurvives` | `Overlap = FALSE` | `main.rs:1049-1053`: "the tail survives untouched". A compaction returns after a run has finished and replaces the history by what it was given. |
| `Conversation`, `QueueDrains` | `Overlap = FALSE`, `Overtake = TRUE` | An error's report frees the slot before the bridge's last activity event arrives and sets it busy again: a prompt typed then waits for an end that has been. |
| `Interface`, `ErrorDismissed` | none | `tui:7718` names a blocking error that suppresses input "until dismissed". Nothing dismisses it (`tui:1217-1220`). |
| `Interface`, `OneOwner` | none | `docs/TUI.md:2230`: "Only one modal should own interaction at a time". A card that is open under a screen, or under another card, answers the keys. |
| `Interface`, `UpdateWaits` | none | `docs/TUI.md:2249-2252`: an update is shown "after the AgentRun completes". A run may begin, or go on with a queued prompt, under it. |
| `Composer`, `BrowsedShown` | `Questions = TRUE` | An answer to `/debug` leaves the place in the history behind, and Down brings an old draft back. |
| `Prompts`, `ApprovedAsShown` | `Together = TRUE` | Two runs ask at once: the second registration takes the slot of the first, and its card's answer reaches the other. |
| `Prompts`, `AnsweredAsShown` | none; or `MaxRuns = 1`, `SubagentAsks = TRUE` | A late answer to a decision reaches a later one; a subagent's question shares the slot of its parent's. |
| `Merging`, `ChosenSideMerged` | `MaxAgents = 1`, `MaxTyped = 4`, `Hidden = FALSE`, `CommitFails = FALSE` | Taking the other side of a file that is already staged succeeds and changes nothing, but the popup shows it. |
| `Merging`, `ReviewedIsMerged` | `MaxEdits = 2` | `docs/SUBAGENTS.md:143-144`: changes "only reach the main workspace through `/agent apply <id> confirm`" after a diff. Commits made since the diff are merged too. |
| `Merging`, `AppliedIsAll` | none | `main.rs:280-283`: "Applied subagent's changes". Only commits are merged; what the subagent left uncommitted in its worktree is not. |
| `Merging`, `AppliedIsMerged` | `MovesMidMerge = TRUE`, `MaxTyped = 6` | `main.rs:2827-2838` reports the changes of the subagent the popup names. Apply B, switch, apply A and switch back are typed before the popup opens and both merges conflict: the resolver, showing A, takes sides in B's merge and ends it, and A's changes are told as applied. The search is long. |
| `Merging`, `RootExists` | none; or `StartTree = 3` | `main.rs:2456-2459` removes a worktree "even if the session is inside" it. A cleanup removes the session's worktree and leaves the session there; started in a linked worktree, removal by name does too. |
| `Mcp`, `EveryCallEnds` | `MaxLinks = 1`, `MaxCalls = 3` | `stdio.rs:155-157`: "server closed the connection before responding". The reader task ends without dropping the pending senders, so the caller waits. |
| `Mcp`, `LoopReturns` | `MaxLinks = 1`, `MaxCalls = 2` | The caller is the command loop itself, in a handshake. |
| `Mcp`, `RefreshKept` | `MaxCalls = 5`, `Omits = TRUE` | `manager.rs:86-88`: an expired token is refreshed "automatically when a refresh token is available". An answer without a refresh token replaces the stored one. |
| `Lsp`, `DocumentFresh` | none | `lsp manager.rs:108-109`: "future queries and diagnostics reflect the new content". Versions are taken in order and sent in any order; the last text sent may be an older one. |
| `Lsp`, `VersionsDistinct` | `OpensTwice = TRUE`, `MaxWrites = 4` | `client.rs:37`: "monotonically increasing versions". Two notifications that find the document untracked both open it (`client.rs:134-160`); the second resets the count to 1 and a version is sent again. |
| `Lsp`, `DiagnosticsReach` | none | `tool.rs:66`: "whether an edit introduced a type error". The URI of a changed file is made of its relative path; diagnostics come back under a path the tool does not ask for. |
| `Lsp`, `UserServerUsed` | `Configures = TRUE` | `main.rs:900-902`: defaults serve what "the user hasn't configured". A default added for one extension takes the others of its language as well. |
| `Stream`, `TextAsSent`, `EventsInOrder` | `Wide = TRUE` | `docs/PROVIDER.md:729`: "normalized UTF-8 strings". A chunk that ends inside a character is decoded alone and loses it. |
| `Process`, `CommandEnds` | `ClosesEarly = TRUE` | `docs/SECURITY.md:353`: "Commands must support cancellation and timeouts". A child that closes its output and goes on is waited for without deadline or token. |
| `Process`, `TreeGone` | none | The same line and `docs/HARDENING.md:35`: the process tree ends with a cancellation. Only the child is killed; and a user's own command has no token at all. |
| `Process`, `TimedOutWasRunning` | none | `process.rs:121`: "terminated because it exceeded its timeout". A child that had exited counts as timed out while a descendant holds its pipes. |
| `OutputBuffer`, `EndsKept` | `MaxOutput = 6`, `MaxWidth = 2` | `process.rs:358`. A wide character that does not fit leaves room in the head, which a later chunk fills: the head is no longer a beginning of the output. |
| `OutputBuffer`, `TruncatedOmits` | none | `process.rs:136`: the flag tells "Whether `stdout` omits part". It is set once the tail is used, even if nothing was dropped. |
| `Updater`, `Verified` | `OtherProcess = TRUE` | A second process downloads into the same path between the checksum and the extraction. |
| `Updater`, `Recoverable` | `MaxRenameFaults = 2` | `gocode-updater/src/lib.rs:433-434`: "restoring its backup if replacement fails". The rename back fails too, and the helper's next try (`main.rs:18-20`, "side-effect-free-on-failure") removes the backup first. |
| `Settings`, `ModelKept` | `Layered = TRUE`; `Unlisted = TRUE`; `Programs = {1, 2}` | `gocode-core/src/lib.rs:1612-1613`: an update to one field does "not appear to erase the others". Saving the effort writes the model in memory: the project's, none, or one another process has replaced. |
| `Settings`, `SkillsWhole` | none | `docs/SECURITY.md:538`: "Configuration and state writes should be atomic". `disabled_skills.json` is written in place. |
| `Settings`, `MalformedKept` | `ByHand = TRUE` | `docs/CONFIG.md:265-267`: a malformed file is "untouched". The next save writes over it. |
| `Debug`, `StopHolds` | `MaxEntered = 5` | `docs/DEBUG.md:13`: "cancels the active investigation". A stopped investigation still takes an answer, and the last one begins its run. |
| `Debug`, `AnswersFit` | none | `docs/DEBUG.md:7`: "one at a time". Two lines typed before the interface hears of the first are both answers; the second is kept for the next question. |
| `Debug`, `BegunOnce` | `QuestionCount = 1` | The second such line after the last question begins the run again. |
| `Debug`, `InvestigationShown` | `Clears = TRUE` | `main.rs:1969-1977` swaps the session on `/clear` and does not publish the new investigation, so the next prompt is taken for an answer. |

One more was met outside the models: `credentials/src/lib.rs:68-76` passes over
an empty environment credential, `main.rs:1162` takes the variable as it is.

## 7. Plan

What is left, in order of what it adds:

1. An abstract transcript (each turn once, in order) that `Conversation`
   implements when runs do not overlap and nothing is compacted.
2. Composition of `Prompts` with `Interface`, so that the card a key answers is
   the one on the screen among all others.

Bounds stay at two actors of each kind and one fault, as above.
