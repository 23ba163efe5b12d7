# Smara: a verification project in TLA+

Smara is an agent for the command line, the web and the desktop: a *supervisor* runs
prompts in a loop of model answers and tool calls, an *orchestration* engine splits a large
prompt into subtasks and executes them, a *blueprint* engine runs a set of roles in
dependency waves, and stores around them keep memories, sessions, schedules and logs.
This directory models the parts of it that decide in which order things happen, checks
them with TLC on small instances, and proves the most important properties with TLAPS
for all values of the constants.

Every definition is translated from the Go source; `PROJECT.json` maps it to its lines.

## 1. Inventory

What the system consists of, the state each part keeps, what makes it hard, and what makes
it correct. (M: modelled here; –: left out, see section 6.)

| Part | State | Operations | Hard because | Correct if |
|---|---|---|---|---|
| M **Orchestration pipeline** `internal/agent/workflow/orchestration_*.go` | plan, batches, results | guardrail, scheduling, batches, gate, retries, cancel | one goroutine per subtask, a semaphore, cancellation at any moment, partial failure | dependencies first, consent before severe work, exclusive subtasks alone, one right result each, it ends |
| M **Web orchestration** `internal/web/orchestration_handlers.go` | one snapshot, map of waiting approvals | start, callbacks of two engines, `WaitApproval`, `Decide` | answers race with timeouts; runs share the store and their IDs | nobody but the user grants; the UI shows what happened |
| M **Iteration budget** `internal/agent/iteration_budget.go`, the loop of `supervisor.go` | limits, window of tool calls | `ShouldContinue`, `RecordToolCalls`, `RequestExtension` | two kinds of extension interleave; the model chooses all inputs | never above the ceiling, stops when stuck, ends |
| M **Blueprint runner, resumption** `runner.go`, `resume.go`, `shared_state.go`, `orchestrator.go` | results, `SharedState`, `state.json` | waves, serial steps, save, resume, QA | the process may be killed anywhere, also within a write; two meanings of "wave index" | order kept across processes, completion only if true, recorded work not repeated |
| M **Web sessions** `internal/web/multisession.go` | session objects, their active run and supervisor, one file | run, cancel, archive, delete, rename, record, save, load | a run returns after its session was changed; every call saves all sessions, outside the lock | no session runs for ever, one run at a time, the file is the newest state, a run reports to its own client |
| M **Sync daemon** `internal/sync/daemon.go`, `internal/autonomy` | memories, `sync_log`, outbox, inbox, done, 9Drive | export, push, pull, import | four goroutines per device share directories; crash between file and mark | what is marked was exported, what is put aside was imported, what is saved arrives |
| M **Scheduler** `internal/scheduler`, `cmd/smara/schedule.go` | one JSON file | add, configure, remove, due pass, mark | read-modify-write by several processes, retries, dependent jobs | edits hold, history is true, a dependent only after its parent, due jobs run |
| M **MCP client** `internal/mcp` | transport, mutex, pipe or channel, open streams | handshake, send, receive, timeout, close | one client for many goroutines; IDs are never compared; a bounded channel filled under a lock | a call gets its own answer, once, and returns |
| M **Event stream** (`Subscribe`, `broadcastLocked`, `ParallelTasks.tsx`) | a channel of 8 snapshots per subscriber, what the page shows | subscribe, broadcast, reconnect, poll | drops the newest; first snapshot sent outside the lock; two ways to the page | the page ends with the final state |
| – **Cloud memory** `internal/memory/cloud` | `sync_log`, a remote table | push, pull, budget, conflicts | one batch partly uploaded | nothing is marked that was not uploaded |
| – Planner, report, classifier, factory | none | | heuristics and rendering | |
| – Supervisor's prompts, tools, skills, providers, memory store, gateways, device tools, UI | files, databases, remote services | | I/O and text | |

How they interact. `Server.runWorkflowWithLiveStatus` calls `RunOrchestration`, which calls
the executor; the executor calls the handler (a worker with self-correction), which calls the
server's callbacks, which rewrite the store's snapshot; the gate of the executor calls the
server's `ApprovalFunc`, which blocks in `WaitApproval` until `Decide`, called by another HTTP
request, sends the answer. If `RunOrchestration` fails before there is a plan the server runs
the blueprint engine instead, which reports to the same store. Each worker and each chat
prompt runs the supervisor's agentic loop under its own iteration budget.

Around these: a chat prompt of the web UI is a run of a session (`WebSessionManager.Run`), whose
supervisor calls tools of MCP servers through clients that all sessions share; memories a run
saves are exported by the sync daemon to the user's other devices; workflows run from the
schedule are processes of their own that meet in the job file.

Which of these steps are hard to test is listed, line by line, under `hazards` in
`PROJECT.json`.

## 2. Modules

| Module | Models | Composition |
|---|---|---|
| `OrchestrationPlan` | the plan, its validation, the guardrail, waves and batch modes: operators only | extended by the executor |
| `OrchestrationExecutor` | one call of `RunOrchestration` | extends `OrchestrationPlan`; implements `PlanRun` |
| `PlanRun` | what a run promises: a task machine with no batches, goroutines or queues | abstract specification |
| `ApprovalBroker` | `WaitApproval` and `Decide` over the map and the channels | a specification of its own |
| `WebOrchestration` | web runs, both engines' callbacks, the snapshot | extends `ApprovalBroker` and synchronises with its actions |
| `EventStream` | how snapshots reach the page: broadcasts, channels, connections, polling | abstracts the snapshot of `WebOrchestration` to a number |
| `IterationBudget` | the budget and the agentic loop | – |
| `BlueprintRunner` | the runner, `state.json`, crashes and resumption | implements `ResumableRun` |
| `ResumableRun` | what a run promises that may be interrupted and resumed: no waves, files or processes | abstract specification |
| `WebSessions` | `WebSessionManager`: runs, the other calls, `Save` and `Load`, restarts of the server | – |
| `SyncDaemon` | the four cycles of the daemon on several devices around one 9Drive account | – |
| `Scheduler` | the job file, the due pass of daemons and `run-due`, `add`, `remove` | – |
| `McpClient` | the handshake and calls of an MCP client over stdio or HTTP | – |
| `MC...` | the instances TLC checks | extend the module in their name |
| `...Proofs` | the theorems | extend the module in their name; `WebOrchestrationProofs` also `EventStream` |

Definitions whose comment begins with *Mutant* are not part of a specification: each is a
plausible bug, and `PROJECT.json` says which definition it replaces and which property then
fails. Every property of every passing run has one.

### OrchestrationExecutor
`phase` is where the goroutine of `RunOrchestration` is: `safety` (guardrail), `schedule`
(`BuildExecutionWaves`), `loop` and `batch` (`Execute`), `done` or `rejected`. `pc[s]` is where
`executeOne` is for subtask `s`: `queued` (before the semaphore), `approval`, `handler`,
`backoff`, `returned`. A parallel batch lets several subtasks be active up to the limit, a
serial or gated one goes through them in the order of their IDs. `results` is the map
`Execute` fills when a batch has ended; `last` is what each goroutine returned.

* `ApplySafety` is the whole guardrail; what it does to one subtask depends on two families of
  words, so a title is the set of families it *mentions*.
* `BuildBatch` is one turn of the scheduler's loop. `forceSerialExecution` is applied to each
  batch when it is built, since it reaches all of them before the first is executed.
* `HandlerReturns` keeps the order of the code after the handler's return: `cancel()`, then
  `runCtx.Err()`, then the empty status. With a timeout the context is therefore always done.
* A handler's answer is `success`, `failed` or empty; the worker's repairs are inside the call.

### ApprovalBroker and WebOrchestration
A *waiter* is one call of `WaitApproval` with its channel, a *decider* one call of `Decide`.
Steps are cut where the mutex is released: `LookUp` (under it) and `Send` (after it) are two
actions, as are `GiveUp` or `ReceiveDecision` (the `select`) and `Unregister` (the deferred
delete). In `WebOrchestration` a waiter is a pair of a run and a gated ID, and runs may have
the same IDs, as plans of two prompts do. `overlap` says whether a second request may arrive
while a run is in progress; properties about the *one* snapshot are stated for runs that do
not overlap, those about consent for all. What happens inside an engine is reduced to the
order of its callbacks; `RepairAttempt` and a second `RoleTaskCompletes` may repeat. What the module
shows of the code, beside its properties: between `GiveUp` and `Unregister` an answer is still accepted,
although nothing waits for it any more, contrary to the comment at
`orchestration_handlers.go:157`; such a yes grants nothing (`ConsentInv`).

### EventStream
A snapshot is its number. `Connect` is the first half of `Subscribe`, `SendInitial` the second, after the
lock is released; `Deliver` is the handler's loop together with the page's listener. `current` is the
connection the page has, and a handler whose connection broke goes on until it notices. The page also
shows the answers to its own requests: one when it is opened and, after the first `onerror`, one every
four seconds for as long as the page is open, whether or not the stream came back (the timer is never
cleared). `full`, `early`, `crossed` and `failed` are history variables: the events that may leave the page
behind. What the module shows of the code: when as many snapshots as the channel holds are broadcast
between the two halves of `Subscribe`, the handler waits for ever in `ch <- initial`, stays
subscribed, and its page is told nothing, not even an error. No document promises otherwise.

### IterationBudget
One action per exit of the loop's body: `RecordToolCall` per call, `FinishTurn` (tool calls done:
quick finish, stuck, or next turn), `Answer`, `NudgeAnswer` (empty or rejected answer), and
`FinalAnswer` after the loop. `RequestExtension` may happen at any moment, which covers the
process-wide controller that lets another prompt's tool extend this budget. `initial` is a
history variable: the code recomputes it.

### BlueprintRunner
`phase` walks through a wave (`StartRole`, `EndRole`, `EndWave`), a save (`Truncate`, `Write`, with
`OpenFails` and `WriteFails`, whose errors the code ignores) and the QA review. `Crash` loses
everything but `disk`; between `Truncate` and `Write` it leaves a torn file, which no later
`Resume` accepts. `serial` is true when the supervisor's mode is not `ModeParallel`; then the
orchestrator's waves are single steps, while `Resume` always uses dependency waves. `doneEver`
and `durable` are history variables. A blueprint has no blank dependency names and every role
has a task; circular blueprints have no `level`, as `BuildWaves` rejects them.

### WebSessions
A *run* is one call of `Run`, a *client* one caller of the other methods, one after another. The name
of a run stands for its `runID`, its cancel function, its client's callback and the supervisor it
creates; a session ID names a session object, which a deleted session's run goes on using. `Start`
is the block under the session's mutex, `EnsureSupervisor` and the two `End` actions the following
ones. Each call that changes something goes on to `Copy` (under the manager's lock) and `Write` or
`FailWrite` (without one). A `Save` that fails (`multisession.go:279-286`) leaves the file as it was or
with a part of the text; `Create`, `Run` and `RecordDirectResult` drop the error, the others return it with
the sessions changed already, and the call goes on the same way in both cases. Until the next `Save`
succeeds, a restart brings back an older state, or none (`failed`, a history variable, says so). A
write that overlaps another, or a kill while writing, may leave a file `Load` cannot
read either, which it takes for an empty one. What the module shows of the code, beside its properties:
`Archived` is read before the session's mutex is taken, so a run may start on a session archived in
between; a run that ends overwrites the status `archived` or `cancelled` only if it is still the
active one; a run replaced between `Start` and `EnsureSupervisor` shares the supervisor of its
replacement and takes over its callback, contrary to the comment at `multisession.go:516`
(`overtaken` marks such sessions). A history is a set of messages; names, the copy of one session
(atomic here), `SetMCPConnections` and `UpdateProviderConfig` are left out.

### SyncDaemon
A delta file is named by its device and number; `place[d][n]` is the directory in which device `d`
has it, `drive[n]` which versions 9Drive has (a file may be uploaded while it is still written).
`delta[n]` is what the file was made from, by local IDs. A cycle over a list of files is several cycles
over one, since only the cycle itself takes files from the directory it lists. `Save` of an imported
memory makes a new local row, which is *unsynced* and exported again: two devices echo each other's
memories without end. No document promises otherwise, so it is modelled and bounded, and no
property is stated about it. Errors of the database that the code ignores, and the engine's state
and metrics, are left out.

### Scheduler
Every process reads the whole list and later replaces the file (`SaveAll`), without a lock. `AddRead` to
`ConfigureWrite` are the two writes of `schedule add`: `Add`, then retries and parent, with its error
ignored; in between the job may already run without them. A pass reads the list twice (`BeginPass`,
`MapJobs`) and never again: a child may run in a pass whose parent has just failed, although the help of
`--after` says the parent must have succeeded first (`schedule.go:237`). Two reads have their errors dropped.
When the second one of a pass fails (`schedule.go:199`, `MapNothing`) the pass knows no parent and runs every due
child. When the second one of `schedule add` fails (`schedule.go:44`, `ConfigureNothing`, and likewise in
`scheduler_handlers.go`) the empty list it is left with replaces the file, and all schedules are gone.
Every other failed read or write ends the command or the pass (`FailMark`, `FailEdit`).
`Scenarios` bounds which processes there are, the faults, and how often jobs fall due. `told` and
`lost` are history variables: what was reported so far (with the passes that were left `blind`), until one
process overwrites what it had not read. Slots stand for `NextRunAt`; the parsing of specs and backoff times is left out. A job's
`EndWorkflow` may fail although its workflow succeeded, when its run log cannot be finished.

### McpClient
A response is named by the call it answers, since the client never compares IDs; a message that
answers none is `Stray`. Over stdio, `server` and `buffer` are the subprocess and its pipe; `ReadTorn`
covers the outcomes of two goroutines in one `bufio.Reader` (not a panic of it). Over HTTP, `mu` is
held from `Post` to the end of `Send`, which queues the response in `respCh` (`buffer`, of `Capacity`);
event streams queue from goroutines of their own. The reply to the `initialized` notification is read
like a response: an empty one (which MCP prescribes) fails the handshake, a JSON one remains
as a stray. Servers are external. Blocking on the subprocess's stdin is left out.

## 3. Properties and runs

Where a run names a combined invariant (`IInv`, `ConsentInv`, `BudgetInv`, `WaveInv`, `SessionsInv`, `SyncInv`,
`SchedulerInv`, `StreamInv`, `McpInv`), its conjuncts include the module's `TypeOK` and the named safety invariants below it.

`orchestration` (`MCOrchestrationExecutor.cfg`, about 99 000 states) — three subtasks: every assignment
of the profiles {Reader, Flaky, Remote} and of {Reader, Writer, Gate} (parallel or not, low or medium
risk, a word that makes it severe, retries with and without backoff, a timeout, a gate asked for by
the planner) to the subtasks of five graphs (free, fork, join, chain, pair), and a cycle that is
refused. Four configurations: the defaults; no limit given, `ContinueOnLowRiskFailure` and one
subtask pre-approved; no parallelism and no approval function; dry run. The user may cancel at any
moment.
`DependenciesFirst`, `SevereOnlyWithConsent`, `SerialRunsAlone`, `ResultsAccountForPlan`,
`FailureSkipsDependents`, `ValidatedPlanSchedules`, the action properties `ResultsAreFinal` and
`SevereFailureStopsPlan`, the refinement `ImplementsPlanRun`, the liveness property `RunEnds`,
and the inductive invariant `IInv` of the proofs. Three subtasks are enough for a batch with two
of them after or before a third, for two queued behind one slot, and for a dependency that is
itself skipped; the schedule, gate and retry logic looks at one subtask or one pair at a time.

`web` (`MCWebOrchestration.cfg`, about 440 000 states, runs and deciders symmetric) — two runs, two
subtask IDs, one of them gated, two answers. Two runs are what a collision of IDs needs, two answers what a dropped or
misdirected one needs. `ConsentInv` has `ApprovedOnlyByUser` and `GatedRunsWithConsent`;
`DecisionNeverDropped`, `ShownIsTrue`, `WaitingIsAnswerable`, and the action property `AnswersShownRun`.

`iteration_budget` (`MCIterationBudget.cfg`, about 2.1 million states) — the modes ask and workflow, the
defaults and a user maximum of 1 (the smallest budget: progress grows past the hard cap
unless clamped), three different tool calls, at most two per turn, requests of 0, 1 and 100.
Three calls are enough for every way to repeat: in a row, oscillating, spread over turns, and
diverse enough to count as progress. `TurnsWithinCeiling`, `NoTurnWhenStuck`, `NudgesWithinBase`,
`BudgetInv`, `LoopEnds`.

`blueprint` (`MCBlueprintRunner.cfg`, about 15 000 states) — four roles as a diamond, two waves of
two, a wide wave with a tail, a chain after a pair, a graph with an edge that skips a wave, and a
circular one that is rejected; two roles at once, up to four processes one after the other. Four
are enough for a record to be overwritten by one resumption and read by the next. `WaveInv` has
`DependenciesFirst`, `CompletionIsTrue` (a process gets to the QA review only when every role has
succeeded) and, in its types, the semaphore's limit; `DependencyOutputsInjected`,
`NoRecordedWaveRunsAgain`, `ProcessEnds`; and the refinement `ImplementsResumableRun`: all processes
of a blueprint together are one run that is interrupted and resumed, `done` being what has succeeded in any
of them, `settled` the roles of the waves that `state.json` once showed to be complete, `stopped` a run
without a process.

`web_sessions` (`MCWebSessions.cfg`, about 1.4 million states) — one session that the file may hold
or not, two runs, one client; `Budgets` gives it two requests and one restart, or one request, one
restart and one `Save` that fails: a failed Save is made good by any later one, and followed by a restart
it loses what was saved. Two runs are what a replacement needs,
two requests what cancelling and changing a session while its run unwinds needs; sessions meet only
in the file and in the supervisors, which the proofs cover for any number. `SessionsInv` has
`RunningIsLive` (a session shown as running has a run in flight that the cancel button reaches) and
`OneRunAtATime` (two prompts in one session only if one was cancelled or a direct result was
recorded). `FileIsCurrent` (when nothing is left to save, and the last `Save` neither failed nor overlapped
another one, a restart would load what is in memory, so that a failed or garbled write is made good by the next one),
`CallbacksKeptApart`, `RunsEnd`.

`sync_daemon` (`MCSyncDaemon.cfg`, about 370 000 states) — two devices, a memory of the first, two rows
and two delta files per device, one fault (a kill, a failed write or download). Two rows and files are
enough for a memory to be exported, come back as an import and be exported again. `SyncInv` has
`MarkedIsExported` (a memory counts as synced only when a complete file has it) and `DoneIsImported`;
`Arrives`: what is saved on one device arrives on the other, unless a file was uploaded
or downloaded in part (`spoiled`), which indeed keeps it away for good. Its safety core is `NothingIsLost`, a
part of `SyncInv`: a memory that is marked as synced is on every other device, or in a file that some
cycle has still to take there and can, or in a spoiled one.

`scheduler` (`MCScheduler.cfg`, about 554 000 states) — a scheduled parent, a child that `add` makes, one retry each; a daemon
with `add` and `remove` and one fault (a kill, a failed write, a failed read), or with `run-due` and one of them; two times at which a job falls due, three with the daemon and `add` alone, where
a parent that has succeeded fails in the pass in which its child is due. Two passes and an editor
are enough for each pair of writers to overwrite each other. `SchedulerInv` has `RetriesCounted`,
`EditsHold` and `HistoryTold` (both until an update is lost); the action property `ParentSucceeded` (a child
starts only when the last run of its parent has succeeded, unless one of them has changed since the pass began, the
pass is blind, or an update was lost);
`DueJobsRun`, which holds however updates are lost.

`mcp_client` (`MCMcpClient.cfg`, about 320 000 states) — the handshake and three calls, three strays, a
channel of two places instead of ten: what matters is whether strays and abandoned calls reach the
capacity, and they do. `McpInv` has `AnswersMatch`, `AnsweredOnce`, `BufferAccounted`, `LinesInv` (as many
lines come from the pipe as calls read); `CallsEnd`:
every call returns, unless the channel is clogged (Send waits in it with the mutex held and
nobody receives) or reads tore the pipe.

`event_stream` (`MCEventStream.cfg`, about 640 000 states) — a page with two connections and two requests,
three changes of the snapshot, one fault, a channel of two places instead of eight: two changes fill it,
and a third is lost or blocks `Subscribe`. `StreamInv` has `StreamIsCurrent` and `StreamInOrder` (what a stream carries
last, and in which order), `QuietPageIsCurrent` (a page with nothing on its way is up to date, but for
the four races of the history variables), `SubscribeFindsRoom`; `SubscribeReturns` (unless the channel was filled first) and
`PageCatchesUp` (a page that polls shows the last snapshot in the end, whatever its streams lost).

Three runs check what a comment or document says and find it violated:

* `orchestration_cancel`: a cancelled batch goes on starting handlers (`CancelStopsBatch`).
* `web_failure`: a run with a failed subtask ends as a success in the store (`FailureIsSurfaced`).
* `blueprint_resume`: resuming a serial run overwrites records of completed roles
  (`CompletedRolesRemembered`).

Deadlock is checked, and a system that has ended stutters (`Terminated`, `Rest`, `AllDone`), but for
`sync_daemon`, `scheduler`, `mcp_client` and `event_stream`: there the bounds, or a clogged channel, may leave nothing
to do.

### Delimited, not prevented
Some of the hazards in `PROJECT.json` are things the code lets happen. Where no document promises
otherwise they are not findings, and the properties say exactly when they happen and that nothing else
goes wrong with them; the hazard's note says which part is caught and which is excepted.

| The code lets it happen | Excepted by | Still shown |
|---|---|---|
| Web runs that overlap lose each other's waiters and overwrite each other's results | `~overlap` in `ShownIsTrue`, `WaitingIsAnswerable`, `AnswersShownRun` | `ConsentInv`: no yes counts for another call |
| A kill tears `state.json`; the workflow cannot be resumed | `Resume` refuses the file | a torn file is not taken for a new record (`NoRecordedWaveRunsAgain`, with a mutant that does) |
| A `Save` of the sessions fails or overlaps another one; a restart loads an older state or none | `failed`, `overlapped` in `FileIsCurrent` | the next `Save` makes it good; no session runs for ever |
| A delta file is uploaded or downloaded in part and never comes whole | `spoiled` in `Arrives` | nothing else keeps a memory away |
| Updates of the job file are lost; `add` may replace it by an empty list | `lost` in `EditsHold`, `HistoryTold` | they hold until then; due jobs run all the same, unless they are gone with the list |
| A child runs after its parent failed in the same pass, or in a pass that read no list | `told.moved`, `told.blind` in `ParentSucceeded` | otherwise it waits, until an update is lost |
| MCP calls that overlap, or come after one that gave up, get other calls' answers; the channel clogs; the pipe tears | `AnswersMatch`, `CallsEnd` | answers are delivered once and accounted for; only that clog or tear blocks |

The sixth contradicts the help of `--after`. The run `scheduler` reaches it, since without the exceptions
`ParentSucceeded` is violated there.

### Fairness
* Executor: weak fairness of the main goroutine and of each subtask's execution. The Go scheduler
  runs every goroutine, a blocked `sem <-` is served when a slot is free, a handler is a call
  that returns (its agentic loop ends: `LoopEnds`), and `WaitApproval` has a timeout. Cancellation
  is not fair: the user need not cancel.
* Budget: weak fairness of the loop. A turn of the provider has a timeout; that a tool call and the
  last answer (which has none) end is an assumption. Requests for more are not fair.
* Blueprint: weak fairness of the living process; crashes and resumptions are not fair.
* Web sessions: weak fairness of a run that was begun: its locks are held for a moment, and the request's
  context ends its prompt. Nobody has to call anything, and restarts are not fair.
* Sync daemon: weak fairness of each cycle of each device: the engine's tickers begin them again and
  again. Users, and faults, are not fair.
* Scheduler: weak fairness of the steps of a pass: the daemon's ticker, and a workflow that was
  started ends. Editors, faults and time are not fair.
* MCP client: weak fairness of each call's steps: Go's mutex is fair, and HTTP calls have timeouts. That
  a subprocess answers in the end is an assumption about the server (stdio calls have no timeout).
* Event stream: weak fairness of each handler and of each request of the page: the browser's timer fires
  and requests end, with an answer or an error. Changes, faults and reconnections are not fair.
* `ApprovalBroker` and `WebOrchestration` make no liveness claim and assume no fairness.

## 4. Proofs

TLAPS checks every proof for all values of the constants that satisfy the named assumptions.

**`OrchestrationExecutorProofs`** – assumptions: finitely many subtasks with IDs in `Nat`; drafts and configurations of
their types. `IInv` is the conjunction of `TypeOK` and four parts. `DependenciesFirst` alone is not inductive:
that a ready subtask's dependencies have succeeded *stays* true only because earlier batches
have final results, the current one is untouched while it runs (`LoopInv`), and batches are
disjoint waves in dependency order (`ScheduleInv`). `SevereOnlyWithConsent` needs that the
guardrail's decision still stands when the handler is called (`ScheduleInv`) and that a gated
subtask that was attempted is in `granted` (`TaskInv`). `SerialRunsAlone` needs that a batch in mode
parallel has only subtasks that may be parallel (`ScheduleInv`) and the count of active ones
(`SlotInv`). That a valid plan is schedulable uses a subtask of least rank among the unscheduled
ones (`WaveExists`, from the library's well-foundedness of the naturals) and that the guardrail leaves
dependencies alone (`ValidInv`). `SevereFailureStopsPlan` needs that no severe failure is stored
while batches are taken (`MildInv`). The closing step is described once (`ClosingStep`): it takes a map in
which whatever is present is what the execution came to, and whatever is missing was never started
(`Accounted`), and fills the gaps. The two properties of a closed run (`ClosedInv`) and the last case of the
refinement (`PlanClose`) follow from it. The refinement maps every action to one of `PlanRun`, or to a
stutter (`PlanSubtask`, `PlanMain`). Proved: `TypeCorrect`, `InvariantHolds`, `DependenciesAlwaysFirst`,
`SevereAlwaysWithConsent`, `SerialAlwaysRunsAlone`, `ResultsAlwaysFinal`, `ValidPlansSchedule`,
`SevereFailureAlwaysStops`, `EveryResultAccounted`, `DependentsAlwaysSkipped`, `RunsImplementPlanRun`. The safety core of `RunEnds` is proved without
ENABLED: `NeverStuck` (the guards of the fair actions, written out, hold of some goroutine until
`Execute` returns), `AttemptsBounded`, and `RunAdvances` (each step but a cancellation takes one subtask, or
the main goroutine, forward and none back).

**`WebOrchestrationProofs`** – first the broker on its own (`BrokerSafe`), for any waiters, deciders
and assignment of IDs: a channel in the map was handed to nobody (`MapInv`), one decider at
most has a channel, and what is in it was said by that decider (`ChannelInv`). Then every step of
the web server is a step of the broker or leaves it alone (`WebUsesBroker`), so that the broker's
invariant carries over: `ApprovalComesFromUser`, `NoDecisionDropped`, and with a small invariant about the
gate `GatedSubtasksHaveConsent`; `WebTypeCorrect`; together `ConsentHolds`. What the page shows needs `DisplayInv`, which holds while
runs do not overlap: the busy run is the only one and is the one that is shown (`ScreenInv`), a call of
WaitApproval that has not returned belongs to a subtask that asks and is shown as waiting (`AskInv`),
and what waits is in the map or in the hand of a decider (`ReachInv`). From it: `ShownStaysTrue`,
`WaitersAreAnswerable`, `AnswersReachShownRun`.
The module also has the proofs about `EventStream`, for any connections, requests, changes and capacity
(`StreamSafe`). What a stream carries last is not inductive without `ConnInv`, which says where the
snapshots of a connection are before and after the first one is sent, nor is what the page shows
without `PageInv`, which relates it to its stream and to the answers on their way.
`SubscribeCanSend` is the safety core of `SubscribeReturns`.

**`IterationBudgetProofs`** – `BudgetInv`: `hardCap = initial + granted` (what makes the recomputed ceiling
right), `base + granted <= current <= hardCap`, a turn is only given below the limit, and a
repetition in the window has been noticed in this turn (`RepetitionInv`), for which the proof
follows the window as it is trimmed. `BudgetInvariant`, `BudgetTypeCorrect`, `CeilingHolds`,
`StuckModelIsStopped`, `NudgesAreBounded`. The safety core of `LoopEnds`: `TurnsAreBounded`, by the ceiling, also those
that only nudge, and `LoopAlwaysLeadsOn` (no step of the loop but one more call, of which there are
finitely many, or a later phase or turn).

**`WebSessionsProofs`** – for any sessions, runs, clients and restarts (`SessionsSafe`, `FileCurrent`,
`CallbacksApart`), with any number of failed Saves. `RunningIsLive` follows from `HeldInv` (the run a session knows is in flight on it, its
cancel function is the active run's and was not called) and `OneRunAtATime` from `FlightInv` (a run in
flight is the one its session knows, or was cancelled, or a direct result came in between). Restarts
need `FilesInv` (a file holds a session as a whole or not at all). `FileIsCurrent` needs `CopiesInv`: a
copy made without an overlapping Save is what is in memory, unless a call has still to save. A failed Save
leaves the property without claim, and the next one establishes it anew.
`CallbacksKeptApart` needs `SupervisorsInv`: whose supervisor is whose, session by session. All steps
are first sorted into nine kinds (`StepCases`), and each part is then proved kind by kind.
The safety core of `RunsEnd`: `RunsNeverStuck` (a session shown as running, also a deleted one, has an
active run whose next step can be taken) and `RunsLeadOn` (each step of a run takes it to a
later one of seventeen places, and no other step sets it back).

**`SyncDaemonProofs`** – `SyncSafe`: `SyncInv` for any devices, memories and bounds. `MarkedIsExported` is not
inductive without `NamesInv` (numbers are used in order, and what a file was made from never
changes in its device's rows) and `CyclesInv` (what each cycle knows of the file it works on).
`NothingIsLost` follows with `PartsInv`: whatever is in part only is known to be spoiled, or is being
loaded. `CaughtUpHasAll` is the safety half of `Arrives`: when a device has nothing left to export or
push, and another one has put aside all its files, the other one has all its memories.

**`McpClientProofs`** – `McpSafe`, for any calls, capacity and number of strays, over both transports:
an answer is in one place only (`PlaceInv`), and without overlapping calls what is on its way is for
the call that waits (`OrderInv`). `OwnAnswers` and `ClogIsPaidFor` follow from it: a channel that blocks
`Send` for good was filled by as many strays and abandoned calls as it has places. `ClientNeverStuck` is
the safety core of `CallsEnd`: the mutex is held only by the one Send that is under way
(`MutexInv`), and a call that reads has a line in the pipe or one to come (`LinesInv`), so that somebody
can go on as long as a call is under way, unless the channel is clogged or the pipe torn.

**`BlueprintRunnerProofs`** – for any roles, levels, limit of the semaphore and number of kills and
resumptions. That a role's dependencies have succeeded relates three pieces of state no single step
keeps in step: the record (`FileInv`, `MemInv`: what it calls complete has succeeded), the roles the process
has behind it (`PassedInv`), and where it resumed. `NoEmptyLevel` and `NoEmptyStep` show that no wave is empty,
so that the wave a process resumes from (`ResumeFromIs`) is behind all it has to repeat; a record of
dependency waves has no gaps (`NoGaps`), no role has succeeded before one of an earlier wave
(`DownwardClosed`), and of every wave once recorded as complete that one or a later one still is (`Endures`).
Proved: `TypeCorrect`,
`RunnerInvariant`, `RolesInOrder`, `WavesInOrder`, `CompletedMeansAllRoles`, `OutputsInjected`, `RecordedWavesRest`;
and the refinement `RunsImplementResumableRun`, which maps a kill or a start of a process to an
interruption or a resumption, the end of a role to its success, and everything that only moves waves, the
record or the file to a stutter, or to a settlement when the record becomes complete.
The safety core of `ProcessEnds`: `RunnerNeverStuck` (a living process can go on, and its loop has at
most as many turns as there are roles) and `ProcessLeadsOn`. `OnlySerialResumeForgets` delimits the finding
`CompletedRolesRemembered`: in a first process, and in a parallel one, no completed role is forgotten.

**`SchedulerProofs`** – for any jobs, daemons, editors and faults. The heart of `ScheduleInv` is `CopyInv`: until
an update is lost, a list that was not replaced since it was read is the file but for the one entry
its process has changed, and that one is the file's entry marked, configured or removed. Then
`EditsInv` and `HistoryInv` survive each write (`SaveInv` and one lemma per writer); `UnbornInv` says that nobody
knows of a job before it is added, and `PassInv` what a pass still knows of jobs that have not moved.
The retries are the failures in a row modulo one more than there may be (`MarkedAgrees`). Proved:
`TypeCorrect`, `ScheduleInvariant`, `ListIsTrue`, `ChildrenAfterParents`, and `DueJobsStayDue`, the safety half of
`DueJobsRun`: until an update is lost, what is due stays so until a run of it is marked or it is
removed. (A lost update may put a later slot back into the file.)

## 5. Only model-checked
Liveness (`RunEnds`, `LoopEnds`, `ProcessEnds`, `RunsEnd`, `Arrives`, `DueJobsRun`, `CallsEnd`,
`SubscribeReturns`, `PageCatchesUp`): the prover has no support for fairness and
ENABLED. For most of them the safety core is proved (section 4): that somebody can go on, with the guards
of the fair actions written out, and that every step leads on. That these together give the
liveness property, and that the guards as written out are those of the actions, is left to TLC. Not for
`Arrives` (but for its last state), `DueJobsRun` (but for `DueJobsStayDue`) and
`PageCatchesUp`. The properties of the runs that expect a violation are there to fail.

## 6. Not modelled
Durations and text; resource locks and conflict findings of the guardrail (nothing reads them);
the worker's repairs (one answer per call); the planner (its drafts are inputs); rendering
of the report and the UI view; tool execution, prompts, provider fallback of the
supervisor; providers, gateways, device tools (I/O); the memory store (single SQL statements
and heuristics); the language server client (the MCP client's shape, for diagnostics); `src/pkg`,
which holds earlier copies of the internal packages.

*Cloud memory* was read and not modelled, since little of its protocol is reached by the program:
`checkBudgetBeforeWrite` has no caller but tests, and nothing creates the table `_cloud_pull_staging`, so
that the states about conflicts do not occur. What remains is `Push` and `Pull` of the Supabase
and D1 providers, where one successful upload marks all rows of the batch as synced
(`supabase/sync.go:86`); updates are never queued; rows are keyed by the local autoincrement ID, so that
devices collide; and the time of the last sync is stored as zero, so that a pull always sees
the same first 200 rows.

Smaller things not modelled: `executeOne` calls `cancel()` before it reads the context's error, for which
see section 2; when planning fails the blueprint engine runs the prompt without the gate (modelled as
its callbacks only); the process-wide budget controller (covered by `RequestExtension` at any moment).

## 7. Plan
Done: the modules above, in the order of section 2. What is left, in this order:

1. `Push` and `Pull` of the cloud providers, once their reconciliation is reached by the program.
2. Safety cores of the remaining liveness properties: a polling page (`PageCatchesUp`), a delta file on
   its way (`Arrives`), the passes of the scheduler (`DueJobsRun`).
