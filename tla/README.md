# TLA+ models of Jinwu

Jinwu is an agent that carries a scientific question from a research plan over
one or more bounded experiments to a reviewed conclusion. This directory holds
TLA+ models of the parts of it whose correctness depends on the order in which
things happen: which file is written before which, which process reads a state
that another one is about to replace, what a process that dies leaves behind.
Numbers, texts and model calls are data here.

All paths below are relative to the repository; its Python packages are in
`src/` (the research services) and `jw/` (the agent and its host).

| module | what it is |
|---|---|
| `ExperimentRun` | the lifecycle of one automatic-experiment run, write by write |
| `RunContract` | what a run promises, without files and phases |
| `MCExperimentRun` | the instances TLC checks |
| `ExperimentRun_proofs` | the theorems about `ExperimentRun` for calls that overlap |
| `ExperimentSerial_proofs` | the theorems about it for calls that do not, and its refinement of `RunContract` |
| `MemoryPipeline` | memory workers, their watchers, the scheduler and the linkers of the host process |
| `ObservationLedger` | what the pipeline promises about one observation |
| `MCMemoryPipeline` | its instances for TLC |
| `MemoryPipeline_proofs` | the theorems about `MemoryPipeline` |
| `ReviewStore` | the files and the run state of one research task, what may happen next, and every transaction |
| `ResearchReview` | the tool calls that drive the store: producers, reviewers, the report |
| `ReviewGate` | what the review promises: nothing is built on, or published from, what no review accepted |
| `MCResearchReview` | its instances for TLC |
| `ResearchReview_proofs` | the theorems about `ReviewStore` and `ResearchReview` |
| `ReviewBudget_proofs` | the theorem about its budgets |
| `ReportCoherence_proofs` | the theorem about its reports, for one or two calls in a response |
| `ChannelConsumer` | the inbound consumer of the chat channels: queue, workers, locks, approvals, stop |
| `MCChannelConsumer` | its instance for TLC |
| `ChannelConsumer_proofs` | the theorems about `ChannelConsumer` |
| `AsyncNotifier` | the watchers of asynchronous subagents and their notifications |
| `TurnLoop` | the turns of the terminal application, which launch those agents and are told of their ends |
| `CompletionLedger` | what the notifier promises about completions |
| `MCTurnLoop` | the instance of `TurnLoop` for TLC |
| `TurnLoop_proofs` | the theorems about `TurnLoop` with its watchers |

## 1. Inventory

### Automatic experiment (`src/automatic_experiment`)

*Parts.* `service.py` has one function per call (`inspect_inputs`,
`validate_and_store_design`, `prepare`, `execute`, `verify`, `finalize`,
`finalize_interrupted`, `stop`); `state.py` loads and saves `state.json`;
`attempts.py` creates an attempt directory; `executor.py` launches the sandbox
and watches it; `verification.py` gives the verdict; `reporting.py` writes the
bundle; `paths.py` copies the inputs; `bridge.py` exposes the calls to another
process; `jw/tools/automatic_experiment.py` exposes them to the agent.

*State.* One directory per run. `state.json` holds the phase, the active stage,
the current attempt, the attempt counters, the outcome and the hashes of the
verified record and of the report. Around it: the input snapshot, the response
and the design, one directory per attempt, the stage records, the released and
the frozen artifacts, `record.json`, `audit.md`, `report.md`,
`entry_result.json`, and the marker `cancel.requested`.

*Interaction.* Each call loads `state.json` into a dictionary, checks the phase
of that copy, writes some other files, and stores the copy. No lock covers a
call (only the design validation of a research-scoped run takes one). The
callers are the agent's tools, the bridge started as a process of its own, and
the user who stops a run while the agent works.

*What is hard.* Two calls interleave between any two writes and overwrite each
other's state; a process dies between two writes and a restarted one finds
half of a call's files; a stop races every other call; the verdict, the
artifacts and the history of a stage are written one after the other; the
bundle is five files and a checkpoint; an interrupted run must still be
published from wherever it stopped.

*Correct when* the attempts charged never exceed either budget and the account
adds up; the attempt named by the state is complete on disk; an attempt is
executed at most once; a published bundle is consistent and about the current
attempt; a verdict rests on the recorded execution; history rows point to their
own evidence; a finished run never changes; every interrupted run is published.

### Memory pipeline (`jw/gateway/background_runs.py`, `jw/memory`, `jw/middleware/memory_lifecycle.py`)

*State.* In the host process: the registry of active workers with the snapshot
taken before each (`_active_runs`), the observation files already counted
(`_counted_observation_files`), the registry of linkers and the number of
launches in progress, and the scheduler's pending ids. On disk: the
observation files. On the server: the runs. *Operations:* when a turn ends,
launch a worker run and a thread that watches it; when the run ends, credit
what it wrote and queue it; when no worker is active, take the pending ids as a
batch and launch a linker; queue the observations the agent's own tool wrote;
report the pipeline idle.
*Hard:* a watcher thread per run, workers that overlap and see each other's
files; a worker leaves the registry before its output is recorded; answers that
do not arrive, watchers that give up or cannot start, cancelled tasks; files
read while another process writes them; a popped batch has no second copy.
*Correct when* an observation is credited once and reaches one linker, what a
watched worker wrote is credited, what waits is handed over or given up and
never vanishes, and a running linker is visible to the idle wait.

### Research review and closed loop (`jw/research_review.py`, `jw/tools/research_review.py`, `jw/middleware/research_review_orchestration.py`, `jw/middleware/research_router.py`)

A research task passes five stages (plan, data, hypothesis, experiment design,
experiment result), then an integration of all of them and a final report. A
specialist produces each stage, a reviewer judges each version of it.
*State.* One directory per task: artifacts and verdicts, a numbered file each
and never changed; receipts of failures, recoveries and reopenings; and
`run_state.json` with the task's status, a status per stage, the actions and
reviews spent and the files that are registered. *Operations:* compute the one
action allowed next (`next_action`), reserve it, checkpoint what a specialist
wrote, submit a verdict, draft and deliver the report, block after repeated
failures, recover, reopen. *Interaction:* the supervisor's model calls tools;
the middleware lets each do only the allowed action, and runs the calls of one
response together.
*Hard:* what is accepted is computed from files, and the run state is a summary
that is saved afterwards; stages are revised one by one while later ones still
refer to older versions; calls overlap, and each looks at the store several
times; a task that was blocked is set to active again from five places; budgets
are looked at here and charged there; and a used-up budget is saved without the
lock, so that such a save and a transaction may undo each other.
*Correct when* nothing is built on or published from what no review accepted,
the report rests on one coherent body of work, the summary agrees with the
files, the budgets hold, a block stays until something new happens, and the
loop does not ask for the same thing for ever.

### Async subagent notifier (`jw/cli/async_notifier.py`, `jw/background.py`, `jw/middleware/async_watcher.py`) and the turns of the terminal application (`jw/cli/tui_interactive.py`)

*Parts.* A middleware around the tools that launch a subagent starts a watcher
for each run; a watcher follows the run's stream, joins it again if it closes
too early, and leaves a notification for the session that launched the task; a
poller of the application starts a consumer, which batches notifications,
drops those the agent knows of, and starts a turn that tells it of the rest.
*State:* the watcher registered for each task, a queue of notifications per
session, the flags `_busy` and `_notification_consuming`, the task of the
current turn, the messages the user typed meanwhile, the current session.
*Operations:* launch, update and check a task, watch, report, type, order,
interrupt, poll, drain, read, inject, begin and end a turn.
*Hard:* a stream says nothing about its run; an update interrupts the run whose
watcher is in flight; the flags are looked at before tasks of the event loop
are created, and seconds before the turn begins; sessions change meanwhile.
*Correct when* only a run that has ended is announced, each is told once, in the
session that launched it, no replaced run is announced, every end is told, and
every queued message is sent.

### Channels (`jw/channels`)

*Parts.* Ten adapters put messages on a bus; `InboundConsumer` runs the agent on
them; outbound messages are delivered with retries; a manager starts and
restarts the adapters. *State of the consumer:* the bus's inbound queue, a
bounded work queue, a pool of workers, a lock per chat (beyond 10 000,
unused ones are evicted), the prompt and the question each chat waits on, the
chats that approve everything. *Operations:* read a message, take it, answer a
prompt or a question with it, run the agent, ask, time out, stop.
*Hard:* everything shares one pool: a worker that waits for a reply keeps its
place and its chat's lock, and the reply must be taken by another one; a reply
races its timeout; whoever is registered for a chat is unregistered by chat;
`stop` talks to the workers through the queue that may be full.
*Correct when* messages of a chat run one at a time and in order, an action is
approved by a reply of its own chat and a reply approves one action, nothing
stays registered for a worker that has gone on, every message is handled, and
`stop` returns.

### LangGraph dev server manager (`jw/langgraph_dev`) and desktop supervisor (`desktop/electron`)

Start, reuse, health-check and stop of child processes shared by several
clients. *Correct when* one server serves all, and a client never stops the
server another one uses.

### Knowledge base store (`src/knowledge_base`)

SQLite tables for entries, confirmations and growth candidates. *Correct when*
a candidate is confirmed once and the index agrees with the entries.

### The rest

Planner and hypothesis services, research quality, reproduction service, Pi
bridge, sessions and workspaces, agent graph and prompts, scientific data and
forecasts, the web interface and the display, configuration and providers. They validate
documents, call external programs, compute numbers or present text; their
control flow is sequential or belongs to the language model. `PROJECT.json`
lists each of them with the reason it is left out.

## 2. How the modules correspond to the code

### `ExperimentRun`

**One action is one write.** A call is a sequence of actions of one caller `c`.
`Begin(c, op)` is `load_state` with the call's phase guard; then every write of
the run directory is an action; the call's return or its exception is `Leave`.
What the caller holds in memory between two writes is explicit: `pc[c]` is the
next write, `mem[c]` the caller's copy of `state.json`, `held[c]` the record it
has built or read. Other callers act in between and `mem[c]` goes stale, as in
the code. `Die(c)` forgets `pc`, `mem` and `held` and leaves the files.

| code | actions |
|---|---|
| `inspect_inputs`, `snapshot_inputs` | `SnapshotCopy`, `SnapshotWrite`, `SnapshotBlocked`, `SnapshotCommit` |
| `validate_and_store_design` | `DesignRespond`, `DesignTerminal`, `DesignWrite`, `DesignRefused`, `DesignCommit` |
| `prepare`, `prepare_attempt` | `PrepareBudgetStop`, `PrepareRefused`, `PrepareMkdir`, `PrepareDescribe`, `PrepareCommit` |
| `execute`, `execute_attempt` | `ExecuteBudgetStop`, `ExecuteStart`, `Launch`, `ExecuteFails`, `SandboxEnds`, `ExecuteFinish`, `ExecuteCharge` |
| `verify`, `verify_attempt` | `VerifyAttempt`, `VerifyRefused`, `VerifyStore`, `VerifyRepair`, `VerifyFreeze`, `VerifyTransition`, `VerifyAggregate`, `VerifyCommit` |
| `finalize`, `finalize_report` | `FinalizeRecover`, `FinalizeRefused`, `FinalizeVerified`, `FinalizeEarly`, `FinalizeEarlyCommit`, `WriteAudit`, `WriteReport`, `WriteEntry`, `FinalizeCommit` |
| `finalize_interrupted` | `InterruptVerified`, `InterruptRecord`, `InterruptCommit`, `Reload`, then `finalize` |
| `stop`, `request_stop` | `StopMark`, `StopSave` |

**What is abstracted.**

- A hash is the id of the record it was computed from; every record written
  gets a new id. "The hash matches" is equality of ids.
- The four scientific outcomes behave alike and are one value.
  `clarification_required` also stands for `input_missing` and
  `method_mismatch`. What generated code does in the sandbox is the choice of a
  stop reason; what the verifier thinks of it is the choice of a verdict among
  those the recorded stop reason allows.
- Time is one Boolean, `late`: the run clock that applies has expired. It is
  reset when the first attempt starts the execution clock and it does not run
  between the validated design and that attempt, as in
  `_remaining_run_seconds`.
- The removal of the cancel marker and the writing of `execution.json` at the
  end of a sandbox are one step. So are other groups of files that no call
  reads apart (`code/` and `output/` with the attempt's directory, the two
  copies of a stage's record).
- A run has at least one input file: an empty snapshot directory could not be
  told from an absent one.
- `launches`, `deaths`, `stops` are history and bounds, not files.

### `MemoryPipeline`

**One index per turn.** A turn `w` ends in `after_agent`; the thread that runs
it launches a worker, the worker's watcher thread ends its accounting, and the
same call may launch a linker. These act one after the other, so one program
counter `pc[w]` follows the chain, and `held[w]` is what its thread carries:
the file the tool is writing, the difference of the two snapshots, the credited
files, the batch. The linker's own watcher is `linkerWatch[w]`. Turns overlap
freely. An action ends where another thread or process can be seen to act: at
a lock, at a request to the server, at a read of the directory.

| code | actions |
|---|---|
| `after_agent`, `aafter_agent` | `BeginTurn`, `LaunchSkipped`, `Cancelled` |
| `launch_background_run` with the hooks of `_memory_worker_launch_hooks` | `TakeSnapshot`, `Submit`, `SubmitUnanswered`, `Register`, `StartWatcher`, `WatcherFails` |
| `watch_background_run_sync` | `PollEnds`, `WatchLost` |
| `mark_memory_worker_finished` | `Unregister`, `Sample`, `Credit` |
| `record_worker_finished`, `record_worker_aborted`, `flush_ready` | `QueueAndDrain` |
| `_launch_ready`, `launch_observation_linker` | `OpenLaunch`, `LinkerSubmit`, `LinkerUnanswered`, `LinkerRefused`, `LinkerRegister`, `LinkerWatched`, `LinkerUnwatched`, `CloseLaunch`, `LinkerWatchEnds` |
| `record_observation` of the agent, `record_observation_created` | `DirectWrite`, `DirectClose`, `DirectNote` |
| the server's process: worker and linker tools | `WorkerWrites`, `LinkerAmends`, `Written`, `WorkerEnds`, `LinkerEnds` |

**What is abstracted.**

- An observation is its file, named by the hash of its content; a file is there
  from the moment it is opened, and nobody reads an id from it while `writer`
  says somebody writes it. A run ends when its tools have returned.
- That the file is absent and that it is opened are one step: two processes
  that record the same content at the same moment write the same file.
- A snapshot of the directory is one step. A walk that misses a file created
  meanwhile is a snapshot taken a little earlier.
- The ids of the credited files are read and queued in one step with the drain.
- A run's success and failure have the same effect here. Failed polls below
  the limit change nothing.
- One memory directory and one project, hence one batch key.
- `handed` and `dropped` are history.

### `ReviewStore` and `ResearchReview`

`ReviewStore` has the facts the code computes from the files (`Accepted`,
`DependenciesCurrent`, `NextAction` ...) under the names of the code, and every
transaction as two halves: what the file becomes and what the run state
becomes. `ResearchReview` composes them into calls. An action ends where the
store's lock is given up or another agent runs; the process may die between the
halves (`DieInCheckpoint`, `DieInVerdict`, `DieInRelease`).

**The save without the lock.** A transaction loads and saves the run state under
the lock. `next_action` and `bounded_stage_action` do not: `load_state` takes
the lock and gives it back, and when a budget is used up `_save_state` writes
the loaded copy as `blocked` later, without the lock. `unsaved` has that copy,
per thread (`Lookers`): `LoadsExhausted` takes it, `SavesBlocked` writes it
however much was saved since. The write may also fall between the load and the
save of a transaction, which then overwrites it: every transaction saves with
`Save`, which drops any of the pending copies (`Overtakes`). And it may fall
between two loads of one transaction: `submit_verdict` loads the run state for
its ruling and again to enter the verdict, and recovery to see whether the task
is blocked and again in its checkpoint. What is found then is one of
`MayFind`, and it is written for good (`Finds`). A call returns when its copy is
saved or overwritten (`ReturnExhausted`); other threads (`Look`) look on their
own. A death loses the copies.

| code | actions |
|---|---|
| `_prepare` of the middleware | `Begin`, `Decide` or `DecideExhausted` with `ReturnExhausted`, `FailedTwice` with `StopAfterFailures` or `RaiseUnknownStage`, `Reserve` |
| a producer's run, `_after`, `checkpoint_producer_result` | `ProducerReturns`, `ProducerFails`, `FinishProducer` |
| `review_context`, `submit_verdict`, `_after` | `OpenContext`, `SubmitVerdict`, `ReviewerGivesUp`, `FinishReview` |
| `prepare_release` | `ReadIntegration`, `PrepareRelease` |
| `accepted_release_markdown`, `mark_release_delivered`, in the router | `Deliver` |
| `next_action` by the router and by `evidence_review_get_status` | `Look` |
| `_save_state` of `next_action` and `bounded_stage_action`, in whatever thread | `SaveBlocked` |
| `recover_canonical_producer_after_tool_failure` | `Recover`, in `Begin` |
| `reopen_tool_failure_after_harness_change` | `OperatorReopens` |
| the host | `Abandon` (a cancelled call), `Restart`, `NewTurn` |

**What is abstracted.**

- An artifact is its stage and version, with what it refers to and which
  verdict it answers. Of the canonical sources it was made from, the model
  keeps whether there are any, and whether they are still those of the latest
  version; that is all `checkpoint_producer_result` asks of their hashes.
- The deterministic checks inside `submit_verdict` can only turn a verdict into
  a revision or a block, and both are among the verdicts a reviewer may give.
  `accept_with_limits` behaves as `accept`. Beyond the owner, the major issues
  of a revision are their fingerprint.
- The tool calls of one response run together (`Return` ends the batch when the
  last one returns); a second call in a batch, a failed specialist, a verdict
  that does not accept, a crash and a cancelled call each count as a mishap.
- With the report accepted the router drops the tool calls of a response, hence
  the guard of `Begin`; calls that had begun before go on.
- A reviewer may open its context again; it has to when its round is refused.
- A look reads the files at the moment it loads the run state, and a look that
  wants the integration reviewed writes it then. In the code other transactions
  may come in between. A call that chose from files of two moments is stopped
  later by what its transaction checks again: the budget, the accepted
  dependencies, the accepted stages. A thread beside the calls that is so slow
  may write an integration of accepted but not current stages; it is not
  modelled (section 6).
- Failures of a specialist are counted up to two: two end the turn.

### `ChannelConsumer`

All of it are tasks of one event loop, so an action ends where a task waits:
`_handle_message` up to the lock, the stream up to a prompt or a question, a
wait up to its reply or timeout.

| code | actions |
|---|---|
| `run` | `Read`, `Put`, `LoopEnds` |
| `_worker`, `_handle_message` | `Take` with `Answer`, `Decide`, `Interrupt` or `Ask`; `Wake` (the lock), `Exit` (a sentinel) |
| `_stream_with_hitl` | `StreamEnds`, `AutoApprove`, `AskApproval`, `Approval`, `ApprovalTimesOut` |
| `_wait_for_ask_user_reply`, `_resolve_ask_user` | `AskUser`, `UserAnswer`, `QuestionTimesOut` |
| `_evict_chat_locks` | `EvictLock` |
| `stop` | `Stop`, `DrainTimesOut`, `Cancel`, `Stopped` |

**What is abstracted.**

- A message is a number with its chat. What it says (approve, reject, approve
  all, anything else) is chosen when the code first looks at it, which keeps
  the model small and changes nothing: nobody can tell before.
- `asyncio.Lock` is fair: a lock that is free while somebody waits for it goes
  to whoever waits longest, and `locked()` says no meanwhile. A lock that is
  evicted then gets a successor (`lockOf`).
- The shortest timeout is 30 seconds, so nothing times out while a task could
  go on, but for a reply that comes at the same moment (`Urgent`).
- The questions of one ask are one question. The gateway is the local one,
  where looking up a thread id does not wait.
- A message whose worker is cancelled by `stop` gets no answer and is not
  `handled`.

### `AsyncNotifier` and `TurnLoop`

Everything is a task of the application's event loop, so an action ends where
a task waits. `turns` are the tasks that run a turn or have been created to:
`new` until the task runs, `opening` until the stream begins, `run`,
`stopping` after an interrupt, and `tidy` or `tidied` in the `finally` of
`_run_turn`, after which only `tidy` goes on with the queue.

| code | actions |
|---|---|
| `watch_run_and_notify` | `SeesError`, `StreamCloses`, `RunHasEnded`, `Rejoin`, `GiveUp` |
| `awrap_tool_call`, `spawn_watcher` | `StartTask`; `UpdateTask` (with `PreCancel`), `Updated`, `UpdateFails`; `Spawn` (with `SpawnWatcher`) |
| `on_chat_text_area_submitted`, `action_request_quit` | `Type`, `Order`, `Interrupt` |
| `_poll_channel_queue` | `PollChannel`, `PollNotifications` |
| `consume_notifications` | `StartConsuming`, `DrainMore`, `ReadTasks`, `Inject` |
| `_run_turn` | `Start`, `Open`, `EndMessage`, `GoOn` |
| `_process_channel_message`, `_handle_command` | `Start`, `Open`, `EndChannel`; `Start`, `EndCommand` |

**What is abstracted.**

- A message is a number of its kind. A run is `running` until it ends well or
  badly on the server, or is interrupted by the next run of its task.
- `runs.get` that fails and one that answers "still running" both lead to the
  next attempt; the wait between them is no step.
- The grace of consume is `DrainMore`: again while a watcher of the session is
  active, one last time at any moment, as the deadline may be over.
- What the agent knows of a task (`async_tasks`) is the run it launched last and
  whether it has checked that this run has ended. It calls one tool at a time
  within a turn; turns overlap.
- A command is one that changes the session (`/new`, `/resume`).

### Faulty variants

Some operators of the modules, marked as such, are what the code would be
with a plausible bug (a forgotten guard, a counter not updated, two writes
swapped). They take no part in `Next`; they are there to show that each
property notices the bug it is meant for.

## 3. What TLC checks

Constants of `ExperimentRun`: one or two callers; stages, attempts in total and per stage; the
stages that produce artifacts; the terminal outcomes the design routes to; the
calls each caller makes; how many deaths and stop requests.

| run | instance | shows |
|---|---|---|
| `serial` | 1 caller making every call in any order, 2 stages with artifacts, 3 attempts, all of which one stage may take, 1 death anywhere; 628 000 states | `TypeOK`; the inductive invariant `SerialInv`; `BundleIsConsistent`, `LaunchedAtMostOnce`, `HistoryIsBacked`, `StageCountsAddUp`, `FinalizedIsFrozen` (nothing of a finished run changes while nobody stops it), and that the run implements `RunContract` (`KeepsContract`), which implies that a published outcome never changes and that no attempt is charged after it |
| `interrupted` | the same without deaths, 1 artifact stage, under `FairSpec`; 30 000 states | `MeetsContract`: the run implements `RunContract` with its fairness, so it is published from wherever its calls stopped, if the design routes no stage to a terminal `technical_failure` (run `wedged` shows why the condition is there) |
| `concurrent` | 2 callers, one carrying the run up to the verdict, one preparing and stopping it, 1 stage, 2 attempts, 1 stop; 34 000 states | `BudgetsHold`, `NamedAttemptIsComplete`, `OneWriterPerAttempt`, `RecordRestsOnFacts`, and the inductive invariant `IInv` |
| `reexecuted`, `wedged`, `stale_bundle` | small instances | disagreements of section 5 |
| `memory_overlap` | 2 turns, 2 observations, 1 lost launch or watch, symmetric; 1.1 million states | `TypeOK`; `HandedAtMostOnce`: a worker's observation never reaches two linkers; `WorkerOutputIsCredited`: nothing a watched worker wrote goes uncredited; `LinkerIsVisible`: a linker that runs shows in the status the idle wait polls; `KeepsLedger`: the pipeline implements `ObservationLedger` |
| `memory_settles` | 2 turns, 1 observation, nothing lost, `FairSpec`; 60 000 states | `WaitingIsSettled`: an observation that waits is handed over or given up |
| `review_loop` | full research and a request bounded to two stages, 2 calls in a response, a third thread that looks, 2 mishaps, patience 1; 248 000 states | `TypeOK`; `StageStatusIsBacked`: the summary says what the files say, for every mode of which no save was lost; `ReportIsCoherent`: a delivered report rests on one body of work, with the inductive invariant `CoherenceInv` behind its proof; `BudgetHolds`: what is reserved and entered stays within the budgets, but for the calls under way when a save without the lock has erased charges, with the inductive invariant `BudgetInv` behind its proof; `BlockIsLiftedForCause`: a block goes for a cause, and one that is overwritten was for a budget that is used up all the same; `KeepsGate`: the loop implements `ReviewGate` |
| `review_asked` | one call at a time, 1 mishap | a disagreement of section 5 |
| `channel_pool` | 2 workers, 2 chats, 3 messages, queue of 2, 2 rounds of approvals, 1 evicted lock per chat, a stop at any moment, `FairSpec`; 167 000 states | `TypeOK`; `NothingOutlivesItsWorker`; `ChatIsSerial`: one message of a chat at a time, in order; `ApprovedByItsChat`; `TimesOutForWantOfWorkers`: a prompt whose answer has been sent is given up only when no worker is free to take it; `EveryMessageIsHandled`, unless the consumer is stopped; `StopReturns` |
| `turn_loop` | 1 task with 2 runs, 2 sessions, 1 reconnect, any 2 inputs (typed messages, channel messages, commands, interrupts), `FairSpec`; 300 000 states | `TypeOK`; `KeepsPromise`: the notifier implements `CompletionLedger`, so only ended runs are announced and each is told once, in the session that launched it; `NoneIsStale`: no replaced run is announced, unless two turns update the task at once; `EveryEndIsTold`, while the user stays in the session and the busy flag is not stuck; `QueuedIsSent`: what is queued during a message turn is sent |

**Why the bounds are enough.** For `ExperimentRun`: two stages are the fewest with a transition and
a last stage, hence with history, aggregation and per-stage counters that
differ from the total. Three attempts let a stage be repaired twice, which is
what it takes to repair a failure whose bundle was half written, fail again and
go on from there, and let the run run out before a stage does; that a stage
runs out before the run does is explored by `interrupted`. Two callers are the fewest that race; every pairwise
interleaving of their writes is explored. One death suffices to leave every
partial call behind, and the calls after it find it; a second death during the
recovery is not explored. `CHECK_DEADLOCK FALSE`: a run ends, and so does a
caller with nothing left to call.

For `MemoryPipeline`: two turns are the fewest whose workers see each other's
files, block each other's batch and launch linkers at the same time; two
observations let one wait while the other is credited, and let a batch hold
one of the tool's and one of a worker's. `MaxLost` bounds, over all turns, the
launches without an answer, the cancelled tasks and the watches given up; one
leaves every partial chain behind for the other turn to meet. Linkers without
an answer and linker watches given up are not bounded. The theorems hold for
any number of each. `CHECK_DEADLOCK FALSE`: turns end and no other begins.

For `ReviewStore` and `ResearchReview`: a task without mishaps needs 15 actions
(five stages, each produced and reviewed, the updated hypothesis with its
review, the integration, the report with its review) and 8 reviews. `MaxActions`
= 19 and `MaxReviews` = 10 leave room for two revisions and are few enough for
both budgets to run out; patience 1 makes the second identical revision a block.
Two mishaps are the fewest with which a revision meets a second call, a crash
meets a recovery, or a reopened stage is blocked again. The route of two stages
covers the bounded form. Three threads look, so that two different copies may be
unsaved at once. The instance reaches what the save without the lock can do: the
counter of the reviews and that of the actions are set back, one review more
than `MaxReviews` is entered, and blocks are overwritten by reservations,
checkpoints and verdicts, with and without a death. An action beyond
`MaxActions` takes three calls in a response and is left to the theorem. Two
calls are symmetric. The theorems hold for any
budgets, any number of calls and any number of mishaps. `CHECK_DEADLOCK FALSE`:
a delivered or blocked task stops.

For `ChannelConsumer`: two workers and two chats are the fewest where a chat can
starve another, where one worker waits and another takes the reply, and where
both wait. Three messages make a task, its reply and a late one, or a task with
another in line for the lock. A queue of two fills up, so that `Put` waits and
`stop` loses sentinels. Two rounds are the fewest with a prompt after a prompt
and a last round. `CHECK_DEADLOCK FALSE`: users stop writing.

For `TurnLoop`: two runs are the fewest with a replaced one, two sessions the
fewest between which a completion can go astray. The agent launches, updates and
checks as it likes. Two inputs make every pair that interferes: two turns that
overlap, a message queued during a turn that tells, a command or an interrupt
during the consumer's wait. Three (10 million states and more) are beyond the
run's time; without liveness they were explored in part. `CHECK_DEADLOCK
FALSE`: users stop typing.

**Fairness.** In `ExperimentRun`: `WF_vars(Step(c))`: a call that has begun makes its next write.
The only step that waits is the end of the sandbox, which has a wall limit in
the supervisor and a guard in the parent process beyond it. `SF_vars(Begin(c,
"interrupt"))`: the host that started the run calls `finalize_interrupted`
again and again while the run is unfinished. The bridge offers the call as its
mode `finalize-interrupted` for that; that the host makes it is an assumption
about code outside `src/`, and strong fairness is needed because other calls of
the same caller may keep it busy. Nothing is assumed of any other operation:
no attempt need ever be prepared or executed, no user need stop the run.

In `MemoryPipeline`: `WF_vars(HostStep(w))`, a thread of the host that can go on
does (a turn that has begun ends in `after_agent`); `WF_vars(WorkerEnds(w))`,
the server ends every run, by its timeout at the latest; `WF_vars(Written(o))`,
a file that is being written is written. No turn need begin, no tool need
record anything, linkers need not end. The run sets `MaxLost` to 0: a worker
whose watch is given up does not drain what waited for it, and one whose task
was cancelled stays registered, so only a later turn, or none, releases what
waits. The code promises nothing else.

In `ChannelConsumer`: weak fairness of the loop, of `stop` and of each worker.
The event loop runs every task that can run, the two waits for a reply and the
drain have timeouts in the code, and a stream that is silent is cut
(`inference_timeout`); that one which keeps talking ends some time is an
assumption about the agent. Nobody has to write, no lock has to be evicted, and
the consumer need not be stopped.

In `TurnLoop`: weak fairness of the poller (a timer of 0.1 s), of the consumer
(its waits have deadlines), of the turns as tasks of the event loop, and of the
watchers of a run that has ended, whose stream the server closes, or that wait
for `runs.get`. Strong fairness of the end of turns: an agent that goes on calling
tools that fail could otherwise keep its turn for ever; that it does not is an
assumption about the agent. No run has to end, no stream of a live run has to
close, the user need not type and the agent need not launch anything.

`ResearchReview` states no fairness: what ends the loop is a budget, and that
is the invariant `BudgetHolds`.

## 4. What is proved

### `ExperimentRun`, calls that overlap

`ExperimentRun_proofs` proves, for any set of callers, any number of stages and
attempts, any number of deaths and stops, and any assignment of operations to
callers:

| theorem | states |
|---|---|
| `Invariance` | `Spec => []IInv` |
| `TypeCorrectness` | `Spec => []TypeOK` |
| `Budgets` | `Spec => []BudgetsHold`: charged and left always add up to the request's limit; no stage exceeds its own |
| `NamedAttempt` | `Spec => []NamedAttemptIsComplete`: the state names only attempts whose directory and description exist, for the active stage |
| `StageCounts` | `Spec => []StageCountsAddUp`: the attempts of the stages add up to the attempts used |
| `OneWriter` | `Spec => []OneWriterPerAttempt`: two calls of `prepare` never write one attempt |

The assumptions are those of the module: bounds are natural numbers (stages and
budgets positive), artifact stages are stages, terminal targets are outcomes a
design may name, operations are service calls.

**The argument.** `BudgetsHold` speaks of `state.json` only, and is not
inductive: the next write may come from a caller whose copy was loaded long
ago. The invariant therefore says of *every* copy, on disk or in memory and
however stale, that it is `Sound`: its counters add up, no stage is beyond its
limit, and the attempt it names, if any, is complete on disk and was made for
the copy's stage. Two facts keep an old copy sound while others write. The
files it refers to only grow: no call removes an attempt directory, and
`attempt.json` is written once, by the call that created the directory
(`OneWriterPerAttempt`, because `mkdir` refuses an existing directory). And
every save is a function of one sound copy, never a mixture of two: a lost
update loses progress but not the account. That the counts of the stages add up
is part of `Sound` too. A sum over stages is a fold, and what a fold computes
needs induction over data; so the model counts the set of single charges (a
stage and the number of one of its attempts), which `prepare` enlarges by exactly
one. `CallerIsSound` adds what the place
in a call implies (a caller about to describe attempt `n` created its
directory, has budget left, and so on). The module has one lemma per service
call, each with one step per write.

### `ExperimentRun`, one call at a time

`ExperimentSerial_proofs` goes on from there, for any number of stages,
attempts, deaths and stops:

| theorem | assumes | states |
|---|---|---|
| `VerdictsRestOnFacts` | one caller executes, any number do the rest | `Spec => []RecordRestsOnFacts` |
| `SerialInvariance` | one caller | `Spec => []SerialInv` |
| `ExecutedOnce` | one caller | `Spec => []LaunchedAtMostOnce` |
| `BundlesAreConsistent` | one caller | `Spec => []BundleIsConsistent` |
| `HistoryNamesTheEvidence` | one caller, no stage routed to `technical_failure` | `Spec => []HistoryIsBacked` |
| `FinishedIsFinal` | one caller | a finished run changes only by the `cancel_requested` of a late stop |
| `FinishedIsFrozen` | one caller that makes no stop | `Spec => FinalizedIsFrozen` |
| `ContractIsKept` | one caller | `Spec => KeepsContract`: every behaviour of the run is one of `RunContract` |

The hypotheses are needed, and each is what section 5 is about. With two
callers that execute, an attempt is launched twice (run `reexecuted`) and its
facts are replaced after a verdict has been given on them. With two callers of
any kind one renders what the other has replaced. A stage routed to a terminal
`technical_failure` is closed and may be repaired all the same, which replaces
the stage record that its history row names. A stop has no phase guard. One
caller is the program as it is meant to be used, an agent that makes one tool
call at a time or a host that calls the bridge, and it may die in any call.

**The argument.** With one caller the copy it works on is `state.json`, but for
what it saves next (`CopyIsCurrent`), so each place in a call has its phase on
disk (`PhaseIsRight`). An attempt is charged before it is launched, and the
phase `execution_started` is saved before the sandbox is: whatever dies, no
later `execute` is admitted for that attempt (`LaunchesAreCharged`).
`BooksAgree` is what a death leaves behind between `record.json`, the save of
its hash, the two reports and the entry: an entry that names the present record
names the present reports and the outcome of that record; and unless the record
is a technical failure, a state that has verified it still has its attempt and
its outcome. The exception is `Repairable`: `prepare` is then admitted, and
state and record go separate ways (run `stale_bundle`). `HistoryInv` adds that a
stage is closed once, either left by its transition or with a record that
admits no repair (`StageIsClosed`), so no record of a later attempt is ever
stored under a stage the history names. For the contract, `prepare`'s commit is
a charge, the last save of `finalize` is the publication, with the outcome of a
record by `BooksAgree`, and every other step stutters.

### `MemoryPipeline`

`MemoryPipeline_proofs` proves, for any finite sets of turns and observations
and any number of lost launches:

| theorem | states |
|---|---|
| `Invariance` | `Spec => []LedgerInv` |
| `TypeCorrectness` | `Spec => []TypeOK` |
| `HandedOnce` | `Spec => []HandedAtMostOnce` |
| `NothingUncredited` | `Spec => []WorkerOutputIsCredited` |
| `LinkersAreVisible` | `Spec => []LinkerIsVisible` |
| `LedgerIsKept` | `Spec => KeepsLedger`: every behaviour of the host is one of `ObservationLedger` |

**The argument.** `HandedAtMostOnce` looks at linkers only, and the next one
may be launched by any thread from any batch. `LedgerInv` follows a worker's
observation through all the books of the host: it is in the pending ids, in the
share of one thread, or with one linker, and never in two of these (`OnePlace`);
and it enters the first of them through `_counted_observation_files`
(`OnlyCreditedMove`), which lets it in once. Only four kinds of step move
observations between the books: the tool's note, a credit, a drain and a
submission. Each has a lemma; every other step is quiet (`QuietStep`). Where a
thread is says whether it carries anything (`EmptyHanded`, `NotedAreDirect`).

`NothingUncredited` needs an invariant of its own, `CreditInv`: what a worker
writes is new to the snapshot taken before its run existed, it stops writing
before a watcher that sees the end looks again, and so the second snapshot has
all of it. `LinkersAreVisible` counts: `VisibleInv` says that
`_linker_launches_in_progress` is the number of threads inside a launch (so its
`max(0, ...)` never cuts anything off, and one launch that ends does not hide
another), that a linker is registered before its launch leaves that count, and
that only its own watcher takes it out of the registry. For the refinement,
`EveryStepMoves` says what one step can do to
one observation, and `LedgerMoves` reads that as a step of the ledger.

### `ReviewStore` and `ResearchReview`

`ResearchReview_proofs` proves, for any finite set of calls in a response, any
budgets, patience, revision limits and routes, and any number of mishaps:

| theorem | states |
|---|---|
| `Invariance` | `Spec => []IInv` |
| `TypeCorrectness` | `Spec => []TypeOK` |
| `StatusesAreBacked` | `Spec => []StageStatusIsBacked` |
| `BlocksAreLiftedForCause` | `Spec => BlockIsLiftedForCause` |
| `GateIsKept` | `Spec => KeepsGate`: every behaviour of the loop is one of `ReviewGate` |

and `ReviewBudget_proofs`, under the same assumptions:

| theorem | states |
|---|---|
| `BudgetInvariance` | `Spec => []BudgetInv` |
| `BudgetsHold` | `Spec => []BudgetHolds` |

**The argument.** `IInv` is `StoreInv` for the store, and for the calls
`CallTypes`, `BookTypes` and `CallsMakeSense`. `StoreInv` says that a revision
names an owner its mode allows (else `next_action` has no owner to ask), that
whatever an artifact or a verdict refers to exists, and of *every* run state
that may be in the file now or later (`Known`: the file and each unsaved copy)
that its books name existing files and that its status of a stage is backed. The
last one holds because whatever moves a mode's latest version or its last round
also writes its status, in the same transaction, and a copy that missed it does
not have the file in its books: for a file that is not registered nothing is
promised until something registers the mode again. The lemmas sort the
transactions into steps of the run state alone, of one new artifact and of one
new verdict (`StoreStep`), prove the invariant once for each kind, and show that
every action is one of them.

For `BlocksAreLiftedForCause` the invariant has `PendingIsSpent`: as long as
some copy is unsaved, all known run states are out of one and the same budget,
since each of them is an unsaved copy or was made from one, or from the file,
with counters no lower. So what overwrites the block, or a crash that loses it,
leaves that budget used up. A block that *is* in the file goes for the causes the property lists
only: nothing but a checkpoint, a verdict, a reopening and the delivery of a
report sets the status.

For `BudgetsHold` the charges are counted apart from the run state (`charged`),
for what an unlocked save erases the run state does not know. `BudgetInv` says
of each counter: either it has counted everything, and then the check before
each charge keeps the budget; or a save has set it back (`setBack`). That save
was of a run state out of a budget, as all that may come later are. If it is out
of *this* budget, nothing more is charged to it; if of the other one, no call
gets a new action, and what is left to charge here are the calls that are under
review, or about to reserve. As this budget was not used up when the copy was
loaded, they go beyond it by less than the calls of one response. The proof puts
each step into one of five kinds (nothing is charged, an action is given out, a
copy is loaded, an action is reserved, a verdict is entered) and shows that each
keeps both counts. Of the actions of a bounded request nothing is claimed: its
loop does not look at their budget, only `reserve_action` does.

For `GateIsKept`: files only grow (`FilesGrow`), so an acceptance is never taken
back; a checkpoint is refused unless what it is built on is accepted; the
integration is written only when every stage is; the release names the
integration that its call has seen accepted (`CallsMakeSense`), however many
calls came in between. One step builds at most one version and accepts at most
one.

`ReportCoherence_proofs` goes on from there with the assumption `AtMostTwoCalls`: a
response of the model has one or two tool calls. They overlap as they like, and
everything else stays: revisions of any stage by any owner, refused checkpoints,
recoveries, blocks, reopenings, restarts and deaths between two writes.

| theorem | states |
|---|---|
| `CoherenceInvariance` | `Spec => []CoherenceInv` |
| `ReportsAreCoherent` | `Spec => []ReportIsCoherent` |

**The argument.** A report names an integration that was accepted, so it is
enough that every integration ever written is coherent
(`IntegrationsAreCoherent`); what is written later cannot change that, since
files only grow. `LatestIsCoherent` is the step that matters: when no stage is
open and the result has been interpreted (`Settled`), each stage refers to the
latest version of each of its dependencies, and because an artifact refers to one
version of a stage only (`RefsAreUpstream`), to no other. `NextAction` writes an
integration just then. But `review_context` and `submit_verdict` also bring the
integration up to date, and ask for accepted stages only, not for current ones.
What the second call of the response may do meanwhile is therefore the heart of
the proof. It may well store a new version of a stage under the reviewer's feet,
but then that stage is not accepted and no integration is written; what it may
not do is to accept one (`AcceptsNothing`). `ReviewsAreSettled` says both:
while an integration is under review the stages are settled or one of them is
not accepted, and the other call accepts nothing. It cannot get to a review of a
stage because a response has no third call, and because a call that recovers a
stage after a death gets an action only while the budget lasts: a block that was
saved without the lock, over whatever, is again of a budget that stays used up
(`SpentIsForGood`). For the same
reason no review of an integration begins beside a review of a stage
(`UndecidedMeansOpen`). `CoherenceInv` is checked in the run `review_loop`.

The hypothesis is needed. With three calls one reviews the integration, one
makes a new version of a stage and one accepts it, before the first submits its
verdict: the integration it then writes mixes two bodies of work, and
`IntegrationsAreCoherent` is false. For that mixture to be delivered it must
also be accepted, drafted and reviewed as a report by calls that began before the
loop noticed. TLC follows such an execution with eight calls in one response, so
`ReportIsCoherent` does not hold for any number of calls; for three to seven
nothing is claimed.

### `ChannelConsumer`

`ChannelConsumer_proofs` proves, for any number of workers, chats, messages,
queue places, rounds and evictions:

| theorem | states |
|---|---|
| `InductiveInvariant` | `Spec => []IInv` |
| `TypeCorrect` | `Spec => []TypeOK` |
| `NothingIsLeftBehind` | `Spec => []NothingOutlivesItsWorker` |
| `ActionsAreApproved` | `Spec => []ApprovedByItsChat` |
| `ChatsAreSerial` | `Spec => []ChatIsSerial` |
| `LateForWantOfWorkers` | `Spec => TimesOutForWantOfWorkers` |

**The argument.** A message is in one place on its way from the bus over the loop
and the queue to a worker, and messages are taken in the order they were sent
(`QueueIsInOrder`, `WorkIsTaken`): what a worker takes is newer than all that
any worker has, has answered or has started, so each chat's line for its lock is
in that order too.
Whoever holds a lock, or waits for one, stands in line for the lock of its own
chat; while no lock of the chat has been evicted that lock is the only one, and
its holder alone runs the agent. What is registered (prompts, questions,
auto-approval) belongs to a worker that waits for it, whichever way the wait
ends. The lemmas abstract the workers' steps into few kinds (a step of the
agent, a reply taken aside, leaving the line, taking a message), prove each part
of the invariant for the kinds, and show that every action is one of them.
A reply is one worker's and has approved nothing before (`RepliesAreNew`).
`TimesOutForWantOfWorkers` rests on the timeouts, which are minutes, being taken
only when the loop has nothing to do at once: then the queue is empty or no
worker reads it.

### `TurnLoop` with `AsyncNotifier`

`TurnLoop_proofs` proves, for any sets of tasks and sessions, any number of
runs, reconnects and inputs:

| theorem | states |
|---|---|
| `InductiveInvariant` | `Spec => []IInv` |
| `TypeCorrect` | `Spec => []TypeOK` |
| `NothingStaleIsAnnounced` | `Spec => NoneIsStale` |
| `PromiseIsKept` | `Spec => KeepsPromise`: every behaviour of the terminal application is one of `CompletionLedger` |

**The argument.** A run is launched by one turn, at most one watcher follows it,
and the register names the watcher of a run no newer than the latest. A
completion that is announced waits in one place: in the queue of the session
that launched its task, in the batch of the consumer, or in the batch of a turn
that is about to tell it; `IInv` says these are disjoint and that whatever is in
them is about a run that has ended. Few steps touch them: the lemmas treat
quiet steps, launches, watchers and the consumer in turn, and `EveryStep` says of
each step that it is elsewhere, settles a batch, or announces one completion,
which are the actions of the ledger.

### Only model-checked

Liveness (`MeetsContract`, `WaitingIsSettled`, `EveryMessageIsHandled`,
`StopReturns`, `EveryEndIsTold`, `QueuedIsSent`) and anything with `ENABLED` are
beyond the prover: these six properties stay with the runs `interrupted`,
`memory_settles`, `channel_pool` and `turn_loop`. Every invariant, every action
property and every refinement without fairness that a passing run checks is
stated by a theorem, under the hypotheses the tables give.

## 5. Where the code and what is said of it differ

| run | property | what happens |
|---|---|---|
| `reexecuted` | `LaunchedAtMostOnce` | Two overlapping `execute` calls both read `attempt_prepared`, and `execute_attempt` looks for execution facts before the sandbox has produced any: the attempt runs twice. The tool says that each attempt executes at most once. A single caller with one death does keep the promise (run `serial`): the phase is saved before the sandbox starts. |
| `wedged` | `InterruptedRunIsReported` | A stage routed to a terminal `technical_failure` writes `record.json` and `prepare` still accepts a repair. If the repair fails repairably too, `record.json` and the saved hash are still about the earlier attempt; once the budget is gone `finalize` and `finalize_interrupted` raise for ever. |
| `stale_bundle` | `FinalizedRecordIsCurrent` | `finalize` of a repairable failure writes its bundle and dies before the last checkpoint. `prepare` still accepts a repair; when that fails repairably too, the next `finalize` finds the old `entry_result.json` and recovers it, comparing it with the files and the outcome but not with the attempt or the verified hash of the state. The run is published with the record of the earlier attempt, which `finalize` refuses when there is no entry ("record.json belongs to an older attempt and cannot be finalized", `src/automatic_experiment/service.py:265`). |
| `review_asked` | `AnsweredIsNotAskedAgain` | A revise verdict about a stage names an upstream owner. Its new version is reviewed and accepted, but the stage that was reviewed keeps its version and its verdict, so the same revision is asked of the upstream owner again and again, until it changes nothing and fails twice, or the budget is gone. `research/review/README.md:50` says that a new version invalidates the conclusions drawn from the old one. |

Also seen, without a run of its own:

- An observation of the agent's own tool is queued by the tool and, if a worker
  runs meanwhile, credited to that worker and queued again; two linkers may be
  handed it. `HandedAtMostOnce` is about workers' observations for that reason.
- A task cancelled while `on_started` runs in its thread leaves a worker
  registered that nobody watches; no batch leaves the scheduler after that.
- A worker whose watcher cannot start is ended while its run goes on. A file it
  is just writing has no readable id: the scheduler skips it, but it has been
  counted already, so it is credited to no later worker and reaches no linker,
  although `record_worker_aborted` says that it queues persisted observations from
  an abandoned worker. The same happens to a file another worker is writing.
- Three failed polls forget a worker without looking at what waited for it.
- Linkers that overlap each count the relations of the other.
- Between the removal of the last worker and the launch of its linker neither
  is visible to `wait_for_memory_pipeline_idle`, which polls twice to step over
  the gap.
- `stop` says that a cancelled run cannot be resumed accidentally
  (`jw/tools/automatic_experiment.py:110`), but no call checks
  `cancel_requested`; only the outcome `finalize_interrupted` suggests uses it.
- A cancel marker written when no sandbox runs stays behind and cancels the
  next one.
- `stop` saves the state it loaded before writing the marker, and `execute`
  saves twice: progress saved by another call in between is undone. The
  theorems show that the budgets and the named attempt survive this.
- A death inside `prepare_attempt` leaves an attempt directory that no later
  `prepare` accepts and that no call removes, though the attempt was never
  charged; a comment in `prepare` says that a later resume still receives the
  full budget. The run can still be published.
- After a terminal `technical_failure` the stage that was closed is repaired
  under the same stage id: the row of its first attempt then points at the
  stage record of the repair. `HistoryIsBacked` is proved without that target.
- A death while the inputs are copied makes the next inspection end the run as
  `boundary_blocked`.
- A budget refusal of `prepare` replaces the outcome of a verified run whose
  bundle lacked only its last checkpoint, which makes that bundle fail its own
  validation.
- `stop` has no phase guard and rewrites `state.json` of a finished run
  (`FinalizedIsFrozen` holds while nobody stops it);
  `research/experiment/自动实验Agent技术说明.md:72` says that finished runs are not
  modified.
- The state of run `wedged` is also reached without a terminal technical
  failure, by a death between the record and the state save of a call.

Of the research review:

- A block that a reviewer or the store forced is lifted by
  `recover_canonical_producer_after_tool_failure` if an older failure receipt of
  the same stage is lying there and the sources have changed.
- With a budget multiplier of 1 at most 7 reviews are allowed and 8 are needed:
  such a task can never release its report.
- `block_for_review_failures` knows no stage `integration` and raises: a reviewer
  of the integration that fails twice never blocks the task
  (`RaiseUnknownStage`).
- When a reviewer reaches the limit of transient outages,
  `block_for_tool_failures` is called with `solar-evidence` as the producer; its
  owner check raises and nothing is blocked.
- `next_action` never looks at the status `released`: a delivered task at the
  edge of its budget becomes `blocked` when somebody asks for its status.
- A checkpoint of a call that began before a block sets the task to active
  again; so does a second parallel verdict that overrides a block.
- The repair branch of `reopen_tool_failure_after_harness_change` lifts a newer
  block for a change it has been told of before.
- The exemption for a post-result hypothesis is that of the phase
  `hypothesis_update` only: after an `integration_revision` of the hypothesis
  the design and the result are made and reviewed again.
- `next_action` and `bounded_stage_action` save a used-up budget without the
  lock, although the docstring of `_transaction` (`jw/research_review.py:574`)
  says "Serialize read-modify-write transitions across threads and workers." A
  verdict or a reservation that another thread saves after the load is erased
  with its charge; the verdict's file stays and counts as before, but a call that
  is past its reservation may then have a verdict entered beyond
  `max_review_invocations`. And `reserve_action`, `ensure_integration_artifact`
  or any other transaction under way may overwrite the block, so that the task is
  active again without a cause, until a look finds the budget used up once more.
  `BudgetHolds` and `BlockIsLiftedForCause` say how far that goes.
- A death between a verdict's file and the run state gives a review that is
  not charged. `BudgetHolds` counts the verdicts that were entered.
- With three overlapping calls a report may be delivered whose integration is
  no longer the current one, because `prepare_release` reads it before it takes
  the lock.
- With eight calls in one response even a report that mixes two bodies of work
  may be delivered: `ensure_integration_artifact` asks for accepted stages and not
  for current ones, and reviewers and drafters that began earlier carry the
  mixture through (section 4).
- Two reviewers that submit in parallel: the one that loses restores the
  sidecar files of the other's round.

Of the channels:

- A prompt is given up although its answer has been sent when every worker
  waits, for a prompt or for a chat's lock; five quick messages of one chat
  suffice in the default pool. The prompt says "(Auto-reject in 2 min if no
  reply)". A reply that comes out of the queue after its prompt was given up
  answers the next prompt of the chat.
- A second reply that comes before the first has woken the worker replaces it.
- After the last round (`_MAX_HITL_ROUNDS`) an approved action is dropped
  without a word.
- A chat's lock may be evicted between its release and the moment the next
  worker in line wakes up; two messages of the chat then run at once, although
  `jw/channels/README.md` promises per-chat serial locks, and each unregisters the
  other's prompt. `ChatIsSerial` is about chats whose lock was not evicted.
- A message that is read while the consumer stops is dropped, one that waits
  for room lands behind the sentinels, and the message of a cancelled worker
  gets no answer.
- With the server's gateway `_get_thread_id` waits between looking up a thread
  and storing it: two messages of a new sender may get a thread each.

Of the notifier and the terminal application:

- Turns overlap. The busy flag is looked at when the consumer is scheduled, and
  the consumer may wait three seconds before it starts its turn; a turn clears
  the flag and then waits for the status display before it takes the next
  queued message; a second input may come before the task of the first has
  run. The end of one of the turns clears the flag and `_run_task` for both.
- Messages queued while a channel's turn or a command runs, or typed after an
  interrupt and before the turn has stopped, or while a turn that fails to get
  the agent runs, wait until another message turn ends, although the comment
  says "Queue the message to send after current turn finishes".
- A message typed in the gap after a turn overtakes the queued ones. A command
  that is queued is later sent to the agent as text.
- An interrupt during a channel's turn or a command clears the flag while they
  go on. A turn that tells of completions and is cancelled before it begins
  leaves the flag set; the next interrupt clears it (`Stuck`).
- Channel messages that arrive while the application is busy are taken out and
  put back ten times a second, which rotates two of them.
- A run that fails after its stream has closed cleanly is announced as a
  success, on purpose (a stale status is thought likelier).
- An update that fails leaves the old run without a watcher. Two turns that
  update one task at once may register the older run's watcher last. What is
  queued for the session already survives an update, and is told.

## 6. Not modelled

Of the run: replays and continuations of finished runs (they create a new run),
the design validation budget of research-scoped runs, the knowledge write-back
after finalization, the content of contracts, reports and sandbox programs. Of
the memory pipeline: profile files, the counters of the status bar, the
contents of relations, the idle wait, autoskills, a second memory directory or
project. Of the research review: texts and the deterministic checks of them
(they are among the verdicts), the assessments beside a verdict, the sidecar of
the execution state, outages, and a cancelled call whose thread goes on after
its response is over, but for its look at the store (a thread of `Lookers`); the
mark at the end of a bounded request (`_mark_bounded_result_released`, which loads
and saves the run state outside a transaction, in the router after a response of
the model); those who read `run_state.json` without the lock (the tools of an
experiment, `jw/tools/automatic_experiment.py:126`, for its stage, and
`jw/middleware/closed_loop_orchestration.py:303`, for the id of its task); a look beside the calls that
reads the files at one moment and writes the integration at a later one (it may
write one that mixes bodies of work, which the next look finds outdated). Of the
channels: the bus's own limits, thread ids, the
questions of one ask one by one, a `run` task that is cancelled, the debounce
of `base.py`, outbound delivery, the manager and the adapters. Of the notifier: background
processes, unrouted notifications, the loops of the Rich CLI and of serve mode,
the forwarding of an answer to a channel. Of the terminal application:
commands sent by channels, commands that keep the session, editing and removing
queued messages, approvals and questions within a turn, exit, display. Of the
repository: the other components of section 1; they are documents, prompts,
numbers, pages and processes, and their share of the source is by far the
largest.

## 7. Plan

1. **`ExperimentRun`** with `RunContract` and its proofs: done.
2. **`MemoryPipeline`** with `ObservationLedger` and its proofs: done.
3. **`ReviewStore`, `ResearchReview`** with `ReviewGate` and the proofs: done.
4. **`ChannelConsumer`** and its proofs: done. Left of the channels: debounce
   and outbound delivery.
5. **`AsyncNotifier`, `TurnLoop`** with `CompletionLedger` and the proofs: done.
   Left: background processes and the serve loop.
6. **`DevServer`** and **`Supervisor`**: shared child processes with crashes.
7. **`DesignBudget`**: the validation lock and budget of research-scoped runs,
   composed with `ExperimentRun`.

Theorems next: `ReportIsCoherent` for three calls in a response, which would have
to follow a mixed integration and show that it is never accepted.
