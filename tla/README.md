# A TLA+ model of the gpui workspace

This directory holds TLA+ specifications of the state machines at the core of
the repository, TLC configurations that check them on small instances, and
TLAPS proofs of the invariants that matter most for all sizes. `PROJECT.json`
lists the runs, the mutants that show each property can fail, the lines of code
every definition stands for, the hazards and the theorems.

    tlc -config MCDatabaseLifecycle.cfg MCDatabaseLifecycle    # a run
    tlapm DatabaseLifecycleProofs.tla                          # a proof module

## 1. Inventory

The workspace is a set of desktop applications on the gpui toolkit and the
crates they share. One foreground thread runs the user interface and polls all
foreground tasks; blocking work and the tokio runtime run on other threads.
Dropping a foreground task cancels it at its next suspension point.

| Part | State it keeps | Operations | What is hard about it |
|---|---|---|---|
| `crates/gpui-operation` (refresh, repair) | phase, last good data, problem, the task in flight | load, refresh, retry, settle, complete, cancel, repair | late results, destruction of tasks as the only cancellation |
| `app/jaco` conversation runtime | entry per conversation, errors, run key, recovery, shutdown flag; per run a cancellation token, publication channel, listener, approval broker | submit, launch, publish, approve, deny, stop, shut down, recover | completions racing stops, closing queues, wrapping keys, restarts |
| `crates/jaco-agent` runtime | row of a run, provider steps, usage, tool invocations with approvals, entries | begin, execute, approve, finish, cancel rows, recover rows | a loop dropped with database commands in flight, failing commits, rows without a run |
| `app/jaco` database | operation, session and permits, lock file, database file and backup | execute, refresh, retire, reopen, back up and create, quit | jobs on their own threads, crash between file steps, other processes |
| `app/jaco` conversation registry and resources | models, catalog, generation of the runtime | retain, page, focus, retire | a generation replaced while the old one shuts down |
| `jaco-agent` OpenAI sessions | slot per conversation | acquire, close, expire | nested locks, a slot removed while somebody waits |
| `app/jaco` MCP, OAuth | connection per server, callback listener, credential queue with a busy flag | connect, authorise, remove, clean up | callbacks after removal, readers held back by the flag |
| `app/jaco` file watch | registrations, watch roots with modes and reference counts, a bounded inbox, a wake channel of one | bind, drop, record a native event, pump | a disk that changes meanwhile, partial failure of the native watcher, overflow |
| `app/jaco` configuration | the file and its lock, the store's operation, a probe, the mark of a missed change | commit, reload, repair, probe | other writers, blocking work that outlives its task, drafts in conflict |
| `app/jaco` layout, hotkeys, temporary window | files and window handles | load, save, register | rollback of a failed registration |
| `app/http-client` request run | phase, head, progress, task | send, cancel, redirect, collect | messages of a replaced task, size limits |
| `app/feiwen` fetch run | page counter, outcome per page | start, cancel, save | half saved pages |
| `app/novel-download` | stream of chapters | start, cancel | partial files |
| `crates/gpui-form` | values, occurrences of optional payloads, issues, bindings of native controls | edit, install a model, bind, validate, submit | late asynchronous results, edits and projections that cross in the effect queue |
| `crates/gpui-store` | value, subscribers, projections | set, observe, select | notification during an update |
| `jaco-core`, `jaco-db`, `jaco-conversation` | records in SQLite | typed reads and writes | migrations |
| `platform-ext`, `window-ext`, `app-theme`, `app-assets`, `gpui-heatmap`, `gpui-tokio`, `xtask` | none or a cache | adapters, drawing, packaging | nothing concurrent of their own |

How the modelled parts meet. The window owners call the conversation runtime
on the foreground thread. The runtime starts one task per attempt; the task
calls the agent runtime on tokio, which writes rows through the persistence
port and publishes to a channel that a listener on the foreground thread
passes on to the registry. The persistence port is a `SessionDatabaseExecutor`:
each of its commands takes a permit of the database session and runs on a
blocking thread. The session lives in the database operation, a state machine of its own that
is like the repair operation but keeps no data after a failed refresh. The runtime keeps its recovery in a refresh-shaped one. A
managed quit first shuts the runtime down, then takes the session, waits for
its permits, and ends the process.

The configuration lives in a store that holds a repair operation. The observer
of its file is bound to the file watch, which calls it on the foreground
thread; it reads the file on a blocking thread and gives the store a task. The
credential cleanup of the MCP settings holds the observer back while it runs.
The settings pages edit through forms, and a saved form is a commit of the
configuration.

What makes each part correct:

- an operation never shows a phase its fields contradict, keeps the last good
  data, and takes results only from the fetch it holds;
- a conversation is never busy with two attempts, whatever keys repeat and
  whichever of stop, end and shutdown comes first; what a run published
  reaches the registry; after a stop nothing is approved any more; rows in the
  database do not say Running for long without a run;
- a tool call of a run gets one result and a completed provider step one
  charge, whoever ends them; a tool runs only if it was let; a stop ends the run;
- a database command runs only under the lock, the file is replaced only when
  none runs, and no crash in between makes the user lose data;
- the configuration shown is the one in the file, or something is under way
  that will notice; what others wrote is never overwritten unseen, and a draft
  that could not be saved is not lost;
- a form's answers are about the values it has, and its controls end up showing
  them;
- a registration hears of every change of its target, over shared watches.

## 2. Modules

| Module | What it is |
|---|---|
| `RefreshTransitions` | the pure transition table of `gpui_operation::refresh`: one operator per message |
| `RefreshOperation` | an operation with the tasks that were handed to it |
| `LastKnownGood` | the abstract cell its readers see |
| `RefreshOperationProofs` | its safety properties and the refinement, proved |
| `ConversationRuntime` | `ConversationRuntimeStore` with its runs, listeners, cleanups, recovery, the database rows and restarts; extends `RefreshTransitions` for the recovery operation |
| `ConversationRuntimeProofs` | type invariant, registration, uniqueness, recovery, proved |
| `ConversationRecordsProofs` | approvals, bookkeeping, rows, publications and events, proved on top of it |
| `AgentRun` | one agent run: the task, the agent loop with its tool calls, the commands of the database in flight, and the record |
| `AgentRunProofs` | all its safety properties, proved |
| `DatabaseLifecycle` | the database operation, its sessions and permits, the repairs, the quit, the lock and a second process |
| `DatabaseLifecycleProofs` | all its safety properties, proved |
| `RepairTransitions` | the transition table of `gpui_operation::repair` |
| `ConfigFile` | the configuration file, its store, its observer and everybody who writes it; extends `RepairTransitions` |
| `ConfigFileProofs` | all its safety properties, proved: first that no change is forgotten and no mark stranded, then types, the drafts of conflicts, and what may be replaced |
| `FormRuntime` | a form, the native controls bound to it, its asynchronous validation, and the queue of effects between them |
| `FormRuntimeProofs` | all its safety properties, proved |
| `FileWatch` | the coordinator of native watches: registrations, shared roots, callback, pump |
| `FileWatchProofs` | all its safety properties, proved |
| `MC*` | model values and symmetry for TLC |

An operator `Name_Variant` next to `Name` is `Name` with a plausible slip in
it. Nothing uses it; the mutants in `PROJECT.json` put it in the place of
`Name` and expect the property to break.

### Refresh operations

`operation` is the Rust enum as a record with the fields of all variants,
`None` where a variant has none. Load, Refresh, Retry, Settle, Complete and
Cancel follow the match arms, the ignored messages included. `work` says what
became of each task: the operation owns one handle, and a message the table
ignores drops the handle it carries (`WorkAfter`). `Complete` has no fetch
identifier in the code, so `Deliver` lets any finished task that was not
dropped deliver. `rest` is history: the settled operation a fetch started
from.

### Conversation runtime

An attempt is the number of a submission. It stands for everything the code
gives a submission: its ticket and key, its task, its token, broker, channel
and listener, and the cleanup of its stop. The code compares keys, so
`Matches` compares keys modulo `KeyModulus`, never attempts. Every action is
one uninterrupted piece of a foreground task or one database transaction:

- `Submit`, `RejectSubmission`, `RefuseLaunch`, `LaunchRun`: `submit_message`
  and `finish_submission`;
- `CheckToken`, `BeginFails`, `InsertRow`, `Progress`, `RequestApproval`,
  `Answered`, `Finalize`, `FinalizeFails`: the agent run, on other threads;
- `SendDrain`, `Drained`, `FinishRun`: the tail of the run's task, which
  drains the publication channel before it lets the entry go;
- `Listen`: one message of the listener;
- `StopRun`, `CleanupLists`, `CleanupCancels`, `CleanupFails`, `FinishStop`: a
  stop cancels the run at once and its cleanup waits for the run, reads the
  list of rows, and cancels them one at a time;
- `ShutdownAll`, `ShutdownDone`; `RecoveryLists`, `RecoveryFails`,
  `CompleteRecovery`, `RetryRecovery`; `Restart` is a crash followed by a
  start, after which only rows are left.

What is abstracted: the text of messages, the provider stream (one `Progress`
step that publishes), the number of tool requests of a run at a time (one), and
the models of a conversation (retained or not).

### Agent run

`ConversationRuntime` has many runs with a row each; `AgentRun` opens one. The
record is `row`, `steps` with `usage`, `calls` with `approval`, and the entries
of a call, `called` and `results`. Two actors share a future: the task
(`driver`, `mode`, `outcome`, `openSteps`, `openCalls`) and the loop it polls
(`loop`, `current`, `hook`, `policy`). A command is a transaction on a thread of
its own: `job` is `Out` from the moment it is sent, `CommandEnds` does the
transaction or fails it, and whoever sent it goes on only when polled again.

- `BeginTurn`, `StepInserted`, `ProviderAnswers`, `ProviderFails`, `StepEnded`,
  `AnswerFails`, `ToolsEnd`: `PersistingCompletionModel` and rig's loop;
- `HookStarts`, `HookResumes`, `UserDecides`, `WaitSeesToken`, `ToolReturns`:
  `on_tool_call`, `await_approval` and `on_tool_result` for each call of a turn,
  interleaved; `After` is the way through a hook, by what the policy says;
- `PreparationCanceled`, `SetupFailed`, `BeginExecution`, `TokenWins`,
  `LoopEnds`, `TextFails`, `CloseStep`, `Verdict`: `run_started_with_model_observed_inner`.
  `TokenWins` drops the loop: a command whose thread has begun becomes an
  `Orphan` and ends when it likes, one that has not begun never runs (`DropLoop`);
- `ListCalls`, `SettleCall`, `CallsSettled` and `ListSteps`, `SweepStep`,
  `StepsSwept`: the finalizers, which list and then write one row at a time,
  after a run, after a runtime error of its own (`Abandon`), in `cancel_run`
  (`StopCleanup`) and in `recover_interrupted_runs` (`Restart`); `FinishRun`.

Two errors leave the record as it is. A policy of the built-in
tools that cannot be read stops the hook when its call has been appended
(`HookResumes`), and a canceled run, or the cleanup of a stop, may fail to look
up its last answer when the tools are settled (`CallsSettled`): the run then
goes through the sweep of a runtime error, and the row that a cleanup ends is
`Failed` instead of `Canceled`.

Left out: texts, reasoning and skills, but for their failing writes; links
between records; the attempts of OpenAI sessions, which insert their own steps;
the token arms inside `PersistingCompletionModel`, for the task looks at the
token first and does the same. A stop that nobody hears because the process
ends is a restart. Rig is external: a turn of several calls is taken to return
its error when the others' commands have come back.

`cut` is history: the loop was dropped with a command out.
`EndedRunLeavesNothingOpen` excepts it, and must: a token that is set while
`insert_provider_step` is in flight finds no current step, and the step stays
`Running` in a run that is `Canceled`, which
`app/jaco/docs/dev/issue-173/runtime-lifecycle.md:146` does not have. A result
that lands between the finalizer's list and its write turns its command down;
the run then ends as `Failed` with a runtime error instead of `Canceled`.

### Database lifecycle

`DatabaseJobPermit::acquire` is four steps (`CheckAccepting`, `Count`,
`CheckAgain`, `Withdraw`), as each atomic operation of a thread is visible to
the others. The owner of a taken session polls the count; `SeeEmpty` is the
poll that reads zero, separate from the drop of the session that follows.
`HandedOut` says who may still hold an executor: the ready session gives its
own until the quit begins, and agent runs keep the one they started with.
A failed refresh becomes `RefreshFails`, then `SeeEmpty`, then `Retire`; the
replacement is `AcquireLock`, `BackUp`, `RemoveOld`, `Rename`, `RepairDone`,
each of which may fail where the code may fail. `Crash` may come between any
two and releases the lock; `Start` opens what it finds. A managed quit is
`RequestQuit` (the synchronous half, which reads the session), `QuitTakes`,
`QuitDone`. `OtherLocks` and `OtherUnlocks` are another instance.

The atomics are sequentially consistent in the model. In the code they are
Release stores and Acquire loads, and between the store that stops admissions
and the first load of the count the foreground thread schedules a task; the
model relies on that. A change of the database's path in the configuration is
not modelled.

### Configuration file

`op` is the store's operation with the tables of `RepairTransitions`; `task` is
the thread its task waits for. A content of the file that parses stands for the
value it decodes to, `Broken` for one that does not. Blocking code runs on
`Threads`, one file operation a step: `read_for_observer` is `Observe`;
`load_or_create` is `Read`, `Create`, `Created`, `Reread`; `write_pending_at`
is `Lock`, `Compare`, `Rename`, `Verify`; `backup_and_replace` begins as a load
and goes on with `Original`, `Recheck`, `Compare`. `Fails` lets any of them
fail. A task that is dropped leaves its blocking work behind: `Ends` gives the
result to nobody then. On the foreground thread, `Commit` holds the thread
until `FinishCommit`, as the code does; `OnDirty`, `FinishProbe` and `Consume`
are the methods of `ConfigFileObserver`, and `ConfirmMissing` is the second
look at a file that was not there. Every end of somebody the observer defers
to looks at its mark: `FinishCommit` and `CompleteTask` through the store's
observer, `FinishCleanup` through the cleanup.

Left out: the watcher is the flag `unseen` (the file watch is its own module),
the managed quit, which stops it all, and the epoch of a probe, for whoever
advances it drops the probe too. A missing second of a probe's confirmation is
no time at all. Of the cleanup there is only whether it runs.

Three things the model showed and no run claims. `apply_observed_probe`
publishes a result although a cleanup was scheduled after the probe had ended
(`config.rs:775`), while a comment in `oauth.rs` says that nothing is read
behind a cleanup. A `RetryWrite` after a `WriteAfterBackup` compares with the
data of the store, which the file no longer holds, and cannot succeed before
the file is restored. The draft of a write that failed for the lock or the disk
is dropped by the next external change the observer sees (a draft in conflict
is not).

### Forms

The form has plain fields and one optional payload, `Details`, whose
`occurrence` changes whenever another payload is put in. Everything is on one
thread; an operation changes the form at once and appends what it emits and
defers to `effects`, and operations come between any two effects. `Set`,
`SetOptional` and `Install` are what a program does; `NativeEdit` is the user
in a control, with the deferred write of the adapter; `RunEvent` is the
subscription of every binding, `RunSet` the deferred write, `RunDrain` the
deferred projection. A binding is `BindingState` and `BindingShared` in one
record. `StartValidation` and `CompleteValidation` are asynchronous validation;
`asyncIssue` remembers, as history, the value an answer was about.

Left out: synchronous validators with their triggers, collections, `prepare`,
and the versioned rebase after a save. The editor sequence of a projection is
not modelled: an edit has suppressed whatever was pending before it, so the
check never fails. A write deferred before a reset and run after it, but before
the reset's event, still lands in the form: the design accepts that.

### File watch

The disk is one chain of entries, directories with a file at the end: entry
`k + 1` lies in `k`, and a registration watches one of them, as a file or as a
tree. That is enough for roots to be shared in both modes, to move up and down
as directories vanish and appear, and to be lost with a directory.
`AddRequirement`, `RemoveRequirement`, `SwitchMode`, `Acquire`, `Repair` and
`Reattach` are the methods of `WatchRegistry`, on a record of the registry and
the native watches; the calls that fail in one step are a set `bad`: nothing,
one call, or both modes of a directory. `Report` and `NeedRescan` are the
debouncer's callback. A turn of the pump is `StartPump`, an `Unregister` for
each control, `Plan` (take the inbox, look at the directories), a `Replace` for
each target it looked at, in any order, and `Finish` (repair, reattach, tell).
Nothing else happens on the foreground thread meanwhile, but the disk changes
and the callback reports between any two of these steps. `raced` remembers that
the disk changed between `Plan` and `Finish`.

Left out: a native watcher that cannot be created, the notification to the
user (`warned` says that a problem was reported), several targets in one
registration, and the moment inside a change of mode in which a directory is
not watched. `NoChangeIsLost` excepts what was reported and what `raced`. Both
exceptions are needed: a directory that is created between the look and the
new watch is not noticed, as the code does not look again; and a root that a
failed reattachment dropped may be acquired again by another registration in a
weaker mode, and then serves the first one too little until the other goes.

## 3. Runs

| Run | Instance | What it shows |
|---|---|---|
| `refresh_operation` | 3 data, 3 problems, 3 tasks | a task is dropped, one is held, one is new at once, and three values tell old, held and new apart |
| `conversation_runtime` | 2 conversations, 2 attempts, no restart | an attempt per conversation, or two of one: all interleavings of two lives, with queues of one |
| `conversation_reuse` | 1 conversation, 2 attempts that share one key, a queue of two, 1 restart, fairness | the worst case of the wrapping key: a new attempt while the old one ends or stops; rows from before a crash meet recovery; stops, submissions and shutdowns end |
| `database_lifecycle` | 2 jobs and the validation, 2 sessions, 2 starts, fairness | the ready session and a retired or reopened one; two jobs race the double check; a crash and a second start; retirements and quits end |
| `database_quit` | 1 job, 1 session, 1 start | a finding below |
| `agent_run` | 2 tool calls, 2 provider steps, 1 failing command, 1 crash, fairness of the task | calls of one turn or of two, each asked for, refused, let or auto-approved; both may be in flight when the loop is dropped |
| `agent_history` | 1 call, 1 step | a finding below |
| `config_file` | 3 configurations and a broken content, 2 threads, 2 edits, 2 requests of the user, 1 failure, fairness | one thread for a task or a commit and one for an orphan of a probe; two edits take a content away and bring it back |
| `config_overwrite` | the same | a finding below |
| `form_runtime` | 2 values, two controls on one field and one on the payload, 2 changes of the model, 2 edits, a binding dropped | peers hear of each other's writes; the value changes under an edit, a write, a projection or a validation, and the payload is replaced |
| `form_race` | the same, with edits while a reset is on its way | a finding below |
| `file_watch` | a chain of three directories and a file, a tree and a file as targets, 2 registrations, 3 changes, 1 fault, an inbox of 1 | a shared root in both modes; a directory removed and made again; an inbox that overflows |

`KeyModulus` is 2^64 in the code. With a modulus of one every key is the same,
which is more than wrapping can do, and the properties still hold: an entry is
never overwritten while its attempt lives, so the keys never decide anything.
`MaxAttempts`, `MaxQueued`, `MaxRestarts`, `MaxStarts`, the size of
`Sessions`, and `MaxEdits`, `MaxAsks`, `MaxFaults`, `MaxRevision`, `MaxDrops`,
`MaxRegistrations`, `MaxChanges`, `MaxSteps` (the run's own limit) and
`MaxFailures` are the bounds; a guard names each. Deadlock is
allowed where a system that has used up its bounds really stops: the
conversation runtime, an agent run, the configuration file, forms and the file
watch. The refresh operation and the database never stop.

Larger instances were checked by hand and agree. Conversations: three attempts
with one key, a queue of one and a restart, with all properties of
`conversation_reuse` (1.4 million states). The database: three sessions. The
configuration file: three requests of the user (1.5 million states), and three
threads with three requests (1.3 million). Forms: three revisions, three edits
and two dropped bindings, in turn (2.4 to 4.2 million).

`GapEdits` says whether somebody else may write in the gap between the
comparison and the rename of a replacement. No program can close it, and
`OnlyTheSeenOrBackedUpIsReplaced` is about all the rest, so the runs have it
`FALSE`. (The design, `app/jaco/docs/dev/issue-177/README.md:310`, wants the
comparison made twice; `atomic_replace` makes it once, before it stages the
new content.) `MaxPending` is 1024 in the code: a limit of one overflows with
two paths. `EditsRaceWhole` separates the run in which controls follow the form
from the one in which they do not; with it `FALSE` no edit is made while the
event of a replace, reset or rebase is queued.

What each property is for stands above its definition. In short:
`OnlyTheHeldTaskLives`, `FetchKeepsWhatItStartedFrom`, `DataIsNeverLost` and
`ImplementsLastKnownGood` (refresh); `LiveAttemptIsRegistered`,
`OneLiveAttempt`, `PublicationsReachRegistry`, `EventsFollowTheEntry`,
`DecidableRequestHasAWaiter`, `NoDecisionAfterCancel`, `IdleBookkeeping`,
`RunningRowHasARun`, `StopLeavesNoRunningRow`, `RecoveryLeavesLiveRunsAlone`
(conversations); `OneResultPerCall`, `UsageIffCompleted`, `ToolRunsOnlyApproved`,
`EndedRunLeavesNothingOpen`, `TerminalRowsStay` (agent run);
`JobsRunUnderTheLock`, `ReadySessionServes`, `UnavailableHoldsNoLock`,
`NothingIsLost`, `FileChangesAlone` (database); `NoChangeIsForgotten`,
`PendingDirtyIsTakenUp`, `ConflictKeepsItsDraft`,
`OnlyTheSeenOrBackedUpIsReplaced` (configuration file);
`AnswersAreAboutThePresent`, `QuietControlShowsTheForm` (forms);
`RootsAnswerNeeds`, `NoChangeIsLost` (file watch); and
the liveness properties `FetchEnds`, `StopEnds`, `SubmissionResolves`,
`ShutdownEnds`, `StopSettlesTheRow`, `RetirementEnds`, `QuitEnds`,
`StoreFollowsTheFile`. `FetchKeepsWhatItStartedFrom`, `DataIsNeverLost`,
`DecidableRequestHasAWaiter`, `IdleBookkeeping`, `RecoveryLeavesLiveRunsAlone`,
`ReadySessionServes` and `UnavailableHoldsNoLock` are proved and no run checks
them any more.

### Fairness

Weak fairness on what the executors must do: a task that can run is polled, a
blocking command returns, a listener receives, a cleanup and a recovery get
their answers from the database. A run that is told to cancel ends: the agent's
loop selects on the token first. There is none on a run that is not cancelled,
on the user, on a retry, on the second process giving up the lock, or on
crashes. `ShutdownEnds` therefore says "or the process ends first".

For an agent run: its task goes on, and nothing else. Providers, tools, users and
even the commands of its loop may take for ever, and a stopped run ends all the
same.

For the configuration file: blocking work ends, the watcher reports, and the
tasks of the foreground thread run. There is none on the user, on the other
writers, or on scheduling another cleanup, so `StoreFollowsTheFile` says what
comes when these let the file be. Forms and the file watch need no fairness:
their properties are about quiet states and about what is still to come.

### Findings

`QuitWaitsForJobs` fails (`database_quit`). The design
(`app/jaco/docs/dev/issue-177/README.md:1097`, and the table at `:2849`) says
that a managed quit goes on waiting while a blocking permit is held. `quit_app`
reads the operation's session once. If a refresh has failed and the session is
being retired, the operation is in Retiring and has no session to show, so the
quit finds nothing to drain and ends the process while a job still runs on the
session that the retirement is waiting for. The trace: a job runs; a refresh's
validation fails; `RequestQuit`; `QuitTakes` takes nothing; `QuitDone`.
`NothingIsLost` holds all the same, since the end of a process is as safe for
the file as a crash.

`OverwriteWritesTheDraft` fails (`config_overwrite`). A commit meets an
external change and keeps the user's configuration as a draft. The button that
`locales/en-US/main.ftl:723` calls "Back up the external version and save my
changes" starts `backup_and_replace`, which first loads the file and returns
what it finds if that is valid (`config.rs:1181`). An external change usually
is valid: the store shows it, there is no backup, and the draft is gone. The
design (`app/jaco/docs/dev/issue-177/README.md:336`) says that it copies the
version on disk and then writes the draft.

`QuietControlShowsTheForm` fails when a control is edited while the event of a
replace, reset or rebase is on its way (`form_race`). The edit suppresses the
projection of the reset, for it is older, and takes the generation of now; the
event then advances the generation; the deferred write is dropped for its old
one. Nothing is left to run, and the control shows a text the form does not
hold. The design (`crates/gpui-form/docs/dev/issue-199/design-draft.md:506`)
says that the reset projects its value. Without such edits the property holds
(`form_runtime`).

`ResultsHaveTheirCall` fails (`agent_history`). A tool invocation and its
ToolCall entry are two commands (`tool_hook.rs`,
`insert_tool_invocation_and_append_call`). A stop between the two drops the loop
before the second; the finalizer finds an open invocation and gives it a
ToolResult entry. `build_prompt_history` calls a result without a call an
invariant violation (`history.rs`, "tool result {} has no matching tool call"),
and every later run of the conversation prepares its prompt from the same
timeline, so each ends as a setup error. A crash between the two, followed by a
recovery, does the same. A test cannot see the gap: under test,
`SessionDatabaseExecutor::execute` runs a command at once on the caller.

## 4. Proofs

All theorems are for all values of the constants, under the assumptions the
modules name, which TLC evaluates too: `NoneIsNoValue` (refresh);
`BoundsAreNaturals`, `KeyModulusIsPositive` (conversations); `NamesAreApart`,
`JobsAreFinite`, `MaxStartsIsNatural` (database); `ConstantsAreApart`,
`BoundsAreNatural`, `GapEditsIsBoolean`, `NoneIsApart` (configuration file);
`ConstantsAreApart`, `BoundIsAPath`, `BoundsAreNatural`, `RaceIsBoolean`,
`ControlsAreFinite` (forms); `BoundsAreNatural`, `TargetsAreEntries` (file
watch); `AgentRunAssumption` (agent run).

- `RefreshOperationProofs`. One lemma per message says what it makes of a
  well-formed operation. `TypeCorrect`, `TasksAreHeld` and `FetchesAreUndone`
  follow, with the three invariants together as the inductive one: a delivered result can only come from the held
  task, which is what makes the missing fetch identifier harmless, and this
  needs that a fetch still holds what it started from. `ReadersSeeACell` is the
  refinement of `LastKnownGood`, `DataIsKept` the action property.
- `ConversationRuntimeProofs`. `Inv` is the type invariant and `Shape`:
  attempts are born in order, entries hold the tasks their phase promises,
  cleanups come after runs, recovery excludes attempts and shutdown, awaited
  attempts are of different conversations, and `LiveAttemptIsRegistered`. The
  last one is not inductive alone: a finishing task can only vacate the right
  entry if an entry of its conversation that has its key is its own, which
  follows from uniqueness of live attempts, not from keys (`MatchesByPhase`).
  `AtMostOneLiveAttempt` and `RecoveryMeetsNoLiveRun` are corollaries.
- `ConversationRecordsProofs`. `RecordsInv` adds to `Inv` what is recorded and
  told of the attempts, one lemma per part. Answers: while a run is not
  cancelled, a request is waited for and unanswered, and who is cancelled has a
  cleanup or a shutdown (`RequestsHaveWaiters`, `CancelledRunsHearNoDecision`).
  Rows: a sweep holds every Running row it is responsible for, because no run
  of its conversation (for recovery, of any) inserts one meanwhile; this is
  where uniqueness of live attempts is needed again (`RunningRowsHaveRuns`,
  `StopsSettleTheRows`). Publications: the drain comes after all of them in
  the channel and the run waits for it (`PublicationsAreNotLost`). Events: the
  list follows the phase of the entry (`TicketsHearTheirHistory`).
  `BookkeepingIsExact` is inductive as it stands.
- `AgentRunProofs`. First what a step may write of the record (`StepsWrite`): the
  list is short, and each item keeps the counts and what has ended
  (`WritesCount`). This needs that an insertion which is out has not happened
  (`InsertionsAreNew`: orphans insert too), and that whoever sweeps does not mean
  the run to complete (`SweepsDoNotComplete`). `CallsGetOneResult`,
  `UsageIsExact` and `EndsAreFinal` follow. `ToolsRunApproved` rests on
  `CallRecords`, what the phase of a hook says of the record while the loop
  lives, which no orphan disturbs, for there is none then. `NothingStaysOpen`
  rests on `EndedInv`, which follows the open steps and calls through the
  driver: a row ends last; a loop that was not cut down leaves no command out;
  the loop has one step open at most, and which one its phase tells; and what a
  sweep or a settling has listed contains all that is open. All but the first hold
  only as long as no command failed and the loop was not cut down with one out
  (`Clean`), which is what the property says of itself.
- `DatabaseLifecycleProofs`. The key part is `CountsAreExact`: the counter of
  a session is the number of workers between `Count` and the drop of their
  permit, so a zero read after admissions stopped means that nobody is inside
  and nobody enters any more (`TakenSessionsAdmitNobody`). With
  `OwnersHoldTheLock` and `PhaseHasItsOwner` this gives the safety properties
  (`JobsAreProtected`, `ReadyTellsTheTruth`, `RetryMeetsNoOwnLock`,
  `DataSurvives`, `ReplacementIsAlone`).
- `ConfigFileProofs`. The inductive invariant `FileInv` says that every result
  somebody waits for is fresh: it is the content of the file, or the file has
  changed since and the watcher has not been heard or the mark is set. It needs
  the order in which a job goes through its steps, and that a mark is set only
  while somebody runs who will look at it; the latter is `MarkIsTakenUp`, and
  `ChangesAreNoticed` follows from both.
  In the second part, `DraftInv` says what a job is at each of its steps
  (`Sound`). Who is between taking the lock and giving it back holds it, so one
  thread at most can rename. A plain write belongs to the task or the commit
  of the store, and nobody settles the operation meanwhile; so what it expects is
  still what the store holds, and a backup has copied what it expects. The
  task of a conflict carries the draft (`ConflictTask`), for an observer applies no
  result to a conflict. `TypeCorrect` and `DraftsAreKept` follow.
  `ReplacementsAreSafe` adds that a comparison holds until the rename
  (`GapIsClosed`), for which it assumes `~GapEdits`, as the runs do.
- `FormRuntimeProofs`. `AnswersAreCurrent`: answers and pending validations are
  bound to the revision and the occurrence, and every operation that moves one
  of them clears what depends on it. `QueueInv` is about the queue: events are
  in the order of their changes, the origin of an event is a write of that
  control, a drain is on its way exactly if the binding says so, and what is
  pending has one (`TypeCorrect`, for `TypeOK` counts the drains). `FollowInv`
  says of each control why it shows what the form holds, or what will make it:
  its own write in the queue, the value that waits for a drain, or the event of
  another's change that it has not suppressed (`ShowsOrWill`). For that, nothing
  may take the word of a control whose write is in the queue
  (`EditIsUndisturbed`). This is where `~EditsRaceWhole` is needed, the
  assumption of `QuietControls`: with edits while a reset is on its way the
  property fails, which is the finding of `form_race`.
- `FileWatchProofs`. `RootsAnswer` goes from one directory to the whole: what
  a call of the registry does to one entry, with its counts, its mode and its
  watch (`SwitchDoes`, `AddDoes`, `RemoveDoes`), what that means for the needs it
  answers (`Fits`), and how the needs themselves move with the registrations
  (`NeedMoves`). A rollback puts back exactly what was added, whatever failed.
  `ChangesAreHeard` needs more (`Heard`): a directory with a root and no native
  watch is about to be noticed; a registration has the roots the disk calls for
  or is about to be looked at; and in the middle of a pump, so it is with the
  plans. With them, a change that a target depends on is seen by the watch of
  one of its roots, or that root is lost and a change above it is on its way
  (`RootsSee`); and the pump forgets a batch only when each root it is about has
  been watched anew (`FinishKeeps`) and each registration it is about is told.
  That a problem is reported (`warned`) whenever a native call leaves less than
  was asked is part of the lemmas (`Goes`, `Answers`).

Only model-checked: the liveness properties, for the prover does not do
fairness. Every safety and action property that a run checks and expects to
hold is proved. What the runs that expect a violation check is false.

## 5. Not modelled, and the plan

Next, in this order:

1. `ConversationResources`: generations of the runtime over database sessions,
   composing `ConversationRuntime` and `DatabaseLifecycle` through an abstract
   specification of each. Recovery of a new generation against the shutdown of the old.
2. `OpenAiSessionPool`: slots, expiry, close against acquire.
3. The run row of `ConversationRuntime` as an abstraction of `AgentRun`, shown
   by refinement; OpenAI attempts in `AgentRun`.
4. `HttpRun` (request run, transport, redirects, temporary storage).
5. `FetchRun` (feiwen) and the download stream (novel-download).
6. `McpConnections` with the credentials themselves, and `Hotkeys`.
7. In the modules there are: several targets in a registration of the file
   watch, collections and the versioned rebase in forms, the managed quit of the
   configuration's observer, a change of the database's path.

Left out for good: provider conversions and the stream of tokens (data),
drawing, themes, packaging, platform adapters (no state of their own), and the
vendored assets. Most of the workspace's lines are of these kinds: views and
their layout, settings pages, request and response types of providers, their
tests. The models cover the state machines behind them, a small part of the
lines.
