# A TLA+ model of ur-nexus

ur-nexus is a coding agent for the terminal: a loop sends a conversation to a
model, the model answers with tool calls, the program runs them and sends the
results back.  Around that loop there are agents that work together (a task
list and inboxes in files), plans that are run by several logical agents,
uploaders, bridges and a large user interface.  The program is JavaScript: one
thread per process, several processes that share files.

This project models the parts whose correctness rests on the order of things:
what happens between two `await`s, between two file-system calls of two
processes, between the end of one promise and the next scheduling pass.

Paths below are relative to the repository; the program itself is under
`src/src/`.

## 1. Inventory

| component | source | state | operations | hard behaviour | what makes it correct |
|---|---|---|---|---|---|
| **Shared task list** | `utils/tasks.ts` | a JSON file per task, `.highwatermark`, `.lock`, a lock per task file | `createTask`, `updateTask`, `deleteTask`, `listTasks`, `blockTask`, `claimTask` (with or without busy check), `resetTaskList`, `unassignTeammateTasks` | processes interleave between file-system calls; `writeFile` truncates first; some operations take no lock; crashes leave stale locks; lock attempts run out | ids are never reused; one holder per task; no write loses a claim or a completion; locks are given back |
| **Streaming tool executor** | `services/tools/StreamingToolExecutor.ts`, parts of `query.ts` | the queue of calls, `hasErrored`, suspended `processQueue` calls, the caller's position, the context | `addTool`, `processQueue`, `executeTool`, `getCompletedResults`, `getRemainingResults`, `discard` | several suspended passes walk one queue; the caller is slow; aborts and sibling errors; a fallback starts over while calls run | exclusive calls run alone; calls start in order; results are not reordered around an exclusive call; every call is answered once; the drain ends |
| **Prompt plan execution** | `services/promptPlanning/executor.ts`, `validation.ts`, `evidence.ts` | task statuses, `activeLocks`, `running`, snapshots of the workspace | `runPromptPlan`, `runOneTask`, `validateBeforeExecution`, `validateAfterExecution` | promises end in any order between two scheduling passes; tasks share some of their files; failures in the middle | file exclusion, dependency order, nothing given up that could run, no credit for another task's change, the run returns |
| **Event uploaders** | `cli/transports/SerialBatchEventUploader.ts`, `HybridTransport.ts`, `ccrClient.ts`, `bridge/replBridgeTransport.ts` | pending queue, batch in flight, waiters, `closed`; the owners' buffers and timers | enqueue, drain, flush, close, retry; write, writeBatch, writeEvent | back pressure, retry with requeue, requests the server took although they failed, close while sending, events that cannot be serialized | nothing vanishes, order, waiters released, flush means sent |
| **Command queue and query guard** | `utils/QueryGuard.ts`, `messageQueueManager.ts`, `queueProcessor.ts`, `handlePromptSubmit.ts`, `screens/REPL.tsx`, `hooks/useCancelRequest.ts`, `query.ts` | idle/dispatching/running, a generation, one queue per process, the REPL's abort controller | submit, enqueue, process, start, end, cancel, background, drain, pop, kill | a cancelled turn ends after its successor has started; the queue is read before an await and changed after | one turn at a time, no command lost or handled twice, guard and queue come free |
| **Teammate mailbox** | `utils/teammateMailbox.ts`, `hooks/useInboxPoller.ts`, `utils/attachments.ts`, `utils/swarm/inProcessRunner.ts`, `cli/print.ts` | an inbox file per teammate, its lock | write, read, mark as read (one, all, by predicate) | reading and marking are two operations; creation is outside the lock; crashes; lock attempts that run out | messages stay, read means handed over, order, delivery |
| **Scheduled tasks** | `utils/cronTasksLock.ts`, `cronScheduler.ts` | a lock file with a session and a pid | start, probe, acquire, recover, release, stop | dead owners and two sessions that recover at once; a stop while a probe is under way | one scheduler per project, and at least one |
| **Permission prompts** | `hooks/useCanUseTool.tsx`, `hooks/toolPermission/`, `screens/REPL.tsx` | a claim per prompt, the queue of dialogs, the rules | ask, claim, allow, reject, recheck, cancel, abort | dialog, hooks, classifier, bridge, channel and new rules race for one answer; what is shown lags behind the queue | surfaces agree, rules reach the queue, no prompt starves |
| Tool orchestration without streaming | `services/tools/toolOrchestration.ts`, `utils/generators.ts` | batches, the context | `runTools` | concurrent generators with a cap, deferred context modifiers | same promises as the streaming executor |
| Background agents | `services/agents/backgroundRunner.ts` | a manifest and an inbox file per task | create, spawn, update, read inbox from offset | parent and child rewrite the manifest without a lock | a cancellation or a result is not lost |
| Bridge | `bridge/*.ts` | sessions, flush gate, capacity wake-up | poll, attach, flush | events during the initial flush; wake-ups that come early | order of events; no lost wake-up |
| Workflow executor, crew, scheduler | `services/agents/*.ts` | workflow graph, gates, loops | run, resume | resume after a stop | a finished step is not run again |
| Repository editing | `services/repoEditing/reliableRepoEdit.ts` | files and backups | apply, roll back | a failure in the middle | all or nothing |
| Query loop, compaction, API retries, session storage, file history, swarm backends, planner, tools and commands, terminal interface, desktop | see `PROJECT.json` | | | | not modelled; the reasons are in `PROJECT.json` |

How they interact.  The query loop (`query.ts`) hands every tool call of a
response to the tool executor as it arrives and takes results after every
message; it owns the context the next turn starts from, and the abort signal.
Tools of the task family, the in-process teammates (`inProcessRunner.ts`) and
the watcher (`useTaskListWatcher.ts`) call the task list from several
processes; they meet only in its files and locks.  Teammates talk through the
mailbox files; what an interactive session reads from its inbox becomes a turn
when the query guard is idle.  Everything that becomes a turn, typed, announced
by a background task or sent by a teammate, goes through the guard, and most of
it through the command queue.  A tool call of a turn that needs permission
waits for its prompt.  The events of a remote session leave through an
uploader.  `ur exec` makes plans from prompts and gives each to
`runPromptPlan`, which calls back an `executeTask` that starts an agent.

`PROJECT.json` lists under "hazards" where each of these things bites, line by
line, with the properties that watch it, or the reason why none does.

## 2. Modules

| module | models | depends on |
|---|---|---|
| `TaskRegistry` | the abstract promise of the task list: ids only grow, a claim is one step | |
| `TaskList` | `utils/tasks.ts`, step by step, for several agents | instantiates `TaskRegistry` |
| `TaskListProofs` | types, fresh ids, claims, completions, the refinement of `TaskRegistry` | `TaskList`, TLAPS |
| `StreamingToolExecutor` | the executor and the part of `query.ts` that drives it | |
| `StreamingToolExecutorProofs` | types, exclusion, start order, no start after an error, the answers | `StreamingToolExecutor`, TLAPS |
| `PromptPlan` | `runPromptPlan` | |
| `PromptPlanProofs` | types, serialization, dependency order, no second run, evidence, giving up | `PromptPlan`, TLAPS |
| `Filtering` | `Dropping`: what a filter leaves of a queue, as a recursive function | |
| `FilteringProofs` | what `Dropping` computes, for sequences of any length | `Filtering`, TLAPS |
| `EventChannel` | the abstract promise of an uploader: a channel that keeps order | |
| `EventUploader` | `SerialBatchEventUploader` and the server it posts to | |
| `Transports` | `EventUploader` with its owners `HybridTransport` and `CCRClient`, and the bridge that writes to them | `EventUploader`, instantiates `EventChannel` |
| `QueryGuard` | the guard's state and its synchronous operations | |
| `CommandQueue` | what is chosen from the queue of commands | |
| `TransportsProofs` | types, nothing vanishes, order of arrival, what a flush means, the refinement of `EventChannel` | `Transports`, `FilteringProofs`, TLAPS |
| `Turns` | the turns of a terminal session, composed of the guard and the queue | `QueryGuard`, `CommandQueue` |
| `TurnsProofs` | types, the guard and its turn, exclusion, conservation of commands | `Turns`, `FilteringProofs`, TLAPS |
| `Mailbox` | one inbox file, its writers and its four kinds of readers | `Filtering` |
| `SchedulerLock` | the scheduler's lock and the part of the scheduler that takes and gives it up | |
| `LockedFilesProofs` | both components whose actors meet in one file: types, messages, the order in which a teammate takes them; types, owners | `Mailbox`, `SchedulerLock`, `FilteringProofs` |
| `PermissionPrompts` | the race to answer permission prompts, with the queue of dialogs | |
| `PermissionPromptsProofs` | types, surfaces, rechecks | `PermissionPrompts`, `FilteringProofs`, TLAPS |
| `MCTaskList`, `MCStreamingToolExecutor`, `MCPromptPlan`, `MCTransports`, `MCTurns`, `MCMailbox`, `MCSchedulerLock`, `MCPermissionPrompts` | the instances TLC checks: who does what, kinds, plans, configurations | the module of that name |

Definitions that start with "Mutant:" in their comment are plausible bugs of
the definition below them.  They are used by no specification; each property
has one that breaks it, which shows that the property depends on that code.

### 2.1 TaskList

An actor is one agent (a process) that runs one operation at a time.  `pc[p]`
is the point its operation stands at and `loc[p]` its local variables; one
action is one file-system call, so any other actor may come between two of
them.  Two details of the file system matter and are kept: `writeFile` opens
with truncation (`Open`: the file is `Torn` and does not parse) and then writes
(`Write`), and a file that is unlinked while somebody has it open is written
through a descriptor that no name leads to any more (`fd`).  proper-lockfile is
external: a lock is held by one actor, needs the file to exist, is retried for a
while and then throws (`LockTaskFails`, `LockListFails`), and becomes stale when
its holder has died (`StaleListLock`, `StaleTaskLock`).

| code | model |
|---|---|
| `createTask` 288-312 | `BeginCreate`, `LockList`, `ScanFiles`/`ScanMark` in any order, `Allocate`, `Open`, `Write`, `UnlockList` |
| `resetTaskList` 151-192 | `BeginReset`, `LockList`, `ScanFiles`, `ScanMark`, `OpenMark`/`WriteMark` or `SkipMark`, `ReadDir`, `UnlinkOne`*, `UnlinkedAll`, `UnlockList` |
| `updateTask`, `updateTaskUnsafe` 358-395 | `BeginUpdate`, `Check`, `LockTask`, `ReadForUpdate`, `Open`, `Write`, `UnlockTask` |
| `TaskUpdateTool.ts` 123-274, owner and status | `BeginToolUpdate` (the look at 146 and `ToolCall`, what differs from it), then `updateTask`; where the owner is left alone, `BeginUpdate` |
| `deleteTask` 397-445 | `BeginDelete`, `ScanMark`, `OpenMark`/`WriteMark`, `DeleteFile`, `List`, `ReadOne`*, `SnapshotUsed`, one update after the other |
| `blockTask` 462-490 | `BeginBlock`, `ReadOne`*, `SnapshotUsed`, the updates in their order |
| `claimTask` 545-616 | `BeginClaim`, `Check`, `LockTask`, `Reread`, `List`, `ReadOne`*, `ClaimDecided`, `ReadForUpdate`, ... |
| `claimTaskWithBusyCheck` 622-696 | the same under the list lock, `BusyClaimDecided`, then an update with the task's lock |
| `unassignTeammateTasks` 822-864 | `BeginUnassign`, `List`, `ReadOne`*, `SnapshotUsed`, the updates |

`won[p]` and `done` are what callers were told; properties relate them to the
files.  `issued` remembers ids.

### 2.2 StreamingToolExecutor

One thread: an action is the code between two awaits.  Continuations that are
ready to run go before anything that comes from outside, which is `Quiet`: a
call that waits for a process, a file or the network (`slow`) ends only when no
continuation is left.  The order among continuations is left open.  `loops` is
the set of positions at which suspended `processQueue` calls go on; every call
that ends starts another.  `at`, `pos`, `waits` are the position of the query
loop in its own code and in the two generators it consumes; between two results
the caller may take its time (`at = "emit"`).

| code | model |
|---|---|
| `addTool` 81-129 | `AddTool`, `NewCall` |
| `canExecuteTool`, `processQueue` 138-165 | `CanExecute`, `Startable`, `RunLoop`, `DrainLoop`, `DrainPass` |
| `executeTool` 279-419 | `Execute` (to its first await), then `Progress`, `Cancelled`, `Answered` |
| `getAbortReason` 224-245 | `AbortReason` |
| `getCompletedResults` 426-454 | `Emit`, `Emitted`, `Collected` |
| `getRemainingResults` 467-504 | `DrainLoop`, `DrainPass`, `DrainCollect`, `Collected`, `Wake` |
| `discard`, `query.ts` fallback | `Discard`, `OrphanEnds` |
| `query.ts` | `TakeResults`, `StreamEnds`, `seen` |

A kind of call says what the properties tell apart: whether it is
concurrency-safe, Bash, known, waits for the outside, talks (progress), may be
cancelled by an interrupt, modifies the context.  `context` is what the
executor has applied, `seen` what `query.ts` goes on with.

### 2.3 PromptPlan

The scheduling pass is synchronous, so nothing else happens while `at` is
"mark", "launch" or "settle"; while it waits for one of the promises ("race")
agents change files (`Change`), tasks end (`Finish`), and their handlers run
(`Settle`).  `diff[t]` is what the two snapshots around task `t` differ by,
`own[t]` what `t` did itself; `shared` and `credited` only remember who ran
beside somebody and who took credit for a change that was neither its own nor
reported as observed.  `executeTask` returns, beside the claims, the
`observedChangedFiles`: any set, which `runOneTask` adds to the difference of the
snapshots (`executor.ts:333`) and which nothing verifies.  `Finish` does the same
with `observed`, so a task can be credited with a file that nobody changed, on the
word of its executor; what `LoneClaimsAreSupported` says is that the snapshots add
no other task's change to that.  (`exec.ts` returns none; the field is there for
other callers.)

| code | model |
|---|---|
| `independentWidth`, `usefulAgentCount` | `Independent`, `UsefulAgents` |
| the marking loop of `runPromptPlan` | `Mark` |
| the loop over ready tasks, `isLocked`, `runOneTask` to its first await | `Launch`, `SkipLaunch` |
| the give-up branch, `Promise.race` | `GiveUp`, `Race`, `Wake` |
| `executeTask`, `actualChangedFiles`, `validateAfterExecution` | `Change`, `Finish`, `ChangedFiles`, `Supported` |
| the `finally` handler | `Settle` |

A plan may hold cycles and
forward dependencies: the exported function takes any plan, and the tests build
them by hand; the planner itself makes chains and independent tasks.

### 2.4 EventUploader and Transports

One thread again, but here the order of continuations matters, because
`enqueue` looks at the queue, waits, and looks again: `micro` is the queue of
promise reactions, each with the number of turns it still takes, and a request's
answer or a timer is handled only when it is empty.  The server is external: a
request arrives or not, is answered or fails, independently; a batch that
arrived and is sent again changes nothing, since events carry uuids.

| code | model |
|---|---|
| `enqueue` 101-119 | `Enqueue`, and `Recheck` after every wait for room |
| `drain` 156-201 | `Kick`, `Takes`, `SendReturns`, `SendFails`, `WakeUp`, `Exit` |
| `flush` 125-133, `close` 139-150 | `Flush`, `Close` |
| `takeBatch` 213-233 | `Sendable`, `Takes` |
| `HybridTransport.write`, `writeBatch`, timer, `close` with its grace period | `WriteHybrid`, `WriteStream`, `TimerFires`, `FlushCalled`, `CloseHybrid`, `GraceEnds` |
| `CCRClient.writeEvent`, `flush`, `close`; `replBridgeTransport` `writeBatch` | `WriteCcr`, `WriteStream`, `Message`, `NextEvent`, `FlushAll`, `CloseCcr` |

### 2.5 QueryGuard, CommandQueue and Turns

A turn is one call of `executeUserInput` (or of `onQuery`, for a teammate's
message).  Its awaits cut it in two long waits, "input" (`processUserInput`) and
"query" (`onQuery`, inside which the queue may be drained); all else is
synchronous.  Cancelling does not end a turn: it lives on, aborted, until what it
awaits returns, beside those that started since, which is the point of the
module.  `controller` says whose abort controller the REPL holds, `holder` who
made the reservation; the code does not know the latter.

| code | model |
|---|---|
| `handlePromptSubmit` 313-351 | `Submit`: queue, perhaps interrupt, or `Execute` |
| `useQueueProcessor`, `processQueueIfReady` 52-87 | `ProcessQueue`, `Taken` |
| `executeUserInput` 396-610 | `Execute`, `ProcessInput`, `FollowUp`, `Return` |
| `onQuery` 2877-3005 | `StartQuery`, `InputIsShown`, `InputIsRequeued`, `FinishQuery`, `Incoming` |
| `query.ts` 1766-1843 | `DrainStart`, `DrainEnd` |
| `onCancel`, `handleCancel`, `handleBackgroundQuery`, `killAllAgentsAndNotify`, `popAllEditable` | `Cancel`, `Background`, `KillAgents`, `PopEditable` |

`onCancel` always ends the guard and drops the controller; what it aborts is
another matter, and `CanHit` says what it can be.  Without a permission dialog it
is the controller's turn.  With one, it is what the `onAbort` of the queue's first
prompt aborts: the turn that asked, perhaps a late one, or nothing, for a
teammate's prompt (`inProcessRunner.ts:240`) or one that has an answer already.
The message selector calls it too (4927), with or without a controller.  A turn
that had the guard and was not aborted is marked `left`: it runs on, and so does
whatever is submitted next.  In the same way `robbed` marks a turn whose
reservation another one released or started on.

### 2.6 Mailbox

As in the task list, a step is a file-system call, and a `writeFile` is two
steps.  Every call of `writeToMailbox` is an actor of its own, so no order among
writers is assumed.  A file that is emptied or cannot be parsed is read as no
messages, as `readMailbox` does.

| code | model |
|---|---|
| `writeToMailbox` 134-192 | `Create`, `FillCreated`, `Lock`, `Reread`, `Open`, `Write`, `Release`, or `GiveUp` |
| `markMessageAsReadByIndex`, `markMessagesAsRead`, `markMessagesAsReadByPredicate` | the same from `Lock` on, with `Marks` |
| `waitForNextPromptOrShutdown`, the pollers, the attachments | `Look`, `Chosen`, `Hand` |

### 2.7 SchedulerLock

The lock file has no lock of its own; it is created exclusively, filled, read,
overwritten and removed by separate calls.  `writers` are those that still have
the file open to fill it: what they write does not reach a file that was removed
and created again.  `robbed` remembers whose file was removed or overwritten by
somebody else.  `Untouchable` are processes of other users, which
`isProcessRunning` takes for dead.

| code | model |
|---|---|
| `tryAcquireSchedulerLock` 111-173 | `TryCreate`, `Fill`, `Read`, `Adopt`, `Unlink`, `TryCreate` again |
| `releaseSchedulerLock` 178-195 | `ReleaseLock`, `RemoveLock` |
| `enable`, the probe timer, `start`, `stop` | `Acquired`, `Blocked`, `Probe`, `StartScheduler`, `Stop` |

### 2.8 PermissionPrompts

A prompt goes through "new" (rules), "asked" (automated checks) and "open"
(queued, racing).  `claim` and what follows it up to the next await is one step.
`shown` is what React last rendered; `Offers` lets the user act on that while the
queue has moved on, and `Done` then takes the head of the queue as it is.

| code | model |
|---|---|
| `useCanUseTool` 33-171, `handleCoordinatorPermission` | `Check`, `Automated`, `Speculated`, `AskTooLate` |
| `handleInteractivePermission` | `Ask`, `HookAllows`/`HookDenies`/`HookAbstains`, `ClassifierAllows`, `RemoteAllows`/`RemoteDenies`, `TickEnds` |
| `onAllow`, `onReject`, `onAbort`, `onUserInteraction` | `UserAllows`, `UserRejects`, `Cancel`, `Interact` |
| `setToolPermissionContext`, `recheckPermission`, the bridge's mode switch | `Grant`, `ModeSwitch`, `RecheckAll`, `RecheckReads`, `RecheckClaims` |
| `cancelAndAbort`, abort listeners | `Turned`, `Ended`, `Silenced`, `AbortElsewhere` |

## 3. What the runs check

| run | instance | asks |
|---|---|---|
| `tasklist` | 3 agents, ids up to 3; an empty list with creators, resetters, claimants, a crash and attempts that run out; two tasks with two claimants, crash and reset, edits and completions, claims with the busy check; one task completed while its owner is edited | no id is given out twice; one holder per task, kept by the file, completions kept, one open task per agent; the list implements `TaskRegistry` |
| `tasklist_live` | 2 agents, 2 tasks, the first blocks the second; one task that is claimed and edited with `TaskUpdateTool` | operations end, and so give their locks back, with crashes, cascades of updates, list lock and task lock nested |
| `exec` | at most 3 calls of 5 kinds, cap 2, aborts | exclusive access, start order, no start after an error, order of results around exclusive calls, one answer each, cause of cancellations, order of modifiers |
| `exec_live` | at most 2 calls, cap 1, one fallback, existing tools only | the drain ends |
| `prompt_plan` | 432 plans of 3 tasks over 2 files, 1 to 3 agents | serialization, order, nothing given up for nothing, evidence, no second run, and the run returns |
| `transports` | 5 configurations, 3 events, an awaiting and a careless caller | nothing vanishes, order, the uploader implements `EventChannel`, flush means sent, callers return |
| `turns` | 4 casts of 3 or 4 commands, 3 calls alive, 2 interruptions | guard and turns belong together, turns exclude each other but for those that lost the guard, no command is lost or handled twice, the session moves on |
| `turns_concurrent` | the same | fails: a third turn starts beside one that nobody interrupted |
| `mailbox` | 2 or 3 messages, 2 readers of each kind, inbox there or not, 1 crash | messages stay, read means handed over, order, every message is handed over |
| `mailbox_created` | 3 writers and no inbox | fails: messages are lost though nobody crashed |
| `scheduler` | 3 processes of 2 sessions, 4 starts, 2 crashes | two owners only after a robbery; somebody owns |
| `permission` | a prompt of the turn with all racers, one of a subagent with hooks and the bridge | surfaces agree, rules reach the queue, the queue moves on |

Some invariants are conjunctions, so that one run states a whole promise:
`AnswersAreSound` (`ExclusiveResultsInOrder`, `AllAnsweredOnce`,
`SiblingErrorsHaveACause`, `ModifiersInOrder`), `ClaimsAreSound`
(`ClaimsAreExclusive`, `ClaimsAreKept`, `CompletionsAreKept`,
`OneOpenTaskPerAgent`), `MessagesAreConserved` (`NothingIsLost`, `HandledOnce`),
`MessagesAreSafe` (`MessagesAreKept`, `ReadMeansHanded`), `TheSessionMovesOn`
(`TheQueueDrains`, `TheGuardIsFreed`).

Why these bounds are enough for what they ask:

* Task list: the races need two agents in the middle of an operation and, for
  ids, a third that resets; an id can be reused as soon as one was given out and
  its file is gone, so three ids leave room for a wrong fourth step.
* Executor: an exclusive call with a neighbour on either side and a cap of two
  smaller than three calls is the smallest queue in which holding back, passing
  over and the cap differ.
* Plans: three tasks give every shape of dependency between neighbours (chain,
  join, forward), and a task whose files are shared in part with two others.
* Transports: three events with batches of two and a queue of one have a call
  larger than the queue, a batch in flight, one pending and one waiting at once.
* Turns: a late turn harms its successor by way of a third, so three are alive;
  the second interruption lets the user cancel the successor as well.
* Mailbox: a writer under way, another waiting and a reader between its two
  reads; the third message is there where order and priority are asked for.
* Scheduler lock: two that recover and the owner that is robbed; a fourth start
  lets one of them come back.
* Prompts: what a prompt does to another (rules, position, aborted signals) needs
  two, of different turns.

Deadlock checking is off where the system may come to rest: agents with nothing
to do, a response that is over, a run that has returned, an empty queue.

Named bounds: `MaxId` (ids; `Allocate` gives out none above it), `MaxTools` (calls
of a response), `MaxRetries` (streaming fallbacks), `MaxBatch` (events of one
write), `MaxTurns`, `MaxCancels`, `MaxCrashes`, `MaxDeaths`, `MaxStarts`.  `N`, `Cap`,
`maxAgents` and what is in `Configs` are parameters of the code, not bounds.

### Fairness

* `TaskList!FairSpec`: weak fairness of the steps of an operation (the event loop
  of a live process goes on) and of the take-over of stale locks.  No operation
  has to start.  A lock that is always busy when it is asked for does not starve
  anybody in `tasklist_live`, because attempts may run out ("timeout"), as the
  retries of the lock options do.
* `StreamingToolExecutor!FairSpec`: weak fairness of continuations and of the
  caller; strong fairness of the end of a call, since `Quiet` may come and go
  while other continuations run, and a tool that has ended is handled as soon as
  the event loop comes to a rest often enough.  That all tools end is an
  assumption (they have timeouts, or the user aborts them).
* `PromptPlan!FairSpec`: weak fairness of the scheduler, of the handlers, and of
  the end of `executeTask`.
* `Transports!FairSpec`: continuations and timers run; strong fairness for the
  server, since a request that fails is taken from it again: asked again and
  again, it takes a batch and answers in the end.
* `Turns!FairSpec`: what a turn awaits returns, and React runs the effect of the
  queue processor.  The user does nothing of necessity.
* `Mailbox!FairSpec`: loops and calls go on; strong fairness for the lock, which
  is free again and again; a reader retries for ever, poll after poll.
* `SchedulerLock!FairLockSpec`: file operations return and the probe fires.
* `PermissionPrompts!Fairness`: React renders, ticks time out, and the user
  answers the dialog he sees.  The last is an assumption about the environment;
  without it the queue waits, as it should.

### What the code does against its own words

Two of these are runs that are expected to fail, with a finding in
`PROJECT.json` that quotes the words.

* `turns_concurrent`: the guard's reservation has no owner.  A turn that Esc
  cancelled at its input comes back late and cancels the reservation of the turn
  started since (`handlePromptSubmit.ts:603`), so a third starts beside it, though
  "queryGuard guarantees no concurrent executeUserInput call".
  `TurnsAreExclusive` says in which ways two turns that were not aborted come to
  be at work: one was robbed like that, or left by `onCancel`, which is next.
* `mailbox_created`: the inbox is created and filled outside the lock
  (`teammateMailbox.ts:150`); the `[]` can land on another writer's messages,
  which makes the file unreadable and, with the next write, empty.

The others were met while modelling and follow from the models.  The instances
of the passing runs leave them out, or the properties name them as exceptions,
and each is told here so that nobody takes the bounds of a run for a promise.

* `REPL.tsx:2146`: "Tool use confirm handles the abort signal itself": not the
  prompt of a teammate (`inProcessRunner.ts:240`), nor one that is answered.
  `onCancel` has ended the guard by then (2126) and drops the controller (2167), so
  the main turn runs on, nothing can cancel it, and the next submission starts
  beside it.  The same happens when the message selector is confirmed (4927)
  while a turn runs whose controller a late one has cleared.
* `utils/tasks.ts:407`: `deleteTask` raises the high-water mark by a read and a
  write without the list lock.  Two deletions can leave the lower mark, or a
  creator can read the mark while it is truncated (0): a deleted id is given out
  again, although the mark is raised "to prevent ID reuse" (404).
* `utils/tasks.ts:676`: `claimTaskWithBusyCheck` ignores that its `updateTask`
  returned null (the file was being rewritten): the agent is told that the task
  is its own ("Returns success if the task was claimed", 540), and the file names
  nobody.
* `utils/tasks.ts:415`: `deleteTask` unlinks without the task's lock; an update
  that has read the task already writes it back, although deletion "permanently
  removes the task" (`tools/TaskUpdateTool/prompt.ts:24`).
* `TaskUpdateTool.ts:273`: the tool looks at the task without a lock (146), and
  writes owner and status under the task's lock alone.  Its prompt tells agents to
  "claim a task by setting owner" (`tools/TaskUpdateTool/prompt.ts:68`), and who
  starts a task without an owner becomes its owner (185-199).  Such a write takes
  the task from an agent that `claimTask` has told it is its own, with or without a
  claim between the look and the write, and a status other than "completed" takes a
  reported completion back.  `BeginToolUpdate` does all of this, so `ClaimsAreKept`,
  and with it the refinement, is a promise of claims beside claims and releases,
  not beside owner edits.  The tool also reports success when `updateTask` found
  nothing to update; `done` holds what `updateTask` itself has reported.
* `StreamingToolExecutor.ts:450`: `getCompletedResults` breaks off at an exclusive
  call only while it executes.  One that is still queued is passed, and the answer
  of a missing tool behind it is yielded.  While the caller holds that answer the
  exclusive call and one behind it run and end, and the loop then yields the later
  one first, though "results are buffered and emitted in the order tools were
  received" (43).  `ExclusiveResultsInOrder` says what is left: nothing overtakes an
  exclusive result but the answer to a missing tool and what is found behind such
  an answer.  The proof of `AnswersAreSound` led to this.  Without the second
  exception the property is not inductive, and TLC finds it violated by a read, an
  exclusive call, a missing tool and another read; the three calls of `exec` cannot
  show it.
* `StreamingToolExecutor.ts:483`: with an exclusive call executing and the answer
  to a missing tool behind it, `getRemainingResults` neither yields nor waits; it
  goes round through microtasks only, and the executing call can never end.
* `query.ts:900`: a new context is adopted only from the drain, so the modifier of
  a result taken while the response streams is lost unless another result follows
  (`Tool.ts:327`: "contextModifier is only honored for tools that aren't
  concurrency safe").
* `query.ts:783`: `discard` stops nothing that runs; the fresh executor starts an
  exclusive call beside it ("Non-concurrent tools must execute alone",
  `StreamingToolExecutor.ts:42`).
* `ccrClient.ts:758`: `writeEvent` waits for the buffered stream events before it
  queues its own message, so a later write can overtake it.  `ArriveInOrder`
  states what is left: nobody who awaits his writes is overtaken by himself, while
  the queue has room for all events or nothing is held back.
* `HybridTransport.ts:42`: a "non-stream write flushes any buffered stream_events
  first to preserve order", but those the timer has flushed may be waiting for
  room, and `enqueue` (`SerialBatchEventUploader.ts:107`) lets a smaller write that
  comes later pass them as soon as it fits.  TLC finds five events and a queue of
  two where a caller that awaits everything is overtaken by itself; the cap of
  100,000 makes it rare.  The proof of `ArriveInOrder` led to this; the property
  now names the condition.
* `hooks/useInboxPoller.ts:201`: the poller marks all messages as read some time
  after it read the unread ones; one that arrived in between is never delivered.
  `ReadMeansHanded` is claimed for teammates, which mark one message by its index.
* `cronTasksLock.ts:109`: "If two sessions race to recover a stale lock, only one
  create succeeds": not when the second removes the file after the first has
  created its own.  `OwnersAreAlone` says that two owners take such a robbery (or
  the resumption of a session whose process still lives).
* `genericProcessUtils.ts:16`: processes of other users are reported as not
  running, which the comment calls conservative; it makes their lock stale.
* `interactiveHandler.ts:315`: "the local dialog is always there as the floor":
  not for a prompt that Esc swept from the queue with another one
  (`REPL.tsx:2148`); it waits for the web page, a hook or its signal.
* `query.ts:1830`: a query that was interrupted while it made attachments still
  attaches the commands it drained, and the next turn may have taken them from
  the queue.  The same happens to a query that lost its reservation to another
  one, which nobody interrupted (the proof about `Turns` found that case), or the
  guard to an `onCancel` that aborted something else.  `HandledOnce` excepts
  them all.

## 4. What is proved

Every theorem holds for every value of the constants under the assumptions
the modules name.  They say of what type the constants are
(`ConstantsAssumption`, `MailboxAssumption`, `LockAssumption`, `PromptsAssumption`,
`CommandsAssumption`, `CallersAssumption`), that markers differ from what they
stand beside (`SentinelsAssumption`, `UnreadableAssumption`), that a command is what at most one slash
command submits next, and then neither a note nor a teammate's message
(`FollowAssumption`), and that events are numbered as they are written
(`EventsAssumption`).

| theorem | says | invariant behind it |
|---|---|---|
| `TaskListProofs!TypeCorrect` | `[]TypeOK` | `TypeOK` with `Shape`, below |
| `...!IdsAreFresh` | `CreatedAlone => []IdsNeverReused` | `Fresh`, below |
| `...!ClaimsStand` | `CreatedAlone /\ Guarded => [](ClaimsAreExclusive /\ ClaimsAreKept)` | `Claims`, below |
| `...!CompletionsStand` | `CreatedAlone /\ FinishedAlone => []CompletionsAreKept` | `Completions`, below |
| `...!ClaimsSound` | `CreatedAlone /\ Guarded /\ FinishedAlone => []ClaimsAreSound` | these and `BusyClaims`, below |
| `...!ImplementsRegistry` | `CreatedAlone /\ Guarded => RegistrySpec` | `Fresh` and `Claims` |
| `StreamingToolExecutorProofs!TypeCorrect` | `[]TypeOK` | itself, with lemmas on sequences of calls and on the least element of a set of positions |
| `...!Exclusion`, `...!StartOrder` | `[]ExclusiveAccess`, `[]StartsInOrder` | `QueueOK`, below |
| `...!ErrorsStopStarts` | `NothingStartsAfterAnError` | `TypeOK` and `QueueOK`, with lemmas on what each step does to the queue of calls (`Effects`, `Appended`, `OutcomeChanges`, `EmitChanges`) |
| `...!SoundAnswers` | `[]AnswersAreSound` | `SoundOK`, below |
| `PromptPlanProofs!TypeCorrect` | `[]TypeOK` | itself and "the plan is one of `Plans`" |
| `...!Serialization` | `[]FilesAreSerialized` | the locks are the files of the running promises, which are pairwise disjoint |
| `...!DependencyOrder` | `[]DependenciesComeFirst` | what has finished keeps its status |
| `...!RunOnce` | `TasksRunOnce` | every action changes only statuses that are open |
| `...!ClaimsAreOwn` | `[]LoneClaimsAreSupported` | `EvidenceIsOwn`, below |
| `...!GivingUp` | `[]NothingIsGivenUpForNothing` | `PassesAreThorough`, below |
| `LockedFilesProofs!MailIsTyped`, `...!MessagesAreAlwaysSafe` | `[]TypeOK`, `[]MessagesAreSafe` (Mailbox) | `MailInv` and `HandInv`, below |
| `...!TeammatesTakeThemInOrder` | `Alone => HandedInOrder` | `OrderInv` (Mailbox), below |
| `...!LockIsTyped`, `...!OwnersAreAloneInSpec` | `[]LockTypeOK`, `[]OwnersAreAlone` (SchedulerLock) | `LockInv`, below |
| `PermissionPromptsProofs!PromptsAreTyped`, `...!SurfacesAlwaysAgree`, `...!RulesAlwaysReachTheQueue` | `[]TypeOK`, `[]SurfacesAgree`, `[]RulesReachTheQueue` | `PromptInv`, below |
| `TurnsProofs!TurnsAreTyped`, `...!TheGuardAlwaysHasATurn`, `...!TurnsAreAlwaysExclusive` | `[]TypeOK`, `[]TheGuardHasATurn`, `[]TurnsAreExclusive` | `GuardInv`, below |
| `...!MessagesAreAlwaysConserved` | `[]MessagesAreConserved` | `NothingIsLost` and `PlacesInv`, below |
| `TransportsProofs!TransportsAreTyped`, `...!NothingEverVanishes` | `[]TypeOK`, `[]NothingVanishes` | `FlowInv`, below |
| `...!EventsArriveInOrder` | `[]ArriveInOrder` | `OrderInv`, below |
| `...!FlushesReturnWhenSent` | `FlushMeansSent` | `FlowInv`: what a waiter of a flush is owed is still in the queue or the batch |
| `...!UploaderIsAChannel` | `ChannelSpec` | `FlowInv`, below |
| `FilteringProofs!DroppingOrder` and the others there | what `Dropping` returns, keeps and orders | induction over the length, below |

`Shape` (TaskList).  `Write` puts `loc[p].val` in a file, which is a task only
because of the label the actor stands at.  `Shape` says for every label which
locals hold what.

The other theorems about the task list do not hold for every mix of operations:
section 3 tells how the code fails beside an unlocked writer.  They carry
hypotheses on the roles `can`, which the specification never changes:

* `CreatedAlone`: single tasks are deleted only where nobody creates one
  (`tasks.ts:407`: the mark is raised without the list's lock).
* `Guarded`: either whoever writes a task does so under the list's lock or gives
  back a task of its own (`ListLocked`: busy claims, releases, creation, resets), or
  nobody claims under the list's lock and nobody takes a task from its owner
  (`TaskLocked`: plain claims, edits of other fields, blocking, deletion, creation,
  resets, but no owner edits of `TaskUpdateTool` and no `unassignTeammateTasks`).  The
  busy claim reports success whatever its update found (`tasks.ts:676`), so it is
  sound only where no file can be torn under it.
* `FinishedAlone`: where tasks are finished nobody sets one to work again
  (`inProcessRunner.ts:646`, `TaskUpdateTool.ts:273`) and no killed teammate's tasks
  are given back.  A task may be given to another agent or to nobody.

Crashes, stale locks and attempts that run out are allowed with all of them.
Every start of `tasklist` satisfies all three, but the one with owner edits, where
nobody claims: it satisfies the first and the last.

* `Base` is `Shape` with what the labels mean: who is inside a section holds its
  lock (`LockedFor`), and whatever an operation is about was issued (`KnownFor`).
* `Fresh`: every issued id is at most the mark or has a file at or above it, a scan
  has seen as much (`IdsGrow`), and until a new task is written nobody else has to do
  with its id (`NewFor`).  A crash between `Open` and `Write` leaves a torn file,
  which still counts, since the scan looks at names only.
* `Whole`: who stands at "write" has truncated the file.
* `Claims`: whatever an agent holds names it in the file, and so does every write of
  that file that is under way (`OwnFor`); who has read a free task under a lock still
  has what is in the file (`ClaimFor`); what a busy claim has seen free is
  nobody's (`SeenFor`).
* `Completions`: a reported completion is in the file, and nobody is writing
  anything else back.
* `BusyClaims`: a busy claim that has looked at all tasks and decided has found
  everything else that its agent holds completed, and it stays so until the claim
  is written.

`QueueOK` (StreamingToolExecutor) explains why several suspended passes of one
queue do not get into each other's way.  Exclusion is about what executes, order
about what waits, and neither is inductive: a suspended pass that goes on at
position `p` could start a call behind one that waits before `p`.
`PassesAhead` says that this does not happen: every suspended pass, the drain's
own included, has everything that waits at its position or behind it.  A pass
that starts a call therefore starts the first of all that wait, and the position
it goes on at is again ahead of the rest.

`SoundOK` (StreamingToolExecutor) ties the histories to the queue.  `Accounts`:
a call is answered exactly when it is completed or yielded, and what was emitted
is what was yielded; a sibling error has a Bash error beside it; the context
went through the modifiers of the exclusive calls that succeeded, in order, and
these are before everything that executes.  `InStep`: an exclusive call that is not yielded yet is behind everything emitted,
and behind the position of the pass that collects, unless the answer to a missing
tool was emitted in between.  `AtItsPlace`: the drain begins each pass at the head
and is over only when all is yielded.  The order of modifiers needs `QueueOK`: a
call that starts is behind all that have started.

`EvidenceIsOwn` (PromptPlan).  A task that does not run has no evidence yet or any
more, and one that runs and has never run beside another is the only one that
runs, so that its snapshots differ by what it did itself and nothing else; to them
come only the files its own execution reports as observed.

`PassesAreThorough` (PromptPlan).  A pass reaches its settling phase only after it
has marked whatever could be ready and tried whatever was; a pass that launched
nothing with nothing running therefore met only tasks whose dependencies cannot
finish.  It rests on `SomeAgent`: whatever `independentWidth` counts, which is a
recursion over the tasks, there is at least one agent.

`MailInv` (Mailbox).  Messages can be read from a file that is being rewritten only
with its writer, so the invariants are about `Inbox`: what the file holds or, when
it was emptied to be written, what its writer is about to put back.  Who is inside
the section holds the lock (`LockIsHeld`), so there is one such writer; until the
file is torn, whoever is about to open it still has in memory what the file holds
with his own change (`OpensFor`), a message is in the inbox once (`Once`), and not
before its call wrote it (`ComesFor`).  Every step then opens the file, writes what
`Inbox` is already, or changes nothing in it (`StepIs`).

`HandInv` (Mailbox).  A teammate marks by the index it saw before it had the lock.
The invariant says that the message at this index of `Inbox` is still the one it
holds (`HoldsFor`): the inbox only grows at its end.  Whatever is marked is
therefore handed over or about to be (`InboxIsHanded`).

`OrderInv` (Mailbox).  What stands before the message a teammate holds is of another
sender, asks to shut down, or was handed over.  This needs `Alone`: the inbox has one
teammate who reads it, as in the code, where the loop of a teammate reads the inbox
of its own name (`inProcessRunner.ts:763`).  With two the property fails in the model:
one has marked the first message and still holds the lock; the other sees the next,
gives up on the lock and hands that one over first.

`LockInv` (SchedulerLock).  Who has opened the file to fill it can still do so
(`OpenedIsKept`), and the file names its owner (`OwnerIsNamed`), both unless he
was robbed.  Two owners are two names for one file, so one of them was.

`PromptInv` (PermissionPrompts).  What is queued or on the web page has been asked
(`AskedWhenSeen`), and the dialog shown belongs to the head of the queue as long
as its prompt is queued at all (`ShownIsFirst`): an answer given at a dialog whose
prompt is still queued takes that prompt out of the queue and no other.

`GuardInv` (Turns).  A turn that was neither aborted, robbed nor left owns the
guard, and no other turn's controller is set (`FreeOwns`); queries have different
generations (`GensDiffer`); a guard that is not idle has a turn at its input, or a
query of its generation, that will give it back (`SomeoneHolds`).  So a turn that
nobody cancelled loses the guard only to the `cancelReservation` or `tryStart` of a
late one, and a cancelled turn keeps working only where `onCancel` aborted
something else: these are what `TurnsAreExclusive` excepts.

`PlacesInv` (Turns).  A command that nobody has submitted is nowhere; one that
waits is in one place (`OnePlace`): the queue, an input or a query's commands; what
was not handled still waits (`UnseenWait`); and what a query that was neither
aborted, robbed nor left has read from the queue is still queued (`SnapsAreQueued`).

`FlowInv` (Transports).  `EveryEventIsSomewhere` gives each event that was written
and is neither sent nor given up a place: a buffer, a call that waits for room, a
continuation that carries it, the queue or the batch in flight.  `CoreOK` says what
continuations may be pending in which state of the drain and that no event is in
two places, `BufferOK` that nothing is given up without a reason.  In the
refinement the channel holds the batch in flight and then the queue, without what
cannot be serialized or has arrived (`Chan`); each step appends to it, delivers a
prefix of it, gives some of it up, or stutters (`ChannelStep`).

`OrderInv` (Transports).  The channel keeps order, so what is left is the order in
which events enter it.  `Line` is what has arrived followed by the channel; the
events that still wait do so in loads, the items of one call that waits for room
or of one continuation, and in the buffer.  Two events are related when the
property asks for their order: all events under a `HybridTransport`, else those of
one caller that awaits.  `OrderOf` says that related events of `Line` are in order,
that each load is its caller's and in order and comes after what `Line` holds, that
no two loads, nor a load and the buffer, hold related events, and that the buffer
comes last.  So whichever load goes on next, it appends to `Line` in order.  With
room for all events nobody waits for room, and only the rest of a `writeBatch`,
which is its caller's, is still to come; `RoomForAll` draws this from `Roomy` by
the pigeonhole principle: as many different
events as the queue has places cannot be there twice.  Where nothing is held back
(`config.client = "plain"`) a caller that awaits has one call under way, however
full the queue is.

`FilteringProofs` does what the uploaders', the session's and the prompts' proofs
need of `Array.filter`.  The library's induction theorems take an operator as a
parameter, which the provers cannot instantiate, so `Induction` and
`SequenceInduction` are stated about sets (a set of numbers with 0, closed under
successor, is `Nat`) and proved from the well-foundedness of `<`.

## 5. What is only model-checked, and why

* Liveness (`OperationsEnd`, `DrainEnds`, `RunReturns`, `CallsReturn`,
  `TheSessionMovesOn`, `EveryMessageIsHanded`, `SomebodyOwns`, `QueueMovesOn`):
  fairness and ENABLED are outside what the prover handles.
* `HandedInOrder` of `Mailbox` where two teammates' loops read one inbox: it fails
  there (section 4), and the code starts one loop for each name.
* The mixes of operations that the hypotheses of section 4 leave out are in no start
  of `tasklist`, because there the properties fail in the code: beside an unlocked
  writer, and claims beside the owner edits of `TaskUpdateTool`.  Of these edits
  `tasklist_live` checks beside claims that they end and give their locks back.

## 6. What the models leave out

* TaskList: the hooks, the assignment notice and the further `blockTask` calls of
  `TaskUpdateTool`, which are operations of their own; agents without a name;
  choice of the list, the change signal, subjects and other fields that
  no property tells apart (an edit is an update that writes the record back).
  `tryClaimNextTask` of the teammate runner is a claim followed by a "start" of
  the model; with completions by others in between, its second update takes a
  completion back (see hazards).
* StreamingToolExecutor: the last updates of a call (result, context modifier,
  end) arrive together; the sets that only the interface reads.  Several
  modifiers of one call are one.
* PromptPlan: records, board events, progress, file contents (a file is changed or
  not: a change that is undone counts as a change), changes by the user, and two
  plans in one workspace.
* Transports: the bytes of a batch, delays and jitter, authentication and epochs,
  requests that arrive after the client gave up on them, `WorkerStateUploader`.
* Turns: meta messages, restoring a cancelled prompt, rewinding by the message
  selector (only its `onCancel` is there), commands that render at
  once, remote sessions, React state that lags behind the guard, the priority
  "now", and the use of the queue by `cli/print.ts`.
* Mailbox: a lock that is taken over although its holder lives (a process that
  stood still for the lock's whole lifetime), the poll for a leader's answer to a
  permission request (`inProcessRunner.ts:386`), which takes that answer alone from
  the inbox while the teammate's own loop waits, what becomes of messages in
  `AppState.inbox`, the contents of structured messages, `clearMailbox` (nothing
  calls it).
* SchedulerLock: the tasks, when they fire, their file and its watcher; process
  ids that are used again.
* PermissionPrompts: the rules, the request of a swarm worker to its leader, the
  other dialogs that can cover this one, the suppression of dialogs while the user
  types.
* The components marked `not_modelled` in `PROJECT.json`, for the reasons given
  there: most are text, formats, rendering or clients of services outside the
  repository.

## 7. Plan

1. Not modelled yet and small enough: `runTools` under the promises of the
   executor, the background runner's manifest, two plans in one workspace.
