# A TLA+ model of OpenClaudeTag

OpenClaudeTag lets people in Lark and Slack mention coding agents. A message
becomes a *task*; a worker runs a coding runtime for it, on the server or on the
machine of a user, and reports back to the chat. This directory holds TLA+
modules of the parts of that system where order, failure and concurrency decide
whether it is right, the TLC configurations that check them, and proofs that
TLAPS checks.

Paths are those of the repository; "`main.ts`" alone is `apps/worker/src/main.ts`.

## 1. The system

```
 Lark / Slack
      |  events                                        user's machine
 apps/api  ---- create task, enqueue ---->  Postgres        |
  normalize, dedup, sessions, commands,     pg-boss     apps/daemon
  card actions, PR polling                     |            | WebSocket
                                          apps/worker ------+
                                  admission, processTask, watchdog,
                                  recovery, daemon gateway, senders
```

| Component | State it keeps | Operations | Talks to |
|---|---|---|---|
| Task lifecycle (`packages/orchestrator`) | `tasks.status` | create, `transitionTask` (read, validate, compare-and-swap, retry) | Postgres; called by everybody |
| Task queue (`packages/queue`) | pg-boss rows, the worker's active jobs | enqueue (deterministic id, generations, replay), poll, complete, fail, expire, graceful shutdown | Postgres |
| API pipelines (`server.ts`, `task-dispatch.ts`, `neutral-dispatch.ts`) | dedup claims | create, queue, enqueue, compensate; Slack recovers by redelivery | lifecycle, queue |
| Task handler (`main.ts`, `processTask`) | one turn | guard, budget, admission, run, wrap up, report, finally | all of the worker |
| Admission scheduler (`packages/scheduler`, `admission-rescheduler.ts`) | running and start slots; `admission_leases` | admit, release, defer, reschedule | handler, queue |
| Runtime watchdog and settlement fence | watched executions, settled tasks | register, scan, cancel, settle | handler, lifecycle |
| Startup recovery | none of its own | select stale running tasks, re-queue or fail them | lifecycle, queue |
| Card actions (`card-action-handler.ts`) | none of its own | confirm or reject a work directory, and others | lifecycle, queue |
| Daemon event stream (`dispatch-manager.ts`, `replay-buffer.ts`, `seq-tracker.ts`, `remote-runtime-adapter.ts`) | replay buffer, sequence numbers, acks, grace timer | emit, ack, replay, deliver, fail, close | gateway |
| Daemon connections (`gateway.ts`, `connection.ts`) | one socket per machine | authenticate, hello, supersede, sweep, reconnect | stream |
| Daemon dispatch admission | active dispatches of a daemon | accept, reject, cancel, reconcile | gateway |
| Delegation | edges, budgets, barrier of a waiting parent | delegate, complete, wake, reconcile | lifecycle, queue, leases |
| Discussions | turns, rounds, a version | start, append, advance, stop | lifecycle, queue, leases |
| Waiting contracts | contracts between agents | open, bind, wake, expire, reconcile | senders |
| Inbound events | claims, per-chat queues | deduplicate, serialize, buffer | pipelines |
| API connection supervision | app locks, heartbeats | acquire, renew, take over | Lark |
| Sessions and commands (`packages/session`, `topic-session-alias.ts`, `reply-threading.ts`) | sessions, aliases, the chat's pointer | resolve, create, alias, merge, canonicalize; `/new`, `/session use`, `/close`, `/reset` | API handlers, the turn of a task |
| Memory, registry, budgets, channels, ambient, PR polling, approval, launcher, console, desktop | rows and configuration | lookups, formatting, HTTP, processes | - |

`PROJECT.json` lists every component with its status and the reason where it is
not modelled.

**What is hard here.** A task's status is written by five parties in two
processes (the API, the turn, the watchdog, a click, a starting worker), each
with awaits between reading and writing. A task's progress is carried by a
sequence of owners - an API call, a job row, a handler, a lease - and every
hand-over can fail half way, be repeated, or be cut by a crash. Admission
counters live in memory and are released by three parties. A daemon's events
cross sockets that die without either end knowing, while acks, replays,
handshakes with awaits, and timers overlap.

**What makes each component correct.**
- *Lifecycle*: every change of a status is one the state machine allows.
- *Queue*: one turn per session at a time; an enqueue is idempotent.
- *Pipelines, leases, recovery*: no task is left with nobody to carry it on.
- *Admission*: limits hold and no slot leaks.
- *Watchdog*: it never fails what it does not watch; a settled turn runs nothing.
- *Stream*: in order, exactly once, nothing lost, always ended.
- *Dispatch admission*: the machine's cap holds; the user is told what happened;
  a runtime nobody waits for does not outlive the next reconnect.
- *Delegation*: budgets hold; a parent wakes when its last child is done, once,
  and never runs beside a child it waits for.
- *Discussions*: turns are committed and shown in order; stop means stop.
- *Waiting contracts*: the wait is recorded before the work; one outcome is
  announced, and none is forgotten.
- *Inbound events*: an event is worked on once, however often it is delivered,
  and closed only when its work is durable.
- *Sessions*: the messages of a topic end up in one session; what was merged away
  can be found from where it was, and no turn works there.

## 2. Modules

| Module | Role | Instances | Proofs |
|---|---|---|---|
| `TaskLifecycle` | abstract specification: the statuses of tasks and their transitions | | |
| `TaskPipeline` | a task from its row to its terminal status, across API, queue, worker, watchdog, recovery | `MCTaskPipeline` | `TaskPipelineProofs` |
| `EventDelivery` | abstract specification: what the worker's stream of a dispatch yields | | |
| `DaemonStream` | one dispatch between daemon and worker over dying sockets | `MCDaemonStream` | `DaemonStreamProofs` |
| `DaemonDispatch` | several dispatches to one machine: cap, acceptance, cancellation, restarts | `MCDaemonDispatch` | `DaemonDispatchProofs` |
| `Delegation` | a tree of tasks of agents that hand work to each other | `MCDelegation` | `DelegationProofs` |
| `Discussion` | agents that speak in turn in one thread | `MCDiscussion` | `DiscussionProofs` |
| `WaitingContract` | "@A do this, then @B do that" | `MCWaitingContract` | `WaitingContractProofs` |
| `InboundEvents` | one event that is delivered more than once | `MCInboundEvents` | `InboundEventsProofs` |
| `Sessions` | the sessions of a group's topic, and their merges | `MCSessions` | `SessionsProofs` |

`TaskPipeline` refines `TaskLifecycle` and `DaemonStream` refines
`EventDelivery`. `Delegation` and `Discussion`, whose repositories write statuses in
SQL of their own past `transitionTask`, follow `TaskLifecycle`'s transitions
(`FollowsLifecycle`). The other modules meet `TaskPipeline` at a seam each of them
names: a turn that starts, ends or fails there is a whole `processTask` in
`TaskPipeline`; `StartRuntime`, `EndRuntime` and `HandlerThrows` there stand for
the first event, the end and the failure of a stream of `DaemonStream`, and what
comes before that stream is `DaemonDispatch`; the API's pipelines there begin
where `InboundEvents` has claimed an event and `Sessions` found its session.
Each module cuts its neighbours down to what can race with it, and says so in
its header.

### TaskPipeline

*State.* `status`, `job`, `rows` and `lease` are the rows in Postgres. `at` says
for each writer (`api`, `handler`, `watchdog`, `form`) and each task where that
party stands; `seen` and `tries` are the locals of `transitionTask`. `running`,
`starting`, `watched`, `killed`, `settled`, `unwritten` are the worker's memory
(scheduler slots, `RuntimeWatchdog.active`, the settlement fence,
`watchdogTerminalWritePending`); `resched`, `stale`, `recovery` and `phase` are
the rescheduler's pass, startup recovery, and the life of the process.

*transitionTask* (`orchestrator.ts:241-299`) is modelled once, for all writers:
`ReadStatus`, `RefuseTransition`, `CommitTransition`, `RetryTransition`,
`GiveUpTransition`, `FailTransition`. The tables `Target`, `Committed`, `Refused`
and `Errored` give, for each place that calls it, the status asked for and where
the caller continues.

*API.* A Lark message runs `queueing -> enqueuing -> done`; a refusal or an
enqueue that throws leads to `compensating` (`failTaskCreatedPipeline`). A Slack
message runs `requeueing -> reenqueuing -> delivered`; an error leaves it `open`
and a redelivery starts again from whatever status the task has by then.

*Handler.* `guard` (duplicate jobs) - `admit` (budget and scheduler) - `admitted`
or `deferring` - `toRunning` or `toConfirm`, `asking` (work-directory card) -
`launching` - `executing` - `wrapping` - `succeeding` or `conceding` - `reporting`
- `closing` (finally) - `ending` or `throwing` (`processFetchedJob`). Any call in
between may throw (`HandlerThrows`) and leads to the catch block, `failing`.

*Watchdog.* A scan cancels an executing runtime (`CancelRuntime`) or finds none
(`FindNoRuntime`); then `SettleFence` (up to the first await; the slots are
released), the writes, which may fail and be retried by the next scan, and
`Unwatch`.

*Worker.* `StartWorker` selects stale rows, recovery handles them one by one,
`Subscribe` starts the handlers. `Crash` loses all memory at any moment;
`Shutdown` drains, `Exit` follows when no handler is busy, `ForcedExit` when the
drain timed out.

*Abstractions.* One worker process, which `doc/architecture/admission-scheduler.md`
("Worker Scope") requires. A task has one turn: delegation, discussions, debug
tasks and the tasks a retry or a form creates are other tasks or other modules.
Times are nondeterministic: a job may expire, a lease be due, a runtime stall at
any moment; the constant `TurnsOutliveJobs` says whether a job may expire under a
running handler. `overtaken` is a history variable: the queued tasks whose deferral
met a pass of the rescheduler that takes the lease away again, because its enqueue
resolved to the job of the very turn that deferred or because the turn deferred
between the pass's enqueue and its `deleteLease`. Finished rows stay, as they do
for the hour before pg-boss archives them. An enqueue is atomic at its lookup of
the conflicting row. The watchdog scans a task once at a time. A task whose
handler outlived its job is not fetched a second time. Recovery's lookback of
24 h is unbounded. `ForcedExit` is atomic, and the re-queueing of fetched jobs
during a shutdown is left out, as it leaves every row where it was. A runtime
killed by the watchdog ends as failed, and `CANCELLED` is written by the card only.

### DaemonStream

*State.* The daemon's entry of the dispatch (`log` is a history of the numbered
events, `entries` the replay buffer, `loop`, `terminal`, `settled`, `artifacts`,
`tracked`), its process and socket, the frames in flight on each socket in both
directions, the gateway's view (`ssock`, `awaiting`, `announced`, `helloDone`,
`registered`) and the adapter's (`received`, `outOfOrder`, `yielded`,
`connected`, `grace`, `lastAcked`, `cached`, `bridge`).

*Actions.* `RuntimeYields` is one turn of `runLoop` with `emit`: truncation and
the synthetic failure of an oversized event (`EmitOversized`), the overflow of the
buffer (`EmitOverflow`), or an ordinary event (`EmitRetained`). `Connect`,
`HelloBegins`, `HelloFinishes`/`HelloFails` and `HelloOk` are the handshake, with
the await of `handleHello` between the second and the third. `EventAck`,
`Replay`, `SettleArtifacts`, `RouteEvent` (`handleTaskEvent` with `SeqTracker`),
`RouteLost`, `RouteUnowned`, `RouteArtifacts`, `AckTick` and `GraceExpires` are
the rest of both ends. `DaemonSocketClosed` and `ServerSocketClosed` are
independent: each end learns of a dead socket at a moment of its own.
`ProcessStops` ends or restarts the daemon, which forgets everything.

*Abstractions.* One dispatch, from the moment it was accepted; one daemon process
per machine; an event is its type and its size in units that are compared with
the limits only.

### DaemonDispatch

*State.* For each dispatch: the step of its `RemoteRuntimeAdapter` and what its
turn was told (`adapter`, `outcome`, `doomed`, `cancelling`, `abandoned`; `misled`
are the streams that held the news of a loss before they were read); the
connection with the frames under way (`link`, `hello`, `toDaemon`, `toServer`);
the `DispatchManager`'s map and what really runs on the machine (`active`,
`runtime`, `refusing`, `unacked`).

*Actions.* Worker: `Execute`, `Dispatch`, `AcceptTimesOut`, `GraceExpires`, the
watchdog's `WatchdogCancels` and `WatchdogForces`, the four kinds of frames it
receives, `WorkerRestarts`. Daemon: `HandleDispatch` (up to its await; the count
against the cap is taken there), `Accept`, `Refuse`, `Start`, `End`,
`HandleCancel`, `HandleAck`, `HandleHelloOk` (with `reconcileOnReconnect`),
`DaemonRestarts`. Connection: `Connect`, `HandleHello`, `Drop`.

*Abstractions.* The stream is `DaemonStream`'s: of all events only the terminal
one is left and the adapter consumes it on arrival. Both ends notice a lost
connection at once. A runtime that nobody stops may run for ever.

### Delegation

*State.* A child's id is a function of its parent and its callee, so a task *is*
its chain of agents. `status`, `edge`, `used` and `woken` are the rows of tasks,
edges and the tree; `resume` the package a woken parent finds; `created`,
`active`, `lease` the queue; `at`, `call`, `wake` the handlers; `pass` the
rescheduler with the reconciler.

*Actions.* `CreateChild`, `ReuseChild`, `RefuseChild` are the outcomes of
`createDelegatedTask` under its two locks; `EnqueueChild`, `HandedOff`,
`DropChildLease`, `HandoffFails` what follows. `FinishTask`, `ReadEdge`,
`WriteEdge` (two awaits apart, and unchecked), `EvaluateBarrier`,
`EnqueueParent`, `DropParentLease`, `HookFails` are the hook after a terminal
write. `BeginPass` ... `EndPass` repeat all of this for leases, edges and
barriers, in a snapshot's order.

*Abstractions.* One tree. Admission always admits; a failing call stands for a
worker that stops there too. The Slack redelivery of a waiting root is left out.

### Discussion

*State.* `dstatus`, `position`, `row`, `rendered`, `closed` are the discussion's
rows, `task` those of its turns' tasks, `created`, `active`, `lease` the queue,
`thread` what Lark shows, `command`, `at`, `posting`, `pass` the processes.

*Actions.* `CreateDiscussion`, `InsertFirstTask`, `EnqueueFirst` and its failure
for each delivery of the command; `StopDiscussion`; the handler from `FetchJob`
through `CheckQueued`, `CheckDiscussion`, `StartTurn`, `EndTurn` to `CommitTurn`,
the one transaction that ends the task, records the turn and opens the next one;
then `EnqueueNext`, `PostTurn`, `PostClosing`, `MarkRendered`. `WatchdogFails`,
`Crash`, `ExpireJob` and `Restart` are what cuts it short.

*Abstractions.* Handlers of a session run one at a time, as the queue keeps them
while no turn outlasts its job (section 3, `SessionSerial`). A post carries an idempotency key, so a repeated
one is not shown twice.

### WaitingContract

*State.* The contract's row (`status`, `bound`, `acked`, `age`), A's task, what
the chat was told, and the steps of the two deliveries, of the hook after A's
task and of the reconciler's pass.

*Actions.* Either delivery may insert the contract; A's aborts when that fails,
starts the task and binds it, B's binds, acknowledges and records. The hook lists,
claims (compare-and-swap), posts, reverts. The pass takes a snapshot of stale
contracts and inspects them one by one: late binding, expiry, post, revert.
`EndTaskSilently` is a task failed by a path without the hook.

*Abstractions.* Relays do not share anything; the limit of a pass's batch is left out.

### InboundEvents

*State.* The claim of one event, whether it is stale, the step of each delivery's
handler, the tasks and jobs they make, how many turns and notices came of it, and
`lapses`, a history of what the code gives up on.

*Actions.* `InsertClaim`, `ReadClaim`, `TakeOver`, `Duplicate` are
`checkAndRecordEvent`; `CreateTask`, `LookAtTask`, `EnsureQueued`, `Notify`,
`Enqueue` the dispatch; `DispatchFails`, `LookupFails`, `Mark`, `Release`,
`Answer` its ends; `StartTurn`/`EndTurn` the worker; `Crash` the API.

*Abstractions.* One event; Lark deliveries of a chat are handled one after
another (`ChatEventSerializer`), Slack's side by side. The turn is cut down to
what can race a delivery.

### Sessions

*State.* `status`, `alias`, `pointer`, `message`, `task` are the rows; `at`,
`todo`, `want`, `here` a handler of `processEvent`; `delayed` the lookup of a
topic's id for a root that quotes an image; `turn`, `local` the worker's turn.
A session is named by its unique key.

*Actions.* `ReceiveRoot`, `ReceiveInTopic`, `ReceiveAnswering`, `ReadAlias`,
`ReadKey`, `ReadPointer`, `Create` are `resolveSession` with an await between any
two reads; `Quote`, `AliasTopic`, `Upgrade`, `Feedback` give ids an alias
(`AliasThreadKeys`, which merges whoever had the id before); `Store`,
`CreateTask`, `Enqueue` insert the rows, perhaps behind a merge; `Start` and
`Finish` are `refreshTaskSessionCanonicalId`; the commands move the pointer.

*Abstractions.* Group chats on Lark: private chats have one session, Slack has no
aliases. A merge is one transaction; agent states, memory scopes and the merge of
two discussions (`resolve.ts:553-905`) are left out. Tasks are enqueued and
fetched without failure; turns of one session are not kept apart.

## 3. Runs

Every run ends by itself. Deadlock is not an error in any of them: the bounded
instances come to rest when everything is settled and every allowance is spent.
`..._live` runs check safety and liveness together, under `FairSpec`.

| Run | What it shows | Bounds |
|---|---|---|
| `TaskPipeline_faults` | `ImplementsLifecycle`, `ExecutingIsAccountedFor` when recovery, failing calls, a redelivery and a stop meet | 1 task, either channel, 1 stop, 2 failing calls, 1 redelivery, paced admissions, turns may outlast their jobs |
| `TaskPipeline_lost` | `SlotsMatchTurns` when a failing call may have taken effect; `NothingStranded`, `Settles` with deferrals and a redelivery | the same without a stop; turns may outlast their jobs |
| `TaskPipeline_live` | `Settles` when two tasks wait for each other | 2 tasks of one session, no fault, no stop, no deferral, no turn outlasts its job |
| `DaemonStream_safety` | `NothingLost`, `RetiredOnlyWhenDelivered`, `LostMeansLost`, `GraceMatchesConnection`, `DeliversInOrder` | 2 sockets, 1 killed by the network, 2 events of 4 kinds, a buffer of 2 |
| `DaemonStream_live` | `TerminalSettles` | 2 sockets, 1 killed, 1 event |
| `DaemonDispatch_live` | `WithinCap`, `ToldTheTruth`, `StreamIsFed`, `DispatchSettles`, `OrphanStops` | 2 dispatches, a cap of 1, 1 lost connection or restart |
| `Delegation_live` | `Budgets`, `EdgesTellOutcome`, `ParentIdle`, `NothingStranded`, `Resumes` | a root and 2 callees, depth 1, fanout 2, 2 tasks in all, 1 failing call |
| `Delegation_hang` | `WaitingParentResumes` is violated | the same, no failing call |
| `Discussion_live` | `OneSpeaker`, `ThreadInOrder`, `StopIsFinal`, `CarriedOn`, `Concludes` | 2 agents, 2 rounds, 2 deliveries of the command, 1 fault |
| `WaitingContract_live` | `ContractBeforeTask`, `SettledIsTold`, `OneOutcome`, `NeverAbandoned` | 1 relay, 3 faults |
| `InboundEvents_live` | `RunsOnce`, `ClosedIsQueued`, `NothingDropped`, `EventIsQueued` | 3 deliveries, either channel, 2 faults |
| `Sessions_live` | `LeadsOn`, `RunsWhereTheTopicIs`, `TopicIsOneSession`, `StaleRowsMove` | a root message, a reply, 1 command, 1 failing alias |

*Why the bounds suffice.* The parties that race for one status are all present
for one task, and what joins two tasks in `TaskPipeline` is a count against a
limit or a clash of jobs in one session. One stop allows a crash in every state
and a recovery after it; two failing calls allow a failure of the work and one of
its compensation; three enqueue attempts allow a job, a deferral and two more
generations. In `DaemonStream` two sockets allow an old and a new connection with
all their overlaps (identities are reused once both ends forgot one); two events
allow a gap, a duplicate and a terminal event, and the four kinds reach each limit
of frame and buffer. In `DaemonDispatch` two dispatches meet at a cap of one. In
`Delegation` a fanout of two has a first and a last child, and a budget of two is
reached and overdrawn; a chain handoff in a deeper tree adds no new party. Two
agents and two rounds give a discussion a turn with a successor in its round, one
that changes the round, and a last one. Three faults on a relay let the hook fail,
its undo fail, and the reconciler fail after it; relays share nothing but the
pass. Three deliveries allow an owner, one that takes the claim over, and one
whose answer arrives in between. In `Sessions` the reply may open a session for
the topic before, while or after the root's session takes it over. The case of two
bots whose root message starts the topic twice is in the theorems of section 5,
which hold for any bots and bounds; with two bots, one command and no failing
alias the three invariants pass as well (5.8 million states), but take longer than
a run is meant to. With turns that outlast their jobs `TaskPipeline_live` does,
too; `TaskPipeline_lost` checks `Settles` with such turns.

*The violation.* `WaitingParentResumes`: `delegation_trees.woken_at` belongs to
the tree and is set by the first wake of its root; nothing clears it. A root that
is resumed and delegates again waits for ever, as the barrier of its second wait
says that it was already woken (`agent-delegation-repository.ts:519`, against
`doc/multi-agent-scheduling-acceptance.md:36`).

### Refuted claims without a run

TLC refutes each of these on the instance named. Most stay in the modules as they
are; where "without" is said, the property that is checked names the exception.

| Property | Instance | What the code does |
|---|---|---|
| `Sessions!LeadsOn`, `RunsWhereTheTopicIs` and `TopicIsOneSession` without `BotsAgree` | `Spec`, 2 roots, 1 command | two bots of one root message start the topic in two sessions, see below |
| `TaskPipeline!QueuedHasFollowUp` | `Spec`, 1 task, `Paced` | the rescheduler's enqueue resolves to the active job whose turn is about to defer the task, and then deletes the lease: the task stays queued with neither (`doc/multi-agent-scheduling-acceptance.md:27`); these are the tasks in `overtaken` |
| `TaskPipeline!StaleRunningRecovered` | `FairSpec`, 1 task, 1 stop | recovery runs once, at startup, and skips tasks whose job is active, which is how a crash leaves them (`startup-recovery.ts:36`) |
| `TaskPipeline!SessionSerial` | 2 tasks of a session, `TurnsOutliveJobs = TRUE` | a turn longer than its job's expiry runs beside the next turn of its session (`task-queue.ts:183`: "per-session serial execution"); nothing ends a turn that makes progress |
| `DaemonStream!GoneDaemonFails` | `FairSpec`, 2 sockets | a socket that closes while `handleHello` awaits is registered afterwards; the grace timer is cleared and no close event will come (`server-mode.md:206`) |
| `DaemonDispatch!ToldTheTruth` without `misled` | `Spec`, 1 dispatch, 1 lost connection | a hello during the await of `resolveInlineImages` misses the registered dispatch and its bridge gets a `task_lost`; the dispatch is sent all the same, and once it is accepted the turn reads that it is lost while the machine runs it (`gateway.ts:724`: "so the adapter fails the task immediately") |
| `DaemonDispatch!CancelledIsNotSent` | `Spec`, 1 dispatch, no fault | `dispatchAndAwaitAccept` does not look at the latch that `cancel` set (`remote-runtime-adapter.ts:227-233`) |
| `InboundEvents!CrashLosesNothing` | `Spec`, 2 Slack deliveries, 1 fault | the retry after a crash is a duplicate and answered 200 (`slack-events.ts:166-168`: "a crash can never ack an event it then loses") |
| `Sessions!TopicIsOneSessionAtRest` | 1 root, 1 reply, 1 fault | an upgrade that fails is not repeated, and only a root that quotes an image gets the topic's id (`reply-threading.ts:32-38`: later messages "resolve back to the same session") |
| `TaskPipeline!ImplementsLifecycle` | lost replies and a stop | recovery's unconditional re-queue rewrites a task that the API failed after its enqueue had, unknown to it, succeeded |

### Other disagreements met while modelling

*Stream and dispatch.*
- A buffer that overflows numbers the overflowing event and does not send it; the
  synthetic failure that follows waits behind the gap for ever
  (`dispatch-manager.ts:246`, against the comment at line 120). `runLoop` then
  returns early and leaves `artifactsSettled` false.
- After a reconnect whose last ack died with the old socket, `flushAck` sends none
  (`remote-runtime-adapter.ts:510`, against line 509).
- The artifacts frame follows the terminal event, at which the worker unregisters
  the dispatch; it is always dropped (`dispatch-manager.ts:274`; `main.ts:2798`
  relies on it).
- A cancel between `task_accepted` and the registration of the runtime finds no
  execution; after `reconcileOnReconnect` such a runtime is not even tracked.
- Accept timeout, grace and a restart of the worker send no cancel; the next
  reconnect makes up for it (`OrphanStops`). `throwIfCancelledBeforeDispatch`
  leaves its bridge registered. A frame sent during the handshake closes the
  socket. The watchdog's forced cancel reports `termination_started` and is
  repeated by every scan; the abandoned stream's `return()` waits for its next event.

*Pipeline.*
- An enqueue that is out of generations throws out of the rescheduler's loop and
  delays the leases of other agents (`admission-rescheduler.ts:55`,
  `doc/multi-agent-scheduling-acceptance.md:24`).

*Delegation.*
- A resumed parent that calls the same agent again in mode "return" gets the child
  of its first call (`ReuseChild`), is not marked as waiting, and its turn ends
  with the task running and no handler; startup recovery or the watchdog are left.
- `enqueueDelegatedChild` drops the child's lease by task id (`deleteLease`,
  `handoff-delivery.ts:201`). A child that delegates in turn may have been woken
  meanwhile, and the late delete then removes the lease that wake wrote; if the wake's
  enqueue fails too, the task stays queued with no job to come
  (`doc/multi-agent-scheduling-acceptance.md:27`). The proof of `NobodyStranded` ran
  into it; TLC shows it with 3 agents, depth 2 and one failing call, and
  `NothingStranded` excepts it.

*Discussions.*
- `main.ts:3188` ("retrying without rewriting task state") and
  `task-terminal-transition.ts:118` ("retrying job") are not true: `retryLimit` is
  0 (`task-queue.ts:288`). Such a discussion stops (`aborts`).
- The watchdog fails the task without its turn's row, and the discussion waits for
  that row. When the first enqueue fails, a redelivery finds the task and never
  enqueues it.

*Waiting contracts.*
- "reverted to waiting for reconciler retry" (`handoff-delivery.ts:433`, `471`): the
  reconciler only expires. A task failed by the catch of `processTask`, by the
  watchdog or by the API wakes nobody; the contract waits for its TTL of 24 h.
- `server.ts:2728` "stays unprocessed for redelivery": `feishu-ws-manager.ts:118-125`
  swallows the failure, and a redelivery within five minutes is a duplicate.

*Inbound events.*
- `dedup.ts:56-57` "treat as duplicate - the next redelivery starts fresh": the
  duplicate is answered with success, so there is no next one ("overtaken").
- A failing `resolveBotUserId` keeps the claim and loses the event. A Lark failure
  keeps its claim too and is answered as success. A release deletes whatever row is
  there, another handler's claim included.
- A Lark takeover after five minutes starts a second turn if the first delivery is
  still at work. A document comment whose first handler died before its enqueue is
  marked processed by the second (`server.ts:1960`).

*Sessions.*
- Two bots named by one root message with `/new` between them take different
  sessions for it; the later alias merges a bootstrap session away, which
  `canonicalizeSessionId` cannot follow, as only thread keys become aliases
  (against the test `resolve.test.ts:551`). `BotsAgree` excepts this.
- `touchSession` makes a merged session active again. The assistant's message
  (`main.ts:3164`) is inserted several awaits after the last canonicalization and
  may stay in a merged session. A job keeps its old session as singleton key
  (`task-queue.ts:183`), so turns of one topic may overlap after a merge.
- Of two merged discussions the cursor may stand at a turn that was moved there and
  is already completed (test `resolve.test.ts:1087`), and moved turns keep the old
  round in their constraints.

## 4. Properties and fairness

Each property has a mutant in the module it is about (a definition whose comment
says "Mutant"), a plausible slip in the code it maps to, which TLC must catch
under the run's own configuration. Type invariants are theorems; no run repeats
them. Neither does one repeat `WatchEndsWithTurn`, `InOrder`, `OneNotice`,
`ResumptionIsNew` and `FollowsLifecycle`: TLC agrees with them on the same instances,
and they are theorems too.

*TaskPipeline.* `ImplementsLifecycle` is the refinement: whatever the parties
interleave, each change of a status is a step of `TaskLifecycle`, or the one
recovery step of a task left running. `SlotsMatchTurns` relates the scheduler's counters to the turns in
both directions, through duplicates, deferrals, settlements and crashes.
`ExecutingIsAccountedFor` relates a running runtime to its row, its watch and the
fence, as long as no call failed. `WatchEndsWithTurn` excludes a watch without a
turn. `NothingStranded` names, for each status that is not final, who will carry
the task on; `Settles` says that it happens, deferrals included. Both are claimed
as long as no call failed and the worker did not stop: what is left behind then is
recovery's (section 3 has what it misses). `Settles` also excepts a task that was
deferred until its job had `MaxSendAttempts` rows, which waits for pg-boss to
archive them. Both except a task in `overtaken`, until it has a turn again: its
deferral met a pass, and the code leaves it without job and lease
(`QueuedHasFollowUp`, section 3). A pass that overlaps a deferral otherwise - having
listed the lease before, finding the row gone on, or having enqueued a new job - is
held to both. *Fairness:* every step of the API's
pipeline, of a turn, of a settlement, of the rescheduler and of recovery, the
fetch of a job that may run, the expiry of a job whose handler is gone. That a
turn's runtime ends is justified by the watchdog, which cancels a runtime that
makes no progress for `RUNTIME_STALLED_TIMEOUT_MS`. Nothing is owed by users,
redeliveries, the watchdog's timeouts, faults or stops.

*DaemonStream.* `InOrder`, `NothingLost`, `RetiredOnlyWhenDelivered`,
`LostMeansLost` and `GraceMatchesConnection` are about the two ends together;
`DeliversInOrder` says the worker's stream is one that `EventDelivery` allows.
`TerminalSettles` is its liveness. *Fairness:* timers fire, sockets that one end
left are noticed by the other, the event loops of both processes run every
callback, a live daemon reconnects; nothing is assumed of the runtime, the
network, the database or a stopped daemon.

*DaemonDispatch.* `WithinCap` counts what runs, through the await of `prepare`;
`ToldTheTruth` relates what the worker told its user to what happened on the
machine, a loss announced before the dispatch was sent excepted (`misled`,
section 3); `StreamIsFed` names, for each stream that is read over a connection, what
will end it, and so relates the adapter, the daemon's map and the frames in both
directions after any history of reconnects; `DispatchSettles` is the end of every turn and `OrphanStops` the end of
a runtime that nobody waits for. *Fairness:* both processes receive, their timers
fire, the watchdog scans, the daemon reconnects for ever. A runtime need not end.

*Delegation.* `Budgets` counts edges against what was reserved; `EdgesTellOutcome`
compares edges with tasks, since two parties write an edge and one does not look;
`ParentIdle` is about late hooks and repeated passes; `NothingStranded` names who
brings a queued task to its turn and what a waiting parent waits for, and
`ResumptionIsNew` says that the id of a resumption's job was never used, so that no
enqueue is taken for a repetition; `FollowsLifecycle` compares the statuses, which
turns, hooks, barriers and passes write, with the state machine; `Resumes` about lost hooks,
failed enqueues and leases, excepting the root's second wait (see the violation).
*Fairness:* every handler and the rescheduler's pass go on, a turn ends.

*Discussion.* `OneSpeaker` relates the position to the rows, tasks and leases
before and after it; `ThreadInOrder` relates what Lark shows to the rows;
`StopIsFinal` is an action property; `CarriedOn` says that exactly the current turn
is under way and names who carries it on, and that a closing line that is due has a
handler; `FollowsLifecycle` is as in `Delegation`; `Concludes` excepts what the code gives up
on (`aborts`: watchdog, crash, a commit that fails). *Fairness:* the command's
deliveries, the handler, the rescheduler. Nobody owes a stop or a restart.

*WaitingContract.* `ContractBeforeTask`, `SettledIsTold` and `OneOutcome` relate
the row to the task and to the chat; excepted are a claim whose owner died
(`dropped`) and a post whose reply was lost (`doubted`). `NeverAbandoned` is the
reconciler's own promise. *Fairness:* the pass, the hook, the clock. Nobody owes a
delivery or the end of A's task, and the API may stop half way.

*InboundEvents.* `RunsOnce`, `OneNotice`, `ClosedIsQueued` are about handlers that
believe to hold one claim; `NothingDropped` says that before an event's first job
Slack is not told success and no claim is left alone, although a release deletes
whatever claim it finds; `EventIsQueued` excepts the lapses it names.
*Fairness:* handlers go on, the upstream delivers again until it is answered.

*Sessions.* The three invariants are about a topic that starts in one session
(`BotsAgree`). `LeadsOn` says one step of `canonicalizeSessionId` is enough;
`RunsWhereTheTopicIs` and `TopicIsOneSession` are about rows inserted behind a
merge; `StaleRowsMove` says they do not stay there. *Fairness:* handlers and turns
go on; no one has to send anything, and a topic's id need not be found.

## 5. Proofs

The proofs assume the constants' assumptions only, unless a theorem says
otherwise, so they hold for any number of tasks, sockets, events, agents, turns,
relays, deliveries, messages and sessions and for any limits and bounds. Each
module finds an inductive invariant and shows that every action keeps it, one
lemma per group of actions; the theorems are its consequences.

*TaskPipelineProofs.* The first section says what a move of one party leaves
alone, once for each party, and what `transitionTask` and the end of the process
do; every later lemma has one step per action and cites these.
- `TypeCorrect`. `TypeOK` is not inductive: creating a task needs an API that is
  idle with it, or its `seen` would survive. `Unborn` adds that.
- `SlotsAccounted` and `WatchesEnd`. `HoldsInv` says who may hold a slot or be
  watched, by handler step; each action keeps it and either shrinks the slots or
  is `Admit`, so the limits follow from the cardinality of subsets
  (`CountsShrink`) and from `Admit`'s guard (`CountsAdmit`).
- `Refinement` to `TaskLifecycle`, assuming that the bounds do not allow both lost
  replies and stops. The writes of `transitionTask` are legal because a status being
  written was read and may be left for the target (`SeenInv`). Startup recovery
  writes without looking, so one must know that nobody else moves a task it holds:
  `PhaseInv` (no handler and no watchdog before `Subscribe`), `FreshInv` (the API's
  pipeline touches only tasks whose job was not sent), `FormInv` (a clicked card's
  task is waiting or over) and `RecoveryInv` (what recovery holds is running or
  queued). A lost reply breaks `FreshInv`, as the API may fail a task whose job is
  there; that matters to recovery only, which finds nothing before the first stop
  (`UnstoppedInv`). With both the refinement is false (section 3).
- `RuntimesAccountedFor`. `AccountInv` says for each status what the parties may be
  doing: a queued task is untouched or at its first transition, and a turn between
  `BeginTurn` and its outcome is watched and not being overruled, or settled.
  `TransitionEnds` says how a `transitionTask` without a failed call may end: that its
  row was overtaken names who overtook it. The theorem is claimed as long as no call
  failed, since a Slack redelivery after a failed write can give a task a second turn
  while a settlement of the first is pending.
- `NobodyStranded`. `KeptInv` follows a queued task from hand to hand (API, job,
  turn, lease, pass) and a running one from its turn to the settlement; its core is
  that a pass about to delete a lease has put a job or finds a turn that carries the
  task on, unless the two met and the task is `overtaken`.

*DaemonStreamProofs.* `IInv` is `TypeOK`; `LogInv` (an event, wherever it is, is
the one the daemon gave its number to, and what the worker received is a prefix
of the log); `BufferInv` (the buffer is the suffix of the log behind what the
worker has, acks in flight never exceed that, and every claim that the daemon
lacks the dispatch entails that everything was delivered, however late the claim
is read); `GraceMatchesConnection`. From it `TypeCorrect`, `EventsInOrder`,
`BufferKeepsUndelivered`, `RetirementIsTrue`, `LossIsTrue`, `GraceMatches` and
`Refinement` to `EventDelivery`.

*DaemonDispatchProofs.* `TypeCorrect`, `CapHolds`, `TheTruthIsTold`,
`StreamsAreFed`. The truth is not inductive: news may be late, and a loss that a
stream holds unread is told of what may run by then, unless it is `misled`. `FreshInv` says that of a dispatch whose frame
has not been taken nobody has anything, `ActiveInv` that the daemon holds what
lives or waits for an ack and announces all of it, and `NewsInv` that a frame on
its way to the worker is true and stays true. The cap follows from the guard of
`HandleDispatch` because no other action adds a live member to the map.
`StreamsAreFed` needs a second invariant beside it, `FeedInv`: only a dispatch
that was accepted is read, and one that was begun stays begun (`BegunInv`); the
daemon forgets what it is preparing only if it will refuse it (`HeldInv`); an ack
is of something that ended, and a hello's answer cancels nothing that has a bridge
(`AnswerInv`); on one connection nothing is accepted behind its own end
(`OrderInv`); and `FedInv`, which is the property for streams that an acceptance
on its way will open, too. A step keeps it in one of three ways: what feeds the
stream stays, it is traded (the end of a runtime for its event, the answer to a
hello for the event or loss it asks for), or the stream is no longer read.

*DelegationProofs.* `TypeCorrect`, `BudgetsHold`, `EdgesAreTrue`, `ParentRests`,
`NobodyStranded`, `ResumptionsAreNew`, `StatusesFollow`.
`HandlerInv` and `PassInv` say what the steps between two awaits still know;
`FamilyInv` says that a task that may run has no unfinished child, which is why a
late wake of an earlier wait finds nothing it could break. `IsFiniteSet(Edges)`
carries the counting. A job is named by the children it reports, and `KeyInv` says
that jobs, leases and wakes report no more than the last resumption did, while a
waiting parent still has a child it was not told of: so the next resumption is new
(`ResumptionsAreNew`). For `NobodyStranded` a queued task is followed to its job,
without a fault (`EnqueuedInv`) and with one, when the lease must outlive the
failure (`LeasedInv`); `RootInv` bounds the root to one wake, `TurnInv` and
`GuardInv` say which turns were resumed and which jobs are not fetched yet.
`StatusesFollow` compares every write, in the step lemmas' cases, with
`TaskLifecycle!MayBecome`.

*DiscussionProofs.* `TypeCorrect`, `AgentsTakeTurns`, `ThreadReadsInOrder`,
`Stops`, `DiscussionGoesOn`, `StatusesFollow`. `CommandInv` counts the deliveries, `OriginInv` says there is nothing
before the discussion's row, `ReachedInv` that no job, lease or step is ahead of
the position, `RowInv` that a turn's row follows its task, and `PostsInv` that
what is marked was posted. `DiscussionGoesOn` needs that whatever has a job, a
lease or a step exists (`TasksExist`), that the handler's step tells its task's
status (`StepInv`), and that the lease of the current turn survives until there is
a job (`LeaseInv`). `StatusesFollow` also holds after the watchdog was faster than a
commit, which `HandlerInv` allows for; `FirstInv` says that the first turn belongs
to one delivery until it is enqueued or failed.

*WaitingContractProofs.* `TypeCorrect`, `ContractFirst`, `Announced`, `ToldOnce`.
`OriginInv` orders contract, task and hook; `ClaimInv` says that whoever has
claimed a contract and not posted yet still owns it.

*InboundEventsProofs.* `TypeCorrect`, `EventRunsOnce`, `RequesterIsToldOnce`,
`ClosedEventsAreQueued`, `NoEventIsDropped`. `StepInv` says which steps have a task. `SlackInv` and
`LarkInv` differ as the channels do: Slack's handlers share a task id and it is
the guard of the turn that makes it run once; on Lark one handler owns the claim
until a takeover. `ClosingInv` says that whoever is about to close has a reason, and `UnqueuedInv`
that nobody is, on Slack, before the first job.

*SessionsProofs.* `TypeCorrect`, `MergesLeadOn`, `TurnsRunWhereTheTopicIs`,
`TopicsAreOneSession`. All roads lead home: the home of a topic is the session of
its root message, and `HomeInv` says that the topic's ids lead there or nowhere,
and that only sessions opened under such an id are merged away, when the id has
its alias. `LookInv` and `FoundInv` say what a handler looks for and may find,
`FreshInv` and `ExistInv` that an unused id has no alias and an alias leads
somewhere, `RowInv` and `TurnInv` that rows and turns are where their handler put
them or at home. With two bots and a `/new` between them there are two homes. So
the invariant has two parts: what holds in any case (`TypeOK`, `Base`), and
`Agreed`, which holds while the bots agree; a home is never left, so bots that
disagree once never agree again (`StillAgree`), and `Agreed` is owed nothing
after. Nothing is assumed of the number of bots or of the commands.

*Model-checked only.* Liveness (`Settles`, `TerminalSettles`, `DispatchSettles`,
`OrphanStops`, `Resumes`, `Concludes`, `NeverAbandoned`, `EventIsQueued`,
`StaleRowsMove`), which is beyond the prover. Every invariant of a run is a theorem.

## 6. Not modelled, and the plan

In order of what they would add:

1. `DiscussionMerge`: the merge of two active discussions when their sessions turn
   out to be one (`resolve.ts:553-905`): which cursor survives, and that positions
   stay unique.
2. `AppLock`: the locks of Feishu apps across API processes (`feishu-app-lock.ts`):
   heartbeats, stale locks and their takeover; no two processes hold one app.
3. Worktrees: cleanup selects by `sessions.updatedAt` alone and spares only
   `waiting_delegation`; a binding is cleared by id without a compare-and-swap; the
   scan for orphans on disk races with the creation of a worktree.
4. PR polling: `pr-polling-service.ts:244` writes `CANCELLED` unchecked, and
   `pollOnce` may overlap itself. In `TaskLifecycle` the write is not a step.
5. Gateway connections: the machine's online flag, whose `markMachineOffline` is
   not awaited and may land behind a later `markMachineOnline`; sweeps, heartbeats.
6. In `TaskPipeline`: overlapping watchdog scans, the double submit of a card,
   archived rows, a second job of a task whose handler lives. In `InboundEvents`:
   the buffer of a chat and its cap of 25 messages (`buffer-gate.ts`). In
   `Sessions`: private chats.

Left out for good: formatting and HTTP to Lark and Slack, child processes of the
runtimes, the console, desktop and launcher, the admin API, slash commands that
only read, configuration and manifests, schema declarations and single-statement
repositories. They are most of the repository's lines, hold little state of their
own, and TLC would check their shape only.

## 7. Running

```
tlc -workers 2 -config TaskPipeline_faults.cfg MCTaskPipeline.tla
tlc -workers 2 -config DaemonStream_safety.cfg MCDaemonStream.tla
tlc -workers 2 -config Delegation_live.cfg MCDelegation.tla
tlapm SessionsProofs.tla
```

and so on: the run `X_y` is the configuration `X_y.cfg` of the module `MCX`, and
the proofs about `X` are in `XProofs`. `TaskPipelineProofs` and
`DaemonStreamProofs` take some minutes, the others less.
