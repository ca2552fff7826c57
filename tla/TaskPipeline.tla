----------------------------- MODULE TaskPipeline -----------------------------
(***************************************************************************)
(* The life of a task from its row in Postgres to its terminal status:     *)
(*                                                                         *)
(*   api       the task-created pipeline of server.ts (Lark), which fails  *)
(*             the task when it cannot queue it, and neutral-dispatch.ts   *)
(*             (Slack), which leaves recovery to a redelivery              *)
(*   queue     TaskQueue over pg-boss: deterministic job ids, one active   *)
(*             job per session, jobs that expire                           *)
(*   handler   processTask of the worker, with the admission scheduler     *)
(*             and its leases, and the runtime settlement fence            *)
(*   watchdog  RuntimeWatchdog and failRuntimeExecutionFromWatchdog        *)
(*   form      the work-directory card of a task that waits for approval   *)
(*   worker    admission rescheduler, startup recovery, shutdown, crashes  *)
(*                                                                         *)
(* One worker process, as doc/architecture/admission-scheduler.md requires. *)
(* A task is one turn: delegation and discussions, which re-queue a parent *)
(* or chain tasks, are outside.  All times are nondeterministic.  Finished *)
(* job rows stay, as they do for the hour before pg-boss archives them.    *)
(***************************************************************************)
EXTENDS Integers, FiniteSets

CONSTANTS
  Tasks,
  NoTask,
  Agents, Sessions,
  AgentOf, SessionOf,     \* the agent and the session of each task
  Channels,               \* "lark" and "slack", where tasks come from
  Concurrency,            \* WORKER_CONCURRENCY
  AgentMaxConcurrency,    \* AGENT_MAX_CONCURRENCY
  MaxStarts,              \* MAX_CONCURRENT_AGENT_STARTS
  Paced,                  \* AGENT_START_INTERVAL_MS > 0
  MaxSendAttempts,        \* MAX_ENQUEUE_SEND_ATTEMPTS
  MaxTransitionAttempts,  \* MAX_TRANSITION_ATTEMPTS
  TurnsOutliveJobs,       \* a turn may last longer than its job's expiry
  LostReplies,            \* a database call may fail after it took effect
  MaxFaults,              \* bound: calls that fail
  MaxStops,               \* bound: crashes and shutdowns of the worker
  MaxRedeliveries         \* bound: redelivered inbound messages

ASSUME ConstantsAssumption ==
  /\ NoTask \notin Tasks
  /\ AgentOf \in [Tasks -> Agents]
  /\ SessionOf \in [Tasks -> Sessions]
  /\ Channels \subseteq {"lark", "slack"}
  /\ {Concurrency, AgentMaxConcurrency, MaxStarts, MaxSendAttempts,
      MaxTransitionAttempts} \subseteq Nat \ {0}
  /\ {Paced, TurnsOutliveJobs, LostReplies} \subseteq BOOLEAN
  /\ {MaxFaults, MaxStops, MaxRedeliveries} \subseteq Nat

VARIABLES
  (* Postgres *)
  status,     \* tasks.status, "absent" before the row exists
  job,        \* state of the task's latest pg-boss row, "none" without one
  rows,       \* rows of the task; all but the latest are finished
  lease,      \* tasks with a row in admission_leases
  (* where each party that changes a status stands with each task *)
  at,
  seen,       \* the status transitionTask read, while it is being written
  tries,      \* writes of this transitionTask that lost their race
  (* memory of the worker *)
  phase,      \* "down", "recovering", "up" or "draining"
  running,    \* tasks that hold a running slot of the scheduler
  starting,   \* tasks that hold a start slot
  watched,    \* RuntimeWatchdog.active
  killed,     \* those whose cancelRequested is set
  settled,    \* tasks whose fence record has an errorMessage
  unwritten,  \* watchdogTerminalWritePending
  resched,    \* the pass of the admission rescheduler
  overtaken,  \* tasks whose deferral met a pass that takes its lease away
  stale,      \* rows startup recovery selected and has not handled yet
  recovery,   \* the row it is handling
  (* bounds *)
  faults, stops, redeliveries

postgres == <<status, job, rows, lease>>
casVars  == <<seen, tries>>
slots    == <<running, starting>>
guards   == <<watched, killed, settled, unwritten>>
passes   == <<resched, overtaken>>
restart  == <<phase, stale, recovery>>
bounds   == <<faults, stops, redeliveries>>
vars == <<postgres, at, casVars, slots, guards, passes, restart, bounds>>

Lifecycle == INSTANCE TaskLifecycle

Status   == Lifecycle!Status
NoStatus == "none"

Writers == {"api", "handler", "watchdog", "form"}

(***************************************************************************)
(* Steps.  Those in DOMAIN Target are inside transitionTask(task, Target): *)
(* where its caller continues after the write, after the state machine     *)
(* refused it, and after a failed call or a lost contention is Committed,  *)
(* Refused and Errored.                                                    *)
(***************************************************************************)
Target ==
  [queueing |-> "queued", requeueing |-> "queued", compensating |-> "failed",
   toRunning |-> "running", toConfirm |-> "running",
   asking |-> "waiting_approval", succeeding |-> "completed",
   conceding |-> "failed", failing |-> "failed", overruling |-> "failed",
   confirming |-> "completed", rejecting |-> "cancelled"]

Committed ==
  [queueing |-> "enqueuing", requeueing |-> "reenqueuing",
   compensating |-> "done", toRunning |-> "launching", toConfirm |-> "asking",
   asking |-> "closing", succeeding |-> "reporting", conceding |-> "reporting",
   failing |-> "closing", overruling |-> "unwatching",
   confirming |-> "idle", rejecting |-> "idle"]

Refused ==
  [queueing |-> "compensating", requeueing |-> "reenqueuing",
   compensating |-> "done", toRunning |-> "failing", toConfirm |-> "failing",
   asking |-> "failing", succeeding |-> "failing", conceding |-> "failing",
   failing |-> "erring", overruling |-> "idle",
   confirming |-> "idle", rejecting |-> "idle"]

\* ensureQueued swallows a refused transition and no other error.
Errored == [Refused EXCEPT !.requeueing = "open"]

\* A Lark event is handled once; a Slack message may be delivered again, after
\* it failed ("open") or succeeded ("delivered").
LarkStep  == {"queueing", "enqueuing", "compensating", "done"}
SlackStep == {"requeueing", "reenqueuing", "open", "delivered"}
ApiStep   == {"idle"} \cup LarkStep \cup SlackStep

\* Turns past admission that have not reached the finally block ...
Admitted ==
  {"admitted", "toRunning", "toConfirm", "asking", "launching", "executing",
   "wrapping", "succeeding", "conceding", "reporting"}

HandlerStep ==
  Admitted \cup {"idle", "guard", "admit", "deferring", "failing", "closing",
                 "erring", "ending", "throwing"}

WatchdogStep == {"idle", "unkillable", "settling", "overruling", "unwatching"}
FormStep     == {"idle", "confirming", "rejecting"}

Api(t)      == at["api"][t]
Handler(t)  == at["handler"][t]
Watchdog(t) == at["watchdog"][t]
Form(t)     == at["form"][t]

\* ... and those whose job is still the handler's.
Busy(t) == Handler(t) # "idle"

Goto(w, t, step) == at' = [at EXCEPT ![w][t] = step]

Terminal(t) == Lifecycle!IsTerminal(status[t])

Idle == [t \in Tasks |-> "idle"]

NoPass == [step |-> "idle", task |-> NoTask, todo |-> {}]
NoRow  == [step |-> "idle", task |-> NoTask]

Init ==
  /\ status = [t \in Tasks |-> "absent"]
  /\ job = [t \in Tasks |-> "none"]
  /\ rows = [t \in Tasks |-> 0]
  /\ lease = {}
  /\ at = [w \in Writers |-> Idle]
  /\ seen = [w \in Writers |-> [t \in Tasks |-> NoStatus]]
  /\ tries = [w \in Writers |-> [t \in Tasks |-> 0]]
  /\ phase = "down"
  /\ running = {} /\ starting = {}
  /\ watched = {} /\ killed = {} /\ settled = {} /\ unwritten = {}
  /\ resched = NoPass /\ overtaken = {}
  /\ stale = {} /\ recovery = NoRow
  /\ faults = 0 /\ stops = 0 /\ redeliveries = 0

Fault ==
  /\ faults < MaxFaults
  /\ faults' = faults + 1
  /\ UNCHANGED <<stops, redeliveries>>

(***************************************************************************)
(* transitionTask: read, assertTransition, then a compare-and-swap that is *)
(* retried from the read when another writer came first.                   *)
(***************************************************************************)
Transitioning(w, t) == at[w][t] \in DOMAIN Target

\* Mutant: the next transition of this writer skips its read.
LeaveTransitionKeepingSeen(w, t, continuation) ==
  /\ Goto(w, t, continuation[at[w][t]])
  /\ tries' = [tries EXCEPT ![w][t] = 0]
  /\ UNCHANGED <<seen, job, rows, lease, slots, guards, passes, restart>>

LeaveTransition(w, t, continuation) ==
  /\ Goto(w, t, continuation[at[w][t]])
  /\ seen' = [seen EXCEPT ![w][t] = NoStatus]
  /\ tries' = [tries EXCEPT ![w][t] = 0]
  /\ UNCHANGED <<job, rows, lease, slots, guards, passes, restart>>

ReadStatus(w, t) ==
  /\ Transitioning(w, t)
  /\ seen[w][t] = NoStatus
  /\ Lifecycle!CanTransition(status[t], Target[at[w][t]])
  /\ seen' = [seen EXCEPT ![w][t] = status[t]]
  /\ UNCHANGED <<postgres, at, tries, slots, guards, passes, restart, bounds>>

RefuseTransition(w, t) ==
  /\ Transitioning(w, t)
  /\ seen[w][t] = NoStatus
  /\ ~Lifecycle!CanTransition(status[t], Target[at[w][t]])
  /\ LeaveTransition(w, t, Refused)
  /\ UNCHANGED <<status, bounds>>

\* Mutant: UPDATE ... WHERE id = taskId, without the status that was read.
CommitTransitionUnchecked(w, t) ==
  /\ Transitioning(w, t)
  /\ seen[w][t] # NoStatus
  /\ status' = [status EXCEPT ![t] = Target[at[w][t]]]
  /\ LeaveTransition(w, t, Committed)
  /\ UNCHANGED bounds

CommitTransition(w, t) ==
  /\ Transitioning(w, t)
  /\ seen[w][t] # NoStatus
  /\ status[t] = seen[w][t]
  /\ status' = [status EXCEPT ![t] = Target[at[w][t]]]
  /\ LeaveTransition(w, t, Committed)
  /\ UNCHANGED bounds

RetryTransition(w, t) ==
  /\ Transitioning(w, t)
  /\ seen[w][t] \notin {NoStatus, status[t]}
  /\ tries[w][t] + 1 < MaxTransitionAttempts
  /\ tries' = [tries EXCEPT ![w][t] = @ + 1]
  /\ seen' = [seen EXCEPT ![w][t] = NoStatus]
  /\ UNCHANGED <<postgres, at, slots, guards, passes, restart, bounds>>

GiveUpTransition(w, t) ==
  /\ Transitioning(w, t)
  /\ seen[w][t] \notin {NoStatus, status[t]}
  /\ tries[w][t] + 1 = MaxTransitionAttempts
  /\ LeaveTransition(w, t, Errored)
  /\ UNCHANGED <<status, bounds>>

FailTransition(w, t) ==
  /\ Transitioning(w, t)
  /\ Fault
  /\ LeaveTransition(w, t, Errored)
  /\ UNCHANGED status

TransitionTask(w, t) ==
  \/ ReadStatus(w, t)
  \/ RefuseTransition(w, t)
  \/ CommitTransition(w, t)
  \/ RetryTransition(w, t)
  \/ GiveUpTransition(w, t)

(***************************************************************************)
(* TaskQueue.enqueue: a live row is a replay; a finished one makes room    *)
(* for the next generation until the attempts are used up.                 *)
(***************************************************************************)
Live(t)       == job[t] \in {"created", "active"}
CanEnqueue(t) == Live(t) \/ rows[t] < MaxSendAttempts

Enqueue(t) ==
  /\ CanEnqueue(t)
  /\ job' = [job EXCEPT ![t] = IF Live(t) THEN @ ELSE "created"]
  /\ rows' = [rows EXCEPT ![t] = IF Live(t) THEN @ ELSE @ + 1]

\* An enqueue that throws: no attempt is left, or the call failed; a failed
\* call inserts the row all the same when only its reply was lost.
EnqueueThrows(t) ==
  \/ /\ ~CanEnqueue(t)
     /\ UNCHANGED <<job, rows, bounds>>
  \/ /\ Fault
     /\ UNCHANGED <<job, rows>>
  \/ /\ LostReplies
     /\ Fault
     /\ Enqueue(t)

(***************************************************************************)
(* API process                                                             *)
(***************************************************************************)
CreateTask(t) ==
  /\ status[t] = "absent"
  /\ status' = [status EXCEPT ![t] = "pending"]
  /\ \E channel \in Channels :
       Goto("api", t, IF channel = "lark" THEN "queueing" ELSE "requeueing")
  /\ UNCHANGED <<job, rows, lease, casVars, slots, guards, passes, restart, bounds>>

ApiEnqueues(t) ==
  /\ Api(t) \in {"enqueuing", "reenqueuing"}
  /\ Enqueue(t)
  /\ Goto("api", t, IF Api(t) = "enqueuing" THEN "done" ELSE "delivered")
  /\ UNCHANGED <<status, lease, casVars, slots, guards, passes, restart, bounds>>

\* failTaskCreatedPipeline, or an error that keeps the dedup claim open
ApiEnqueueThrows(t) ==
  /\ Api(t) \in {"enqueuing", "reenqueuing"}
  /\ EnqueueThrows(t)
  /\ Goto("api", t, IF Api(t) = "enqueuing" THEN "compensating" ELSE "open")
  /\ UNCHANGED <<status, lease, casVars, slots, guards, passes, restart>>

\* The message comes again, after a failure or past the dedup claim.
Redeliver(t) ==
  /\ Api(t) \in {"open", "delivered"}
  /\ redeliveries < MaxRedeliveries
  /\ redeliveries' = redeliveries + 1
  /\ Goto("api", t, IF Terminal(t) THEN "delivered" ELSE "requeueing")
  /\ UNCHANGED <<postgres, casVars, slots, guards, passes, restart, faults, stops>>

FormClicked(t, action) ==
  /\ Form(t) = "idle"
  /\ status[t] = "waiting_approval"
  /\ Goto("form", t, action)
  /\ UNCHANGED <<postgres, casVars, slots, guards, passes, restart, bounds>>

(***************************************************************************)
(* Queue polling and the handler of one job (processTask)                  *)
(***************************************************************************)
\* Mutant: a job also waits for those created in its session.
SessionIdleUncreated(t) ==
  \A u \in Tasks \ {t} : SessionOf[u] = SessionOf[t] => ~(job[u] \in {"created", "active"})

SessionIdle(t) ==
  \A u \in Tasks : SessionOf[u] = SessionOf[t] => job[u] # "active"

Turn(t, step) == Goto("handler", t, step)

\* A task whose handler outlived its job is not fetched again in this model.
FetchJob(t) ==
  /\ phase = "up"
  /\ job[t] = "created"
  /\ SessionIdle(t)
  /\ ~Busy(t)
  /\ Cardinality({u \in Tasks : Busy(u)}) < Concurrency
  /\ job' = [job EXCEPT ![t] = "active"]
  /\ overtaken' = overtaken \ {t}
  /\ Turn(t, "guard")
  /\ UNCHANGED <<status, rows, lease, casVars, slots, guards, resched, restart, bounds>>

\* The guard against duplicate jobs, up to the budget gate.
CheckQueued(t) ==
  /\ Handler(t) = "guard"
  /\ Turn(t, IF status[t] = "queued" THEN "admit" ELSE "closing")
  /\ UNCHANGED <<postgres, casVars, slots, guards, passes, restart, bounds>>

\* Mutant: the budget gate returns instead of throwing.
OverBudgetSilently(t) ==
  /\ Handler(t) = "admit"
  /\ lease' = lease \ {t}
  /\ Turn(t, "closing")
  /\ UNCHANGED <<status, job, rows, casVars, slots, guards, passes, restart, bounds>>

\* enforceTaskAdmissionBudget drops the lease and throws.
OverBudget(t) ==
  /\ Handler(t) = "admit"
  /\ lease' = lease \ {t}
  /\ Turn(t, "failing")
  /\ UNCHANGED <<status, job, rows, casVars, slots, guards, passes, restart, bounds>>

\* AgentAdmissionScheduler.admit.  Its duplicate check is on t \in running.
AgentRunning(a) == Cardinality({u \in running : AgentOf[u] = a})

\* Mutant: > for >=.
AtLimitExceeded(t) ==
  \/ AgentRunning(AgentOf[t]) > AgentMaxConcurrency
  \/ Cardinality(starting) > MaxStarts

AtLimit(t) ==
  \/ AgentRunning(AgentOf[t]) >= AgentMaxConcurrency
  \/ Cardinality(starting) >= MaxStarts

Admit(t) ==
  /\ Handler(t) = "admit"
  /\ t \notin running
  /\ ~AtLimit(t)
  /\ running' = running \cup {t}
  /\ starting' = starting \cup {t}
  /\ Turn(t, "admitted")
  /\ UNCHANGED <<postgres, casVars, guards, passes, restart, bounds>>

Deny(t) ==
  /\ Handler(t) = "admit"
  /\ t \notin running
  /\ AtLimit(t) \/ Paced
  /\ Turn(t, "deferring")
  /\ UNCHANGED <<postgres, casVars, slots, guards, passes, restart, bounds>>

\* Mutant: the task ends its turn without the lease that brings it back.
DeferTaskUnleased(t) ==
  /\ Handler(t) = "deferring"
  /\ Turn(t, "closing")
  /\ UNCHANGED <<postgres, casVars, slots, guards, passes, restart, bounds>>

\* A pass that is about to delete a lease of the task deletes this one.
DeferTask(t) ==
  /\ Handler(t) = "deferring"
  /\ lease' = lease \cup {t}
  /\ overtaken' = IF resched.task = t /\ resched.step = "deleting"
                     THEN overtaken \cup {t} ELSE overtaken
  /\ Turn(t, "closing")
  /\ UNCHANGED <<status, job, rows, casVars, slots, guards, resched, restart, bounds>>

\* The lease goes, the watchdog registers; some prompts need a confirmation.
BeginTurn(t) ==
  /\ Handler(t) = "admitted"
  /\ lease' = lease \ {t}
  /\ watched' = watched \cup {t}
  /\ killed' = killed \ {t}
  /\ \E step \in {"toRunning", "toConfirm"} : Turn(t, step)
  /\ UNCHANGED <<status, job, rows, casVars, slots, settled, unwritten, passes,
                 restart, bounds>>

\* runtime_started: the start slot is free again.
StartRuntime(t) ==
  /\ Handler(t) = "launching"
  /\ t \notin settled
  /\ starting' = starting \ {t}
  /\ Turn(t, "executing")
  /\ UNCHANGED <<postgres, casVars, running, guards, passes, restart, bounds>>

\* The event stream ends; artifacts, usage and messages are stored.
EndRuntime(t) ==
  /\ Handler(t) = "executing"
  /\ t \notin settled
  /\ Turn(t, "wrapping")
  /\ UNCHANGED <<postgres, casVars, slots, guards, passes, restart, bounds>>

\* The last look at the fence, then the terminal transition.
WrapUp(t) ==
  /\ Handler(t) = "wrapping"
  /\ t \notin settled
  /\ \E step \in {"succeeding", "conceding"} : Turn(t, step)
  /\ UNCHANGED <<postgres, casVars, slots, guards, passes, restart, bounds>>

\* RuntimeWatchdogSettledError ends the turn without touching the task.
FenceStops(t) ==
  /\ Handler(t) \in {"launching", "executing", "wrapping"}
  /\ t \in settled
  /\ Turn(t, "closing")
  /\ UNCHANGED <<postgres, casVars, slots, guards, passes, restart, bounds>>

\* Feedback cards, reactions, memory: after the terminal commit.
Report(t) ==
  /\ Handler(t) = "reporting"
  /\ Turn(t, "closing")
  /\ UNCHANGED <<postgres, casVars, slots, guards, passes, restart, bounds>>

\* Any other call of the handler that throws leads to the catch block.
HandlerThrows(t) ==
  /\ Handler(t) \in {"guard", "deferring", "admitted", "launching", "executing",
                     "wrapping", "reporting"}
  /\ Fault
  /\ Turn(t, "failing")
  /\ UNCHANGED <<postgres, casVars, slots, guards, passes, restart>>

\* Mutant: releaseAdmissionSlots runs at the end of a successful turn only.
FinallyBlockHolding(t) ==
  /\ Handler(t) \in {"closing", "erring"}
  /\ watched' = watched \ {t}
  /\ killed' = killed \ {t}
  /\ settled' = settled \ {t}
  /\ IF Handler(t) = "closing"
       THEN /\ Turn(t, "ending")
            /\ running' = running \ {t}
            /\ starting' = starting \ {t}
       ELSE /\ Turn(t, "throwing")
            /\ UNCHANGED slots
  /\ UNCHANGED <<postgres, casVars, unwritten, passes, restart, bounds>>

FinallyBlock(t) ==
  /\ Handler(t) \in {"closing", "erring"}
  /\ watched' = watched \ {t}
  /\ killed' = killed \ {t}
  /\ running' = running \ {t}
  /\ starting' = starting \ {t}
  /\ settled' = settled \ {t}
  /\ Turn(t, IF Handler(t) = "closing" THEN "ending" ELSE "throwing")
  /\ UNCHANGED <<postgres, casVars, unwritten, passes, restart, bounds>>

\* processFetchedJob: complete or fail the row, unless it expired meanwhile.
EndJob(t) ==
  /\ Handler(t) \in {"ending", "throwing"}
  /\ job' = [job EXCEPT ![t] = IF @ # "active" THEN @
                              ELSE IF Handler(t) = "ending" THEN "completed"
                              ELSE "failed"]
  /\ Turn(t, "idle")
  /\ UNCHANGED <<status, rows, lease, casVars, slots, guards, passes, restart, bounds>>

\* Neither boss.complete nor boss.fail reached the database.
EndJobUnrecorded(t) ==
  /\ Handler(t) \in {"ending", "throwing"}
  /\ Fault
  /\ Turn(t, "idle")
  /\ UNCHANGED <<postgres, casVars, slots, guards, passes, restart>>

\* pg-boss maintenance fails an active row past expireInSeconds.
ExpireJob(t) ==
  /\ job[t] = "active"
  /\ ~Busy(t) \/ TurnsOutliveJobs
  /\ job' = [job EXCEPT ![t] = "failed"]
  /\ UNCHANGED <<status, rows, lease, at, casVars, slots, guards, passes, restart,
                 bounds>>

(***************************************************************************)
(* RuntimeWatchdog.scan, one scan at a time for each task.  Its timers run *)
(* while the worker is up.                                                 *)
(***************************************************************************)
Scannable(t) ==
  /\ phase = "up"
  /\ t \in watched \ killed
  /\ Watchdog(t) = "idle"

\* termination_started or terminated: the runtime will end by itself.
CancelRuntime(t) ==
  /\ Scannable(t)
  /\ Handler(t) = "executing"
  /\ killed' = killed \cup {t}
  /\ UNCHANGED <<postgres, at, casVars, slots, watched, settled, unwritten, passes,
                 restart, bounds>>

\* no_active_execution: no runtime is registered, or it has no process yet.
FindNoRuntime(t) ==
  /\ Scannable(t)
  /\ Goto("watchdog", t, "unkillable")
  /\ UNCHANGED <<postgres, casVars, slots, guards, passes, restart, bounds>>

\* Mutant: the watchdog writes the outcome and never settles the fence.
SettleFenceUnset(t) ==
  /\ Watchdog(t) = "unkillable"
  /\ t \notin settled \cup unwritten
  /\ unwritten' = unwritten \cup {t}
  /\ Goto("watchdog", t, "settling")
  /\ UNCHANGED <<postgres, casVars, slots, watched, killed, settled, passes, restart,
                 bounds>>

\* failRuntimeExecutionFromWatchdog up to its first await; settling the fence
\* releases the slots of the turn.
SettleFence(t) ==
  /\ Watchdog(t) = "unkillable"
  /\ t \notin settled \cup unwritten
  /\ settled' = settled \cup {t}
  /\ unwritten' = unwritten \cup {t}
  /\ running' = running \ {t}
  /\ starting' = starting \ {t}
  /\ Goto("watchdog", t, "settling")
  /\ UNCHANGED <<postgres, casVars, watched, killed, passes, restart, bounds>>

\* An earlier scan settled the fence and could not write the outcome, or did.
ResumeSettlement(t) ==
  /\ Watchdog(t) = "unkillable"
  /\ t \in settled \cup unwritten
  /\ Goto("watchdog", t, IF t \in unwritten THEN "settling" ELSE "unwatching")
  /\ UNCHANGED <<postgres, casVars, slots, guards, passes, restart, bounds>>

\* The scan logs the error; the entry stays for the next one.
SettlementThrows(t) ==
  /\ Watchdog(t) = "settling"
  /\ Fault
  /\ Goto("watchdog", t, "idle")
  /\ UNCHANGED <<postgres, casVars, slots, guards, passes, restart>>

LookAtStatus(t) ==
  /\ Watchdog(t) = "settling"
  /\ Goto("watchdog", t, IF Terminal(t) THEN "unwatching" ELSE "overruling")
  /\ UNCHANGED <<postgres, casVars, slots, guards, passes, restart, bounds>>

Unwatch(t) ==
  /\ Watchdog(t) = "unwatching"
  /\ unwritten' = unwritten \ {t}
  /\ watched' = watched \ {t}
  /\ killed' = killed \ {t}
  /\ Goto("watchdog", t, "idle")
  /\ UNCHANGED <<postgres, casVars, slots, settled, passes, restart, bounds>>

(***************************************************************************)
(* runAdmissionReschedulerOnce, one pass at a time.  Which leases are due, *)
(* and in which order they come, is left open.                             *)
(***************************************************************************)
\* The pass goes on with the next lease, or ends after the last.
NextLease(todo) ==
  IF todo = {} THEN NoPass
  ELSE [step |-> "loading", task |-> NoTask, todo |-> todo]

ListDueLeases(due) ==
  /\ phase \in {"recovering", "up"}
  /\ resched = NoPass
  /\ due # {}
  /\ resched' = NextLease(due)
  /\ UNCHANGED <<postgres, at, casVars, slots, guards, overtaken, restart, bounds>>

LoadTask(t) ==
  /\ resched.step = "loading"
  /\ t \in resched.todo
  /\ resched' = [step |-> IF status[t] = "queued" THEN "enqueuing" ELSE "deleting",
                 task |-> t, todo |-> resched.todo \ {t}]
  /\ UNCHANGED <<postgres, at, casVars, slots, guards, overtaken, restart, bounds>>

\* The enqueue may resolve to the job of the very turn that deferred the task.
RescheduleTask(t) ==
  /\ resched.step = "enqueuing"
  /\ resched.task = t
  /\ Enqueue(t)
  /\ resched' = [resched EXCEPT !.step = "deleting"]
  /\ overtaken' = IF job[t] = "active" /\ Handler(t) \in {"closing", "ending"}
                     THEN overtaken \cup {t} ELSE overtaken
  /\ UNCHANGED <<status, lease, at, casVars, slots, guards, restart, bounds>>

\* The error leaves the loop over the leases.
ReschedulerThrows(t) ==
  /\ resched.step = "enqueuing"
  /\ resched.task = t
  /\ EnqueueThrows(t)
  /\ resched' = NoPass
  /\ UNCHANGED <<status, lease, at, casVars, slots, guards, overtaken, restart>>

DeleteLease(t) ==
  /\ resched.step = "deleting"
  /\ resched.task = t
  /\ lease' = lease \ {t}
  /\ resched' = NextLease(resched.todo)
  /\ UNCHANGED <<status, job, rows, at, casVars, slots, guards, overtaken, restart,
                 bounds>>

(***************************************************************************)
(* The worker process: startup recovery, shutdown, crash                   *)
(***************************************************************************)
\* Mutant: the select of stale tasks without WHERE t.status = 'running'.
StartWorkerAnyStatus ==
  /\ phase = "down"
  /\ phase' = "recovering"
  /\ stale' = {t \in Tasks : status[t] # "absent" /\ job[t] \in {"none", "failed"}}
  /\ UNCHANGED <<postgres, at, casVars, slots, guards, passes, recovery, bounds>>

StartWorker ==
  /\ phase = "down"
  /\ phase' = "recovering"
  /\ stale' = {t \in Tasks : status[t] = "running" /\ job[t] \in {"none", "failed"}}
  /\ UNCHANGED <<postgres, at, casVars, slots, guards, passes, recovery, bounds>>

\* recoverStaleRunningTasks writes by id, whatever the status is by now.
RequeueStale(t) ==
  /\ t \in stale
  /\ recovery = NoRow
  /\ status' = [status EXCEPT ![t] = "queued"]
  /\ stale' = stale \ {t}
  /\ recovery' = [step |-> "enqueuing", task |-> t]
  /\ UNCHANGED <<job, rows, lease, at, casVars, slots, guards, passes, phase, bounds>>

\* That write itself failed.
RequeueThrows(t) ==
  /\ t \in stale
  /\ recovery = NoRow
  /\ Fault
  /\ stale' = stale \ {t}
  /\ recovery' = [step |-> "failing", task |-> t]
  /\ UNCHANGED <<postgres, at, casVars, slots, guards, passes, phase>>

EnqueueStale(t) ==
  /\ recovery = [step |-> "enqueuing", task |-> t]
  /\ Enqueue(t)
  /\ recovery' = NoRow
  /\ UNCHANGED <<status, lease, at, casVars, slots, guards, passes, phase, stale,
                 bounds>>

RecoveryThrows(t) ==
  /\ recovery = [step |-> "enqueuing", task |-> t]
  /\ EnqueueThrows(t)
  /\ recovery' = [step |-> "failing", task |-> t]
  /\ UNCHANGED <<status, lease, at, casVars, slots, guards, passes, phase, stale>>

FailStale(t) ==
  /\ recovery = [step |-> "failing", task |-> t]
  /\ status' = [status EXCEPT ![t] = "failed"]
  /\ recovery' = NoRow
  /\ UNCHANGED <<job, rows, lease, at, casVars, slots, guards, passes, phase, stale,
                 bounds>>

Subscribe ==
  /\ phase = "recovering"
  /\ stale = {} /\ recovery = NoRow
  /\ phase' = "up"
  /\ UNCHANGED <<postgres, at, casVars, slots, guards, passes, stale, recovery, bounds>>

\* Nothing of the worker's memory survives its process.
ForgetAll ==
  /\ phase' = "down"
  /\ at' = [at EXCEPT !["handler"] = Idle, !["watchdog"] = Idle]
  /\ seen' = [w \in Writers |-> IF w \in {"handler", "watchdog"}
                                THEN [t \in Tasks |-> NoStatus] ELSE seen[w]]
  /\ tries' = [w \in Writers |-> IF w \in {"handler", "watchdog"}
                                 THEN [t \in Tasks |-> 0] ELSE tries[w]]
  /\ running' = {} /\ starting' = {}
  /\ watched' = {} /\ killed' = {} /\ settled' = {} /\ unwritten' = {}
  /\ resched' = NoPass /\ UNCHANGED overtaken
  /\ stale' = {} /\ recovery' = NoRow

Crash ==
  /\ phase # "down"
  /\ stops < MaxStops
  /\ stops' = stops + 1
  /\ ForgetAll
  /\ UNCHANGED <<postgres, faults, redeliveries>>

\* SIGTERM: the timers stop, polling stops, runtimes are cancelled.
Shutdown ==
  /\ phase = "up"
  /\ stops < MaxStops
  /\ stops' = stops + 1
  /\ phase' = "draining"
  /\ UNCHANGED <<postgres, at, casVars, slots, guards, passes, stale, recovery,
                 faults, redeliveries>>

Exit ==
  /\ phase = "draining"
  /\ \A t \in Tasks : ~Busy(t)
  /\ ForgetAll
  /\ UNCHANGED <<postgres, bounds>>

\* gracefulShutdown timed out: the rows of the remaining handlers are failed.
ForcedExit ==
  /\ phase = "draining"
  /\ \E t \in Tasks : Busy(t)
  /\ job' = [t \in Tasks |-> IF Busy(t) /\ job[t] = "active" THEN "failed" ELSE job[t]]
  /\ ForgetAll
  /\ UNCHANGED <<status, rows, lease, bounds>>

(***************************************************************************)
(* Specification                                                           *)
(***************************************************************************)
ApiTurn(t) ==
  \/ TransitionTask("api", t)
  \/ ApiEnqueues(t)
  \/ ApiEnqueueThrows(t)

HandlerTurn(t) ==
  \/ TransitionTask("handler", t)
  \/ CheckQueued(t)
  \/ OverBudget(t)
  \/ Admit(t)
  \/ Deny(t)
  \/ DeferTask(t)
  \/ BeginTurn(t)
  \/ StartRuntime(t)
  \/ EndRuntime(t)
  \/ WrapUp(t)
  \/ FenceStops(t)
  \/ Report(t)
  \/ FinallyBlock(t)
  \/ EndJob(t)

SettlementTurn(t) ==
  \/ TransitionTask("watchdog", t)
  \/ SettleFence(t)
  \/ ResumeSettlement(t)
  \/ LookAtStatus(t)
  \/ Unwatch(t)

ReschedulerTurn(t) ==
  \/ LoadTask(t)
  \/ RescheduleTask(t)
  \/ ReschedulerThrows(t)
  \/ DeleteLease(t)

RecoveryTurn(t) ==
  \/ RequeueStale(t)
  \/ EnqueueStale(t)
  \/ RecoveryThrows(t)
  \/ FailStale(t)

WorkerTurn ==
  \/ StartWorker
  \/ Subscribe
  \/ Exit

TaskNext(t) ==
  \/ CreateTask(t)
  \/ ApiTurn(t)
  \/ Redeliver(t)
  \/ \E action \in {"confirming", "rejecting"} : FormClicked(t, action)
  \/ TransitionTask("form", t)
  \/ FetchJob(t)
  \/ HandlerTurn(t)
  \/ HandlerThrows(t)
  \/ EndJobUnrecorded(t)
  \/ ExpireJob(t)
  \/ CancelRuntime(t)
  \/ FindNoRuntime(t)
  \/ SettlementTurn(t)
  \/ SettlementThrows(t)
  \/ ReschedulerTurn(t)
  \/ RecoveryTurn(t)
  \/ RequeueThrows(t)
  \/ \E w \in Writers : FailTransition(w, t)

Next ==
  \/ \E t \in Tasks : TaskNext(t)
  \/ \E due \in SUBSET lease : ListDueLeases(due)
  \/ WorkerTurn
  \/ Crash
  \/ Shutdown
  \/ ForcedExit

Spec == Init /\ [][Next]_vars

\* What the event loops, the timers and Postgres go on doing.  Users, inbound
\* messages, timeouts of the watchdog, faults and stops are not owed.  A turn
\* ends: a runtime that makes no progress is cancelled by the watchdog.
Fairness ==
  /\ \A t \in Tasks :
       /\ WF_vars(ApiTurn(t))
       /\ WF_vars(FetchJob(t))
       /\ WF_vars(HandlerTurn(t))
       /\ WF_vars(SettlementTurn(t))
       /\ WF_vars(ReschedulerTurn(t))
       /\ WF_vars(RecoveryTurn(t))
       /\ WF_vars(ExpireJob(t))
  /\ WF_vars(\E due \in SUBSET lease : ListDueLeases(due))
  /\ WF_vars(WorkerTurn)

FairSpec == Spec /\ Fairness

(***************************************************************************)
(* Properties                                                              *)
(***************************************************************************)
Step == ApiStep \cup HandlerStep \cup WatchdogStep \cup FormStep

StepsTypeOK ==
  /\ at \in [Writers -> [Tasks -> Step]]
  /\ \A t \in Tasks :
       /\ Api(t) \in ApiStep
       /\ Handler(t) \in HandlerStep
       /\ Watchdog(t) \in WatchdogStep
       /\ Form(t) \in FormStep

CasTypeOK ==
  /\ seen \in [Writers -> [Tasks -> Status \cup {NoStatus}]]
  /\ \A w \in Writers, t \in Tasks : seen[w][t] # NoStatus => Transitioning(w, t)
  /\ tries \in [Writers -> [Tasks -> 0..MaxTransitionAttempts]]

PostgresTypeOK ==
  /\ status \in [Tasks -> Status]
  /\ job \in [Tasks -> {"none", "created", "active", "completed", "failed"}]
  /\ rows \in [Tasks -> 0..MaxSendAttempts]
  /\ lease \subseteq Tasks

WorkerTypeOK ==
  /\ phase \in {"down", "recovering", "up", "draining"}
  /\ starting \subseteq running
  /\ running \subseteq Tasks
  /\ watched \subseteq Tasks /\ killed \subseteq watched
  /\ settled \subseteq Tasks /\ unwritten \subseteq Tasks
  /\ resched \in [step : {"idle", "loading", "enqueuing", "deleting"},
                  task : Tasks \cup {NoTask}, todo : SUBSET Tasks]
  /\ overtaken \subseteq Tasks
  /\ stale \subseteq Tasks
  /\ recovery \in [step : {"idle", "enqueuing", "failing"}, task : Tasks \cup {NoTask}]

BoundsTypeOK ==
  /\ faults \in 0..MaxFaults
  /\ stops \in 0..MaxStops
  /\ redeliveries \in 0..MaxRedeliveries

\* Every variable keeps its type; a status is being written only inside
\* transitionTask, and the row counts respect MAX_ENQUEUE_SEND_ATTEMPTS.
TypeOK ==
  StepsTypeOK /\ CasTypeOK /\ PostgresTypeOK /\ WorkerTypeOK /\ BoundsTypeOK

\* The statuses obey TaskLifecycle: whatever the API, the handler, the
\* watchdog, a click and startup recovery do at once, every change is a
\* transition of task-state-machine.ts or a recovery of a running task.
ImplementsLifecycle == Lifecycle!Spec

\* "one active job per key, which gives OpenClaudeTag per-session serial execution"
\* (task-queue.ts:183).  Refuted with TurnsOutliveJobs: a job that expires under
\* its turn lets the session's next turn start beside it.
SessionSerial ==
  \A t, u \in Tasks :
    t # u /\ SessionOf[t] = SessionOf[u] => ~(Busy(t) /\ Busy(u))

\* The counters of the scheduler are those of the live turns: never above a
\* limit, held by every turn that runs unless the watchdog settled it, and by
\* nobody else, through duplicates, deferrals, settlements and crashes.
SlotsMatchTurns ==
  /\ \A a \in Agents : AgentRunning(a) <= AgentMaxConcurrency
  /\ Cardinality(starting) <= MaxStarts
  /\ \A t \in Tasks :
       /\ t \in running => Handler(t) \in Admitted \cup {"failing", "closing", "erring"}
       /\ Handler(t) \in Admitted => t \in running \cup settled
       /\ Handler(t) \in {"executing", "wrapping"} => t \notin starting

\* As long as no call failed, a runtime executes only for a task whose row says
\* running, under the eye of the watchdog, unless the fence is about to stop it.
ExecutingIsAccountedFor ==
  faults = 0 =>
    \A t \in Tasks :
      Handler(t) = "executing" => \/ status[t] = "running" /\ t \in watched
                                  \/ t \in settled

\* No handler, no watch: nothing is left for the watchdog to fail later.
WatchEndsWithTurn == \A t \in watched : Busy(t)

\* As long as no call failed and the worker never stopped, a task that is not
\* finished has someone who will carry it on: the API, a job, a turn, a lease
\* that stays, or the watchdog that writes its outcome.  Excepted is a queued task
\* whose deferral met a pass: until it has a job again, which nobody owes it.
NothingStranded ==
  faults = 0 /\ stops = 0 =>
    \A t \in Tasks :
      /\ status[t] = "pending" => Api(t) \in {"queueing", "requeueing"}
      /\ status[t] = "queued" /\ Api(t) \notin {"enqueuing", "reenqueuing"} =>
           \/ job[t] = "created"
           \/ Handler(t) \in {"guard", "admit", "deferring", "admitted", "toRunning",
                              "toConfirm", "failing"}
           \/ t \in lease /\ ~(resched.task = t /\ resched.step = "deleting")
           \/ t \in overtaken
      /\ status[t] = "running" =>
           \/ Handler(t) \in Admitted \cup {"failing"}
           \/ t \in unwritten

\* A job that was deferred as often as it may be queued: until pg-boss archives
\* its rows, its lease makes every pass of the rescheduler fail.
RowsUsedUp == \E t \in Tasks : status[t] = "queued" /\ rows[t] = MaxSendAttempts

\* A task that entered the pipeline leaves it, deferrals and redeliveries
\* included: it finishes, or waits for its requester's click.  Neither a failed
\* call nor a stop is promised to end so, no job whose rows are used up, and no
\* task whose deferral met a pass.
Settles ==
  \A t \in Tasks :
    status[t] \in {"pending", "queued", "running"}
      ~> \/ status[t] \notin {"absent", "pending", "queued", "running"}
         \/ faults > 0 \/ stops > 0 \/ RowsUsedUp \/ t \in overtaken

\* "no task stays queued without a follow-up job"
\* (doc/multi-agent-scheduling-acceptance.md:27), whoever defers it.
QueuedHasFollowUp ==
  \A t \in Tasks :
    status[t] = "queued" /\ Api(t) \in {"done", "delivered"} =>
      job[t] \in {"created", "active"} \/ t \in lease

\* Recovery inspects both tables, "or stale tasks will remain "running"
\* forever" (startup-recovery.ts:36): a running task without a turn is not.
StaleRunningRecovered ==
  \A t \in Tasks :
    (status[t] = "running" /\ ~Busy(t)) ~> (status[t] # "running" \/ Busy(t))
================================================================================
