------------------------------ MODULE Discussion ------------------------------
(***************************************************************************)
(* Agents that discuss in turns (packages/storage discussion-repository.ts,*)
(* apps/worker discussion-turn-*.ts, apps/api server.ts).  A turn is a     *)
(* task in the session of the discussion.  One transaction ends the task,  *)
(* records the turn, and creates the task, the turn row and the lease of   *)
(* the next one; afterwards the worker enqueues it and posts to the thread *)
(* whatever was recorded and not posted yet.                               *)
(*                                                                         *)
(*   command      the deliveries of one /discuss, one for each bot         *)
(*   handler      processTask of the session's active job                  *)
(*   rescheduler  the leases of turns that were not enqueued               *)
(*   user         stops the discussion                                     *)
(*                                                                         *)
(* Handlers of the session run one at a time (task-queue.ts:183),          *)
(* so what a handler loads before it renders is what it still finds later. *)
(* Admission always admits.  A failing call has no effect, except a post,  *)
(* which may arrive although its reply is lost.                            *)
(***************************************************************************)
EXTENDS Integers, Sequences

CONSTANTS
  Participants,     \* how many agents take turns
  RoundLimit,       \* DISCUSSION_MAX_ROUNDS
  Deliveries,       \* how many bots deliver the command
  NoTurn,
  MaxFaults         \* bound: calls that fail, watchdogs and crashes

ASSUME DiscussionAssumption ==
  /\ {Participants, RoundLimit, Deliveries} \subseteq Nat \ {0}
  /\ MaxFaults \in Nat

Turns == (1..RoundLimit) \X (0..Participants - 1)

ASSUME NoTurnAssumption == NoTurn \notin Turns

VARIABLES
  (* Postgres *)
  dstatus,    \* discussions.status, "absent" without a row
  position,   \* discussions.current_round and current_turn_index
  row,        \* discussion_turns.status, "absent" without a row
  rendered,   \* turns whose metadata has feishuRender
  closed,     \* feishuClosingRender is in the metadata of the last turn
  task,       \* tasks.status of each turn's task
  created,    \* jobs that wait
  active,     \* the session's active job
  lease,      \* admission_leases
  (* Lark *)
  thread,     \* what was posted, each idempotency key once
  (* processes *)
  command,    \* how many deliveries are at each step; they are alike
  up,         \* the worker runs
  at,         \* the step of the handler
  posting,    \* what it posted last and has not marked yet
  pass,       \* the rescheduler
  (* bounds *)
  faults,     \* failing enqueues and posts
  aborts      \* what a discussion does not survive

talk   == <<dstatus, position, row>>
posts  == <<rendered, closed, thread, posting>>
jobs   == <<created, active>>
worker == <<up, at, pass>>
bounds == <<faults, aborts>>
vars   == <<talk, posts, task, jobs, lease, command, worker, bounds>>

First   == <<1, 0>>
Closing == <<"closing">>
Terminal == {"completed", "failed", "cancelled"}

CommandStep == {"create", "insert", "enqueue", "failing", "done"}

Before(s, t) == s[1] < t[1] \/ (s[1] = t[1] /\ s[2] < t[2])

\* The turn after t; past the round limit it is no turn.
After(t) == IF t[2] + 1 >= Participants THEN <<t[1] + 1, 0>> ELSE <<t[1], t[2] + 1>>

NoPass == [step |-> "idle", turn |-> NoTurn]

Init ==
  /\ dstatus = "absent" /\ position = First
  /\ row = [t \in Turns |-> "absent"]
  /\ task = [t \in Turns |-> "absent"]
  /\ rendered = {} /\ closed = FALSE /\ thread = <<>> /\ posting = NoTurn
  /\ created = {} /\ active = NoTurn /\ lease = {}
  /\ command = [s \in CommandStep |-> IF s = "create" THEN Deliveries ELSE 0]
  /\ up = TRUE /\ at = "idle" /\ pass = NoPass
  /\ faults = 0 /\ aborts = 0

Fault == faults + aborts < MaxFaults /\ faults' = faults + 1 /\ UNCHANGED aborts
Abort == faults + aborts < MaxFaults /\ aborts' = aborts + 1 /\ UNCHANGED faults

\* TaskQueue.enqueue: a live job is a replay.
Enqueue(t) ==
  /\ created' = IF t = active THEN created ELSE created \cup {t}
  /\ UNCHANGED active

(***************************************************************************)
(* The API                                                                 *)
(***************************************************************************)
Deliver(step, next) ==
  /\ command[step] > 0
  /\ command' = [command EXCEPT ![step] = @ - 1, ![next] = @ + 1]

\* createDiscussion: one row for each root thread, whoever comes first.
CreateDiscussion ==
  /\ Deliver("create", "insert")
  /\ dstatus' = IF dstatus = "absent" THEN "active" ELSE dstatus
  /\ UNCHANGED <<position, row, posts, task, jobs, lease, worker, bounds>>

\* createInitialDiscussionTurnTask
InsertFirstTask ==
  /\ Deliver("insert", IF task[First] = "absent" THEN "enqueue" ELSE "done")
  /\ task' = [task EXCEPT ![First] = IF @ = "absent" THEN "queued" ELSE @]
  /\ UNCHANGED <<talk, posts, jobs, lease, worker, bounds>>

EnqueueFirst ==
  /\ Deliver("enqueue", "done")
  /\ Enqueue(First)
  /\ UNCHANGED <<talk, posts, task, lease, worker, bounds>>

EnqueueFirstFails ==
  /\ Deliver("enqueue", "failing")
  /\ Abort
  /\ UNCHANGED <<talk, posts, task, jobs, lease, worker>>

\* enqueueDiscussionTurnTaskOrFail
FailFirst ==
  /\ Deliver("failing", "done")
  /\ task' = [task EXCEPT ![First] = "failed"]
  /\ UNCHANGED <<talk, posts, jobs, lease, worker, bounds>>

\* handleDiscussionInterruptIfNeeded; a discussion that is over stays so.
StopDiscussion ==
  /\ dstatus = "active"
  /\ dstatus' = "cancelled"
  /\ UNCHANGED <<position, row, posts, task, jobs, lease, command, worker, bounds>>

(***************************************************************************)
(* The handler up to the end of the turn                                   *)
(***************************************************************************)
FetchJob(t) ==
  /\ up /\ at = "idle" /\ active = NoTurn
  /\ t \in created
  /\ created' = created \ {t}
  /\ active' = t
  /\ at' = "guard"
  /\ UNCHANGED <<talk, posts, task, lease, command, up, pass, bounds>>

\* Mutant: no guard against duplicate jobs.
CheckQueuedNever ==
  /\ at = "guard"
  /\ at' = "check"
  /\ UNCHANGED <<talk, posts, task, jobs, lease, command, up, pass, bounds>>

\* A duplicate of an ended turn posts what its predecessor could not.
CheckQueued ==
  /\ at = "guard"
  /\ at' = CASE task[active] = "queued"    -> "check"
             [] task[active] \in Terminal  -> "render"
             [] OTHER                      -> "closing"
  /\ UNCHANGED <<talk, posts, task, jobs, lease, command, up, pass, bounds>>

\* Mutant: a turn of a stopped discussion runs.
CheckDiscussionNever ==
  /\ at = "check"
  /\ at' = "starting"
  /\ UNCHANGED <<talk, posts, task, jobs, lease, command, up, pass, bounds>>

\* skipInactiveDiscussionTurnIfNeeded
CheckDiscussion ==
  /\ at = "check"
  /\ at' = IF dstatus = "active" THEN "starting" ELSE "skipping"
  /\ UNCHANGED <<talk, posts, task, jobs, lease, command, up, pass, bounds>>

SkipTurn ==
  /\ at = "skipping"
  /\ task' = [task EXCEPT ![active] = "cancelled"]
  /\ at' = "closing"
  /\ UNCHANGED <<talk, posts, jobs, lease, command, up, pass, bounds>>

StartTurn ==
  /\ at = "starting"
  /\ task' = [task EXCEPT ![active] = "running"]
  /\ at' = "turn"
  /\ UNCHANGED <<talk, posts, jobs, lease, command, up, pass, bounds>>

EndTurn ==
  /\ at = "turn"
  /\ at' = "commit"
  /\ UNCHANGED <<talk, posts, task, jobs, lease, command, up, pass, bounds>>

\* failRuntimeExecutionFromWatchdog writes the task and not the turn.  The
\* fence stops the handler, unless it is about to commit.
WatchdogFails ==
  /\ at \in {"turn", "commit"}
  /\ task[active] = "running"
  /\ Abort
  /\ task' = [task EXCEPT ![active] = "failed"]
  /\ at' = IF at = "turn" THEN "closing" ELSE at
  /\ UNCHANGED <<talk, posts, jobs, lease, command, up, pass>>

(***************************************************************************)
(* completeDiscussionTaskTurnAndAdvance: one transaction, with a lock on   *)
(* the discussion's row                                                    *)
(***************************************************************************)
\* appendDiscussionTurnInTransaction: an ended turn stays as it is.
AppendTurn(t, status) ==
  IF row[t] \in Terminal THEN row ELSE [row EXCEPT ![t] = status]

\* Mutant: the next turn is opened although the discussion was stopped.
WaitsForTurnOnly(rows) == rows[position] \notin Terminal

\* advanceDiscussionInTransaction with the rows so far; tasks are those the
\* transaction has written.
Waits(rows) == dstatus # "active" \/ rows[position] \notin Terminal

EndDiscussion(rows, tasks) ==
  /\ ~Waits(rows)
  /\ After(position) \notin Turns
  /\ dstatus' = "completed"
  /\ row' = rows /\ task' = tasks
  /\ at' = "render"
  /\ UNCHANGED <<position, lease>>

OpenTurn(rows, tasks) ==
  LET next == After(position) IN
  /\ ~Waits(rows)
  /\ next \in Turns
  /\ tasks[next] \in {"absent", "queued"} /\ rows[next] \in {"absent", "queued"}
  /\ task' = [tasks EXCEPT ![next] = "queued"]
  /\ row' = [rows EXCEPT ![next] = "queued"]
  /\ lease' = lease \cup {next}
  /\ position' = next
  /\ at' = "enqueue"
  /\ UNCHANGED dstatus

\* The discussion was stopped: the turn is recorded and not posted.
StayPut(rows, tasks) ==
  /\ Waits(rows)
  /\ row' = rows /\ task' = tasks
  /\ at' = "closing"
  /\ UNCHANGED <<dstatus, position, lease>>

CommitTurn(status) ==
  LET rows  == AppendTurn(active, status)
      tasks == [task EXCEPT ![active] = status]
  IN
  /\ at = "commit"
  /\ task[active] \in {"queued", "running"}
  /\ EndDiscussion(rows, tasks) \/ OpenTurn(rows, tasks) \/ StayPut(rows, tasks)
  /\ UNCHANGED <<posts, jobs, command, up, pass, bounds>>

\* The watchdog was faster: DiscussionTerminalCommitError, and the job fails.
RefuseCommit ==
  /\ at = "commit"
  /\ task[active] \notin {"queued", "running"}
  /\ at' = "closing"
  /\ UNCHANGED <<talk, posts, task, jobs, lease, command, up, pass, bounds>>

\* The same error; retryLimit is 0, so nothing retries the failed job.
CommitFails ==
  /\ at = "commit"
  /\ Abort
  /\ at' = "closing"
  /\ UNCHANGED <<talk, posts, task, jobs, lease, command, up, pass>>

(***************************************************************************)
(* deliverDiscussionTurnAdvance after the commit                           *)
(***************************************************************************)
EnqueueNext ==
  /\ at = "enqueue"
  /\ Enqueue(After(active))
  /\ at' = "unlease"
  /\ UNCHANGED <<talk, posts, task, lease, command, up, pass, bounds>>

DropNextLease ==
  /\ at = "unlease"
  /\ lease' = lease \ {After(active)}
  /\ at' = "render"
  /\ UNCHANGED <<talk, posts, task, jobs, command, up, pass, bounds>>

\* lease_retained
EnqueueNextFails ==
  /\ at \in {"enqueue", "unlease"}
  /\ Fault
  /\ at' = "render"
  /\ UNCHANGED <<talk, posts, task, jobs, lease, command, up, pass>>

(***************************************************************************)
(* renderDiscussionTurnsThrough                                            *)
(***************************************************************************)
\* Mutant: a job posts its own turn only.
UnpostedOwn == {t \in {active} : row[t] \in Terminal /\ t \notin rendered}

Unposted ==
  {t \in Turns : /\ t = active \/ Before(t, active)
                 /\ row[t] \in Terminal
                 /\ t \notin rendered}

\* Turns whose row is missing are posted by nobody (throughIndex < 0).
MayPost == row[active] # "absent"

Post(message) ==
  thread' = IF \E i \in 1..Len(thread) : thread[i] = message
              THEN thread ELSE Append(thread, message)

PostTurn(t) ==
  /\ at = "render" /\ MayPost
  /\ t \in Unposted
  /\ \A s \in Unposted : ~Before(s, t)
  /\ Post(t)
  /\ posting' = t
  /\ at' = "mark"
  /\ UNCHANGED <<talk, rendered, closed, task, jobs, lease, command, up, pass, bounds>>

ClosingDue ==
  /\ MayPost
  /\ Unposted = {}
  /\ dstatus = "completed"
  /\ \A t \in Turns : row[t] \in Terminal => ~Before(active, t)
  /\ ~closed

PostClosing ==
  /\ at = "render"
  /\ ClosingDue
  /\ Post(Closing)
  /\ posting' = Closing
  /\ at' = "mark"
  /\ UNCHANGED <<talk, rendered, closed, task, jobs, lease, command, up, pass, bounds>>

\* markDiscussionTurnFeishuRendered
MarkRendered ==
  /\ at = "mark"
  /\ IF posting = Closing
       THEN closed' = TRUE /\ UNCHANGED rendered
       ELSE rendered' = rendered \cup {posting} /\ UNCHANGED closed
  /\ posting' = NoTurn
  /\ at' = "render"
  /\ UNCHANGED <<talk, thread, task, jobs, lease, command, up, pass, bounds>>

EndRender ==
  /\ at = "render"
  /\ ~MayPost \/ (Unposted = {} /\ ~ClosingDue)
  /\ at' = "closing"
  /\ UNCHANGED <<talk, posts, task, jobs, lease, command, up, pass, bounds>>

\* DiscussionTurnRenderError fails the job, and nothing retries it.
RenderFails ==
  /\ at \in {"render", "mark"}
  /\ Fault
  /\ posting' = NoTurn
  /\ at' = "closing"
  /\ UNCHANGED <<talk, rendered, closed, thread, task, jobs, lease, command, up, pass>>

EndJob ==
  /\ at = "closing"
  /\ active' = NoTurn
  /\ at' = "idle"
  /\ UNCHANGED <<talk, posts, task, created, lease, command, up, pass, bounds>>

(***************************************************************************)
(* runAdmissionReschedulerOnce, one lease at a time                        *)
(***************************************************************************)
LoadLease(t) ==
  /\ up /\ pass = NoPass
  /\ t \in lease
  /\ pass' = [step |-> IF task[t] = "queued" THEN "enqueue" ELSE "unlease", turn |-> t]
  /\ UNCHANGED <<talk, posts, task, jobs, lease, command, up, at, bounds>>

\* Mutant: the lease is dropped and its turn is not enqueued.
RescheduleNothing ==
  /\ pass.step = "enqueue"
  /\ pass' = [pass EXCEPT !.step = "unlease"]
  /\ UNCHANGED <<talk, posts, task, jobs, lease, command, up, at, bounds>>

Reschedule ==
  /\ pass.step = "enqueue"
  /\ Enqueue(pass.turn)
  /\ pass' = [pass EXCEPT !.step = "unlease"]
  /\ UNCHANGED <<talk, posts, task, lease, command, up, at, bounds>>

DropLease ==
  /\ pass.step = "unlease"
  /\ lease' = lease \ {pass.turn}
  /\ pass' = NoPass
  /\ UNCHANGED <<talk, posts, task, jobs, command, up, at, bounds>>

RescheduleFails ==
  /\ pass # NoPass
  /\ Fault
  /\ pass' = NoPass
  /\ UNCHANGED <<talk, posts, task, jobs, lease, command, up, at>>

(***************************************************************************)
(* Crash and recovery of the worker                                        *)
(***************************************************************************)
Crash ==
  /\ up
  /\ Abort
  /\ up' = FALSE /\ at' = "idle" /\ pass' = NoPass /\ posting' = NoTurn
  /\ UNCHANGED <<talk, rendered, closed, thread, task, jobs, lease, command>>

\* Handlers that outlive their job are left out, see TaskPipeline.
ExpireJob ==
  /\ at = "idle" /\ active # NoTurn
  /\ active' = NoTurn
  /\ UNCHANGED <<talk, posts, task, created, lease, command, worker, bounds>>

\* recoverStaleRunningTasks: a running task without a live job runs again.
Restart ==
  LET stale == {t \in Turns : task[t] = "running" /\ t \notin created \cup {active}} IN
  /\ ~up
  /\ up' = TRUE
  /\ task' = [t \in Turns |-> IF t \in stale THEN "queued" ELSE task[t]]
  /\ created' = created \cup stale
  /\ UNCHANGED <<talk, posts, active, lease, command, at, pass, bounds>>

(***************************************************************************)
(* Specification                                                           *)
(***************************************************************************)
CommandTurn ==
  \/ CreateDiscussion
  \/ InsertFirstTask
  \/ EnqueueFirst
  \/ FailFirst

HandlerTurn ==
  \/ \E t \in Turns : FetchJob(t)
  \/ CheckQueued
  \/ CheckDiscussion
  \/ SkipTurn
  \/ StartTurn
  \/ EndTurn
  \/ \E status \in Terminal : CommitTurn(status)
  \/ RefuseCommit
  \/ EnqueueNext
  \/ DropNextLease
  \/ \E t \in Turns : PostTurn(t)
  \/ PostClosing
  \/ MarkRendered
  \/ EndRender
  \/ EndJob

PassTurn ==
  \/ \E t \in Turns : LoadLease(t)
  \/ Reschedule
  \/ DropLease

WorkerFault ==
  \/ WatchdogFails
  \/ CommitFails
  \/ EnqueueNextFails
  \/ RenderFails
  \/ RescheduleFails
  \/ Crash

Next ==
  \/ CommandTurn
  \/ EnqueueFirstFails
  \/ StopDiscussion
  \/ HandlerTurn
  \/ PassTurn
  \/ WorkerFault
  \/ ExpireJob
  \/ Restart

Spec == Init /\ [][Next]_vars

\* The event loops of both processes and the rescheduler's timer.  Nobody owes
\* a stop, a fault or a restart.
Fairness ==
  /\ WF_vars(CommandTurn)
  /\ WF_vars(HandlerTurn)
  /\ WF_vars(PassTurn)

FairSpec == Spec /\ Fairness

(***************************************************************************)
(* Properties                                                              *)
(***************************************************************************)
HandlerStep ==
  {"idle", "guard", "check", "skipping", "starting", "turn", "commit", "enqueue",
   "unlease", "render", "mark", "closing"}

\* Every variable keeps its type, and a busy handler has a job.
TypeOK ==
  /\ dstatus \in {"absent", "active", "completed", "cancelled"}
  /\ position \in Turns
  /\ row \in [Turns -> {"absent", "queued"} \cup Terminal]
  /\ task \in [Turns -> {"absent", "queued", "running"} \cup Terminal]
  /\ rendered \subseteq Turns /\ closed \in BOOLEAN
  /\ thread \in Seq(Turns \cup {Closing})
  /\ posting \in Turns \cup {Closing, NoTurn}
  /\ created \subseteq Turns /\ lease \subseteq Turns
  /\ active \in Turns \cup {NoTurn}
  /\ at # "idle" => active # NoTurn /\ up
  /\ command \in [CommandStep -> 0..Deliveries]
  /\ up \in BOOLEAN /\ at \in HandlerStep
  /\ pass \in [step : {"idle", "enqueue", "unlease"}, turn : Turns \cup {NoTurn}]
  /\ pass.step # "idle" => pass.turn \in Turns
  /\ {faults, aborts} \subseteq 0..MaxFaults

\* Agents speak in turn: every turn before the current one is recorded, none
\* after it exists, and no other agent's task is queued or running - across
\* duplicate jobs, watchdogs, restarts and two deliveries of the command.
OneSpeaker ==
  \A t \in Turns :
    /\ Before(t, position) => row[t] \in Terminal /\ task[t] \in Terminal
    /\ Before(position, t) => row[t] = "absent" /\ task[t] = "absent" /\ t \notin lease

\* The thread reads like the discussion: turns in their order, each once, none
\* before it is recorded, and the closing line after all of them; failed posts,
\* lost replies and crashes leave no hole behind which another turn appears.
ThreadInOrder ==
  \A i \in 1..Len(thread) :
    IF thread[i] = Closing
      THEN /\ dstatus = "completed" /\ i = Len(thread)
           /\ \A t \in Turns : \E j \in 1..i : thread[j] = t
      ELSE /\ row[thread[i]] \in Terminal
           /\ \A t \in Turns : Before(t, thread[i]) <=> \E j \in 1..i - 1 : thread[j] = t

\* Stop means stop (handleDiscussionInterruptIfNeeded): afterwards no further
\* turn is opened, and no turn runs that had not passed the check before.
Stopped == dstatus \notin {"absent", "active"}

StopIsFinal ==
  [][Stopped => /\ UNCHANGED <<dstatus, position>>
                /\ at' = "starting" => at = "starting"]_vars

\* Who brings a queued turn to its runtime: a job or the handler that has it, the
\* lease, or the delivery of the command that inserted the first turn.
HasJob(t) == t \in created \/ (active = t /\ at \in {"guard", "check", "starting"})
Queued(t) == HasJob(t) \/ t \in lease \/ (t = First /\ command["enqueue"] > 0)

\* While a discussion goes on exactly its current turn is under way and somebody
\* carries it on, whatever enqueues, posts and leases fail; once it is over its
\* last handler stays until the closing line is in the thread, unless a post
\* failed.  Excepted is what the code gives up on (aborts).
CarriedOn ==
  /\ dstatus = "active" /\ aborts = 0 =>
       \/ task[position] = "absent" /\ position = First /\ command["insert"] > 0
       \/ task[position] = "queued" /\ Queued(position)
       \/ task[position] = "running" /\ active = position /\ at \in {"turn", "commit"}
  /\ dstatus = "completed" /\ ~closed /\ aborts = 0 /\ faults = 0 =>
       active = position /\ at \in {"render", "mark"}

\* discussion-repository.ts writes the status of turn tasks in SQL of its own, past
\* transitionTask, and its terminal write takes queued tasks as well as running
\* ones.  Together with the watchdog, startup recovery and the command's
\* compensation it still follows the state machine: no turn is completed, failed
\* or queued again that the state machine would not let.
Lifecycle == INSTANCE TaskLifecycle WITH Tasks <- Turns, status <- task

FollowsLifecycle ==
  [][\A t \in Turns :
       IF task[t] = "absent" THEN task'[t] \in {"absent", "queued"}
                             ELSE Lifecycle!MayBecome(task[t], task'[t])]_vars

\* Failed enqueues and posts do not hold up a discussion: it is stopped by its
\* user or runs through all its rounds, and if no call failed the whole of it is
\* in the thread.  Excepted is what the code gives up on (aborts).
Concludes ==
  (dstatus = "active") ~>
    \/ dstatus = "cancelled"
    \/ aborts > 0
    \/ dstatus = "completed" /\ (faults = 0 => closed)
=============================================================================
