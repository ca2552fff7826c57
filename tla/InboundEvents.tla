---------------------------- MODULE InboundEvents ----------------------------
(***************************************************************************)
(* One event that Slack or Lark delivers more than once: the claim on its  *)
(* row in inbound_events, what the handler that holds the claim does, and  *)
(* the turn of the task it leads to (packages/feishu-adapter dedup.ts,     *)
(* apps/api slack-events.ts, neutral-dispatch.ts, server.ts and            *)
(* chat-event-serializer.ts).                                              *)
(*                                                                         *)
(* Slack: concurrent requests, one task id per event, the claim released   *)
(* when the dispatch fails.  Lark: deliveries of a chat one after another, *)
(* a new task id each time, a failed delivery keeps its claim.             *)
(*                                                                         *)
(* The upstream delivers again until one delivery is answered with         *)
(* success.  A failing call has no effect, except the enqueue and the      *)
(* answer.  The turn is cut down to what can race a delivery; TaskPipeline *)
(* has the rest, with the compensation of a failed enqueue.                *)
(***************************************************************************)
EXTENDS Integers, FiniteSets

CONSTANTS
  Deliveries,
  Channels,      \* the channels to choose from
  MaxFaults      \* bound: failing calls, lost answers and crashes

ASSUME InboundEventsAssumption ==
  Deliveries # {} /\ Channels \subseteq {"slack", "lark"} /\ MaxFaults \in Nat

VARIABLES
  channel,
  claim,       \* inbound_events.status, "none" without a row
  stale,       \* the claim is older than STALE_CLAIM_TAKEOVER_MS
  step,        \* of each delivery's handler
  created,     \* deliveries whose createTask inserted the task
  task,        \* status of the task of each id
  job,         \* tasks with a live job
  (* history *)
  queued,      \* tasks that had a job
  turns,       \* turns the event has started
  notices,     \* "Task queued" messages
  answered,    \* the upstream was told success
  lapses,      \* what went wrong for good
  faults

requests == <<channel, claim, stale, step, created>>
work     == <<task, job, queued, turns>>
history  == <<notices, answered, lapses>>
vars     == <<requests, work, history, faults>>

\* Handlers that hold, or believe to hold, the claim.
Working == {"dispatch", "look", "queue", "notice", "enqueue", "mark", "release"}
Handling == Working \cup {"insert", "read", "takeover"}

\* Deterministic for Slack (neutralTaskId), random for a Lark message.
TaskOf(h) == IF channel = "slack" THEN CHOOSE d \in Deliveries : TRUE ELSE h

Terminal == {"completed", "failed"}

Init ==
  /\ channel \in Channels
  /\ claim = "none" /\ stale = FALSE
  /\ step = [h \in Deliveries |-> "idle"]
  /\ created = {}
  /\ task = [h \in Deliveries |-> "absent"]
  /\ job = {} /\ queued = {} /\ turns = 0
  /\ notices = 0 /\ answered = FALSE /\ lapses = {}
  /\ faults = 0

Fault == faults < MaxFaults /\ faults' = faults + 1

At(h, here) == step[h] = here
Goto(h, there) == step' = [step EXCEPT ![h] = there]

(***************************************************************************)
(* The claim (checkAndRecordEvent)                                         *)
(***************************************************************************)
\* ChatEventSerializer.run: a Lark delivery waits for the one before it.
Receive(h) ==
  /\ At(h, "idle") /\ ~answered
  /\ channel = "lark" => \A g \in Deliveries : step[g] \notin Handling
  /\ Goto(h, "insert")
  /\ UNCHANGED <<channel, claim, stale, created, work, history, faults>>

InsertClaim(h) ==
  /\ At(h, "insert")
  /\ IF claim = "none"
     THEN claim' = "received" /\ stale' = FALSE /\ Goto(h, "dispatch")
     ELSE Goto(h, "read") /\ UNCHANGED <<claim, stale>>
  /\ UNCHANGED <<channel, created, work, history, faults>>

\* A duplicate is answered with success; if somebody is still at work on the
\* event, or just gave it up, the upstream will not come again for it.
Duplicate(h) ==
  /\ Goto(h, "accept")
  /\ lapses' = IF claim = "none" \/ \E g \in Deliveries \ {h} : step[g] \in Working
               THEN lapses \cup {"overtaken"} ELSE lapses

ReadClaim(h) ==
  /\ At(h, "read")
  /\ \/ /\ claim = "received" /\ stale
        /\ Goto(h, "takeover")
        /\ UNCHANGED <<claim, lapses>>
     \/ /\ ~(claim = "received" /\ stale)
        /\ claim' = IF claim = "processed" THEN "duplicate" ELSE claim
        /\ Duplicate(h)
  /\ UNCHANGED <<channel, stale, created, work, notices, answered, faults>>

TakeOver(h) ==
  /\ At(h, "takeover")
  /\ IF claim = "received" /\ stale
     THEN stale' = FALSE /\ Goto(h, "dispatch") /\ lapses' = lapses \cup {"takeover"}
     ELSE Duplicate(h) /\ UNCHANGED stale
  /\ UNCHANGED <<channel, claim, created, work, notices, answered, faults>>

ClaimFails(h) ==
  /\ step[h] \in {"insert", "read", "takeover"}
  /\ Fault
  /\ Goto(h, "refuse")
  /\ UNCHANGED <<channel, claim, stale, created, work, history>>

GrowStale ==
  /\ claim = "received" /\ ~stale
  /\ stale' = TRUE
  /\ UNCHANGED <<channel, claim, step, created, work, history, faults>>

(***************************************************************************)
(* The dispatch (dispatchNeutralMessage, handleNormalMessage)              *)
(***************************************************************************)
\* createTask with onConflictDoNothing
CreateTask(h) ==
  LET t == TaskOf(h)
  IN
  /\ At(h, "dispatch")
  /\ IF task[t] = "absent"
     THEN /\ task' = [task EXCEPT ![t] = "pending"]
          /\ created' = created \cup {h}
          /\ Goto(h, "queue")
     ELSE /\ Goto(h, "look")
          /\ UNCHANGED <<task, created>>
  /\ UNCHANGED <<channel, claim, stale, job, queued, turns, history, faults>>

\* getTaskStatus of a duplicate
LookAtTask(h) ==
  /\ At(h, "look")
  /\ Goto(h, IF task[TaskOf(h)] \in Terminal THEN "mark" ELSE "queue")
  /\ UNCHANGED <<channel, claim, stale, created, work, history, faults>>

\* Mutant: the status is written as it is.
EnsureQueuedAnyway(h) ==
  /\ At(h, "queue")
  /\ task' = [task EXCEPT ![TaskOf(h)] = "queued"]
  /\ Goto(h, "notice")
  /\ UNCHANGED <<channel, claim, stale, created, job, queued, turns, history, faults>>

\* ensureQueued: a task past PENDING is left alone.
EnsureQueued(h) ==
  /\ At(h, "queue")
  /\ task' = [task EXCEPT ![TaskOf(h)] = IF @ = "pending" THEN "queued" ELSE @]
  /\ Goto(h, "notice")
  /\ UNCHANGED <<channel, claim, stale, created, job, queued, turns, history, faults>>

\* sendNeutralAck: only for a task this delivery created; best effort.
Notify(h) ==
  /\ At(h, "notice")
  /\ \/ notices' = (IF h \in created THEN notices + 1 ELSE notices) /\ UNCHANGED faults
     \/ h \in created /\ Fault /\ UNCHANGED notices
  /\ Goto(h, "enqueue")
  /\ UNCHANGED <<channel, claim, stale, created, work, answered, lapses>>

PutJob(t) == job' = job \cup {t} /\ queued' = queued \cup {t}

\* queue.enqueue: a live job is replayed, a finished one has a successor.
Enqueue(h) ==
  /\ At(h, "enqueue")
  /\ PutJob(TaskOf(h))
  /\ Goto(h, "mark")
  /\ UNCHANGED <<channel, claim, stale, created, task, turns, history, faults>>

\* Mutant: the failure is logged and the event closed.
AfterFailureClose == "mark"

\* Slack: the claim is released and the request refused; Lark: the task is
\* failed (failTaskCreatedPipeline) and the event closed.
AfterFailure == IF channel = "slack" THEN "release" ELSE "mark"

\* A call between the creation of the task and its job fails; a failed enqueue
\* may have put the job all the same.
DispatchFails(h) ==
  /\ step[h] \in {"look", "queue", "enqueue"}
  /\ Fault
  /\ \/ UNCHANGED <<job, queued>>
     \/ At(h, "enqueue") /\ PutJob(TaskOf(h))
  /\ task' = [task EXCEPT ![TaskOf(h)] =
       IF channel = "lark" /\ @ \in {"pending", "queued", "running"} THEN "failed" ELSE @]
  /\ Goto(h, AfterFailure)
  /\ UNCHANGED <<channel, claim, stale, created, turns, history>>

\* Nothing was created yet.  A failed createTask releases a Slack claim; a failed
\* resolveBotUserId, and anything on Lark, leaves the claim where it is.
LookupFails(h) ==
  /\ At(h, "dispatch")
  /\ Fault
  /\ \/ channel = "slack" /\ Goto(h, "release") /\ UNCHANGED lapses
     \/ Goto(h, "refuse") /\ lapses' = lapses \cup {"lookup"}
  /\ UNCHANGED <<channel, claim, stale, created, work, notices, answered>>

\* markEventProcessed, best effort on Slack
Mark(h) ==
  /\ At(h, "mark")
  /\ \/ /\ claim' = IF claim = "none" THEN claim ELSE "processed"
        /\ UNCHANGED faults
     \/ Fault /\ UNCHANGED claim
  /\ Goto(h, "accept")
  /\ UNCHANGED <<channel, stale, created, work, history>>

\* Mutant: the claim of a failed dispatch is kept.
ReleaseNothing(h) ==
  /\ At(h, "release")
  /\ Goto(h, "refuse")
  /\ UNCHANGED <<channel, claim, stale, created, work, history, faults>>

\* releaseInboundEventClaim: whoever holds the row by now, it is deleted.
Release(h) ==
  /\ At(h, "release")
  /\ \/ claim' = "none" /\ stale' = FALSE /\ UNCHANGED <<lapses, faults>>
     \/ Fault /\ lapses' = lapses \cup {"release"} /\ UNCHANGED <<claim, stale>>
  /\ Goto(h, "refuse")
  /\ UNCHANGED <<channel, created, work, notices, answered>>

\* The answer; that of a Lark handler is success in any case
\* (feishu-ws-manager.ts), and it may be lost on the way.
Answer(h) ==
  /\ step[h] \in {"accept", "refuse"}
  /\ \/ answered' = (answered \/ At(h, "accept") \/ channel = "lark") /\ UNCHANGED faults
     \/ Fault /\ UNCHANGED answered
  /\ Goto(h, "done")
  /\ UNCHANGED <<channel, claim, stale, created, work, notices, lapses>>

\* The API process dies with all its handlers.
Crash ==
  /\ \E h \in Deliveries : step[h] \in Handling
  /\ Fault
  /\ step' = [h \in Deliveries |-> IF step[h] = "idle" THEN "idle" ELSE "done"]
  /\ lapses' = lapses \cup {"crash"}
  /\ UNCHANGED <<channel, claim, stale, created, work, notices, answered>>

(***************************************************************************)
(* The worker                                                              *)
(***************************************************************************)
\* processTask's guard: only a queued task begins its turn.
StartTurn(t) ==
  /\ t \in job
  /\ \/ task[t] = "queued" /\ task' = [task EXCEPT ![t] = "running"] /\ turns' = turns + 1
        /\ UNCHANGED job
     \/ task[t] \in {"pending"} \cup Terminal /\ job' = job \ {t} /\ UNCHANGED <<task, turns>>
  /\ UNCHANGED <<requests, queued, history, faults>>

EndTurn(t, outcome) ==
  /\ t \in job /\ task[t] = "running"
  /\ task' = [task EXCEPT ![t] = outcome]
  /\ job' = job \ {t}
  /\ UNCHANGED <<requests, queued, turns, history, faults>>

(***************************************************************************)
(* The system                                                              *)
(***************************************************************************)
Handle(h) ==
  \/ InsertClaim(h)
  \/ ReadClaim(h)
  \/ TakeOver(h)
  \/ CreateTask(h)
  \/ LookAtTask(h)
  \/ EnsureQueued(h)
  \/ Notify(h)
  \/ Enqueue(h)
  \/ Mark(h)
  \/ Release(h)
  \/ Answer(h)

Next ==
  \/ \E h \in Deliveries :
       \/ Receive(h)
       \/ Handle(h)
       \/ ClaimFails(h)
       \/ DispatchFails(h)
       \/ LookupFails(h)
       \/ StartTurn(h)
       \/ \E outcome \in Terminal : EndTurn(h, outcome)
  \/ GrowStale
  \/ Crash

Spec == Init /\ [][Next]_vars

\* Handlers run on; the upstream delivers again until it is answered.
Fairness ==
  /\ \A h \in Deliveries : WF_vars(Handle(h))
  /\ WF_vars(\E h \in Deliveries : Receive(h))

FairSpec == Spec /\ Fairness

(***************************************************************************)
(* Properties                                                              *)
(***************************************************************************)
\* Every variable keeps its type, and a claim grows stale only as "received" or
\* closed later.
TypeOK ==
  /\ channel \in Channels
  /\ claim \in {"none", "received", "processed", "duplicate"}
  /\ stale \in BOOLEAN /\ (stale => claim # "none")
  /\ step \in [Deliveries -> {"idle", "accept", "refuse", "done"} \cup Handling]
  /\ created \subseteq Deliveries
  /\ task \in [Deliveries -> {"absent", "pending", "queued", "running"} \cup Terminal]
  /\ job \subseteq queued /\ queued \subseteq Deliveries
  /\ turns \in Nat /\ notices \in Nat /\ answered \in BOOLEAN
  /\ lapses \subseteq {"overtaken", "takeover", "lookup", "release", "crash"}
  /\ faults \in 0..MaxFaults

\* An event is worked on once.  On Slack through crashes, takeovers, claims that
\* another handler released, and redeliveries that race the turn itself; on Lark,
\* where each delivery has a task of its own, unless a stale claim was taken over.
RunsOnce ==
  channel = "slack" \/ "takeover" \notin lapses => turns <= 1

\* neutral-dispatch.ts: "it must not re-ACK".  The requester reads one "Task
\* queued", whichever of the deliveries created the task and whichever queued it.
OneNotice == channel = "slack" => notices <= 1

\* The enqueue is the durable boundary: an event is closed only when a job of it
\* was put or, on Lark, its task was failed, whoever closes it.
ClosedIsQueued ==
  claim \in {"processed", "duplicate"} =>
    queued # {} \/ \E t \in Deliveries : task[t] \in Terminal

\* What the code gives up on: a claim outlives a handler that crashed, could not
\* look up the bot or could not release it, or a duplicate is accepted while a
\* handler is at work.
GivenUp == lapses \cap {"crash", "lookup", "release", "overtaken"} # {}

\* slack-events.ts: a failed dispatch releases the claim, so that "the immediate
\* Slack retry re-claims and re-attempts".  Until a job of an event is put, Slack
\* is not told success and no claim is left without a handler that works on it -
\* although a handler releases whatever claim it finds, its successor's too.
NothingDropped ==
  channel = "slack" /\ queued = {} /\ ~GivenUp =>
    /\ ~answered /\ \A h \in Deliveries : step[h] # "accept"
    /\ claim = "none" \/ \E h \in Deliveries : step[h] \in Working

\* Every event Slack delivers is queued in the end, unless it was given up.
EventIsQueued ==
  (channel = "slack" /\ \E h \in Deliveries : step[h] # "idle")
    ~> queued # {} \/ GivenUp

\* slack-events.ts: "a crash can never ack an event it then loses".
CrashLosesNothing ==
  /\ channel = "slack" /\ answered
  /\ \A h \in Deliveries : step[h] \notin Handling
  /\ lapses = {"crash"}
  => queued # {}
=============================================================================
