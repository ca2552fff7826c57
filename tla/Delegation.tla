------------------------------ MODULE Delegation ------------------------------
(***************************************************************************)
(* Agents that hand work to other agents (packages/orchestrator            *)
(* agent-delegation.ts, packages/storage agent-delegation-repository.ts).  *)
(* A turn whose output calls handoff_to_agent creates a child task.  In    *)
(* mode "return" the parent waits (waiting_delegation) and its job ends;   *)
(* when its children have ended, the barrier queues it again with their    *)
(* results.  In mode "chain" the parent completes and the child goes on.   *)
(*                                                                         *)
(*   handler   processTask of each task, with enqueueDelegatedChild, the   *)
(*             hook that follows a terminal write and the barrier's wake   *)
(*   pass      runAdmissionReschedulerOnce: leases, then edges, barriers   *)
(*                                                                         *)
(* A child's id is a function of its parent and its callee, so a task is   *)
(* written as its chain of agents.  One tree; other trees share nothing.   *)
(* Admission always admits here and a failed call stands for a worker that *)
(* stops at that place too; TaskPipeline has both in full.  Outside: a     *)
(* Slack message of a waiting task that comes again (ensureQueued).        *)
(***************************************************************************)
EXTENDS Integers, Sequences, FiniteSets

CONSTANTS
  Agents, RootAgent, NoAgent,
  MaxDepth,         \* MAX_DELEGATION_DEPTH
  MaxFanout,        \* DELEGATION_MAX_FANOUT
  MaxTotalTasks,    \* DELEGATION_MAX_TOTAL_TASKS
  MaxFaults         \* bound: calls that fail

ASSUME DelegationAssumption ==
  /\ RootAgent \in Agents /\ NoAgent \notin Agents
  /\ {MaxDepth, MaxFanout, MaxTotalTasks} \subseteq Nat \ {0}
  /\ MaxFaults \in Nat

VARIABLES
  (* Postgres *)
  status,     \* tasks.status, "absent" without a row
  edge,       \* agent_delegations.status of the edge to each child
  used,       \* delegation_trees.tasks_used
  woken,      \* delegation_trees.woken_at is set
  resume,     \* the callees in the delegationResumePackage of the constraints
  created,    \* jobs in the queue ...
  active,     \* ... and with a handler; finished ones make room for the next
  lease,      \* jobs in admission_leases, one row for each task
  (* the worker *)
  at,         \* the step of each task's handler
  call,       \* the handoff it delivers
  wake,       \* the resume package of the wake it delivers
  pass,       \* the pass of the rescheduler and the reconciler
  (* bound *)
  faults

rows   == <<status, edge, used, woken, resume>>
jobs   == <<created, active>>
queue  == <<jobs, lease>>
turn   == <<call, wake>>
vars   == <<rows, queue, at, turn, pass, faults>>

Root == <<RootAgent>>

\* The delegation chains that maxDepth allows; no agent is in one twice.
Tasks ==
  {t \in UNION {[1..n -> Agents] : n \in 1..MaxDepth + 1} :
     t[1] = RootAgent /\ \A i, j \in 1..Len(t) : t[i] = t[j] => i = j}

Agent(t)  == t[Len(t)]
Parent(t) == SubSeq(t, 1, Len(t) - 1)
Depth(t)  == Len(t) - 1
IsChild(t) == Len(t) > 1

Children(p) == {t \in Tasks : IsChild(t) /\ Parent(t) = p /\ edge[t] # "none"}

TerminalStatus == {"completed", "failed"}
TerminalEdge   == {"completed", "failed"}
Terminal(t)    == status[t] \in TerminalStatus

NoCall == [to |-> NoAgent, mode |-> "none"]
NoPass == [step |-> "idle", task |-> Root, due |-> {}, todo |-> {}]

\* taskJobIdempotencyKey: the first run of a task and each resume, named by
\* the children it reports, have job ids of their own.
Jobs == Tasks \X SUBSET Agents
Run(t) == <<t, {}>>

Init ==
  /\ status = [t \in Tasks |-> IF t = Root THEN "queued" ELSE "absent"]
  /\ edge = [t \in Tasks |-> "none"]
  /\ used = 0 /\ woken = FALSE
  /\ resume = [t \in Tasks |-> {}]
  /\ created = {Run(Root)} /\ active = {} /\ lease = {}
  /\ at = [t \in Tasks |-> "idle"]
  /\ call = [t \in Tasks |-> NoCall]
  /\ wake = [t \in Tasks |-> {}]
  /\ pass = NoPass
  /\ faults = 0

Fault ==
  /\ faults < MaxFaults
  /\ faults' = faults + 1

Goto(t, step) == at' = [at EXCEPT ![t] = step]

\* TaskQueue.enqueue: a live job is a replay.
Enqueue(j) ==
  /\ created' = IF j \in active THEN created ELSE created \cup {j}
  /\ UNCHANGED active

LeasesOf(t) == {l \in lease : l[1] = t}

(***************************************************************************)
(* The handler up to the end of the turn                                   *)
(***************************************************************************)
\* One active job for each session, and each task has its own.
FetchJob(j) ==
  /\ j \in created
  /\ \A k \in active : k[1] # j[1]
  /\ created' = created \ {j}
  /\ active' = active \cup {j}
  /\ Goto(j[1], "guard")
  /\ UNCHANGED <<rows, lease, turn, pass, faults>>

\* Mutant: no guard against duplicate jobs.
StartTurnAgain(t) ==
  /\ at[t] = "guard"
  /\ ~Terminal(t)
  /\ status' = [status EXCEPT ![t] = "running"]
  /\ lease' = lease \ LeasesOf(t)
  /\ Goto(t, "turn")
  /\ UNCHANGED <<edge, used, woken, resume, jobs, turn, pass, faults>>

\* The guard against duplicate jobs; an admitted task drops its lease.
StartTurn(t) ==
  /\ at[t] = "guard"
  /\ status[t] = "queued"
  /\ status' = [status EXCEPT ![t] = "running"]
  /\ lease' = lease \ LeasesOf(t)
  /\ Goto(t, "turn")
  /\ UNCHANGED <<edge, used, woken, resume, jobs, turn, pass, faults>>

SkipTurn(t) ==
  /\ at[t] = "guard"
  /\ status[t] # "queued"
  /\ Goto(t, "closing")
  /\ UNCHANGED <<rows, queue, turn, pass, faults>>

\* The output holds no handoff, or the runtime failed.
EndTurn(t) ==
  /\ at[t] = "turn"
  /\ \E step \in {"succeeding", "failing"} : Goto(t, step)
  /\ UNCHANGED <<rows, queue, turn, pass, faults>>

\* failRuntimeExecutionFromWatchdog writes the outcome and runs no hook.
WatchdogFails(t) ==
  /\ at[t] = "turn"
  /\ status' = [status EXCEPT ![t] = "failed"]
  /\ Goto(t, "closing")
  /\ UNCHANGED <<edge, used, woken, resume, queue, turn, pass, faults>>

(***************************************************************************)
(* createDelegatedTask: one transaction under an advisory lock on the      *)
(* child's id and a row lock on the tree                                   *)
(***************************************************************************)
MayDelegate(t, a) ==
  /\ status[t] \in {"running", "waiting_delegation"}
  /\ a # Agent(t)
  /\ Depth(t) < MaxDepth
  /\ \A i \in 1..Len(t) : t[i] # a

\* reserveDelegationBudget
WithinBudget(t) ==
  /\ Cardinality(Children(t)) < MaxFanout
  /\ used < MaxTotalTasks

CreateChild(t, a, mode) ==
  LET c == Append(t, a) IN
  /\ at[t] = "turn"
  /\ MayDelegate(t, a)
  /\ status[c] = "absent"
  /\ WithinBudget(t)
  /\ status' = [status EXCEPT ![c] = "queued",
                              ![t] = IF mode = "return" THEN "waiting_delegation" ELSE @]
  /\ edge' = [edge EXCEPT ![c] = "pending"]
  /\ used' = used + 1
  /\ lease' = lease \cup {Run(c)}
  /\ call' = [call EXCEPT ![t] = [to |-> a, mode |-> mode]]
  /\ Goto(t, "handoff")
  /\ UNCHANGED <<woken, resume, jobs, wake, pass, faults>>

\* Mutant: the budget is reserved before the existing child is looked up.
ReuseChildPaidAgain(t, a, mode) ==
  /\ at[t] = "turn"
  /\ MayDelegate(t, a)
  /\ status[Append(t, a)] # "absent"
  /\ WithinBudget(t)
  /\ used' = used + 1
  /\ call' = [call EXCEPT ![t] = [to |-> a, mode |-> mode]]
  /\ Goto(t, "handoff")
  /\ UNCHANGED <<status, edge, woken, resume, queue, wake, pass, faults>>

\* loadExistingDelegatedTask: the child of an earlier call to the same agent
\* is returned as it is; nothing is reserved and the parent is not marked.
ReuseChild(t, a, mode) ==
  /\ at[t] = "turn"
  /\ MayDelegate(t, a)
  /\ status[Append(t, a)] # "absent"
  /\ call' = [call EXCEPT ![t] = [to |-> a, mode |-> mode]]
  /\ Goto(t, "handoff")
  /\ UNCHANGED <<rows, queue, wake, pass, faults>>

\* AgentDelegationError, or a spent budget: the turn fails.
RefuseChild(t, a) ==
  /\ at[t] = "turn"
  /\ \/ ~MayDelegate(t, a)
     \/ MayDelegate(t, a) /\ status[Append(t, a)] = "absent" /\ ~WithinBudget(t)
  /\ Goto(t, "failing")
  /\ UNCHANGED <<rows, queue, turn, pass, faults>>

(***************************************************************************)
(* enqueueDelegatedChild, then completeSuccessfulTaskAfterHandoffs         *)
(***************************************************************************)
Callee(t) == Append(t, call[t].to)

EnqueueChild(t) ==
  /\ at[t] = "handoff"
  /\ Enqueue(<<Callee(t), resume[Callee(t)]>>)
  /\ Goto(t, "unlease")
  /\ UNCHANGED <<rows, lease, turn, pass, faults>>

\* A return handoff ends the job here, a chain handoff completes the task.
HandedOff(t) ==
  /\ call' = [call EXCEPT ![t] = NoCall]
  /\ Goto(t, IF call[t].mode = "return" THEN "closing" ELSE "succeeding")

DropChildLease(t) ==
  /\ at[t] = "unlease"
  /\ lease' = lease \ LeasesOf(Callee(t))
  /\ HandedOff(t)
  /\ UNCHANGED <<rows, jobs, wake, pass, faults>>

\* lease_retained
HandoffFails(t) ==
  /\ at[t] \in {"handoff", "unlease"}
  /\ Fault
  /\ HandedOff(t)
  /\ UNCHANGED <<rows, queue, wake, pass>>

(***************************************************************************)
(* The terminal write and the hook after it                                *)
(***************************************************************************)
Outcome(t) == IF at[t] = "succeeding" THEN "completed" ELSE "failed"

FinishTask(t) ==
  /\ at[t] \in {"succeeding", "failing"}
  /\ status' = [status EXCEPT ![t] = Outcome(t)]
  /\ Goto(t, IF IsChild(t) THEN "hook" ELSE "closing")
  /\ UNCHANGED <<edge, used, woken, resume, queue, turn, pass, faults>>

\* updateAgentDelegationStatus reads the edge and refuses a terminal one ...
ReadEdge(t) ==
  /\ at[t] = "hook"
  /\ Goto(t, IF edge[t] \in TerminalEdge THEN "closing" ELSE "marking")
  /\ UNCHANGED <<rows, queue, turn, pass, faults>>

\* ... then writes it by id, whatever it is by now.
WriteEdge(t) ==
  /\ at[t] = "marking"
  /\ edge' = [edge EXCEPT ![t] = status[t]]
  /\ Goto(t, "barrier")
  /\ UNCHANGED <<status, used, woken, resume, queue, turn, pass, faults>>

\* evaluateDelegationBarrierForChildTask, under the lock on the tree
BarrierOpen(p) ==
  /\ \A c \in Children(p) : edge[c] \in TerminalEdge
  /\ ~(p = Root /\ woken)
  /\ status[p] = "waiting_delegation"

Callees(p) == {Agent(c) : c \in Children(p)}

\* Mutant: the parent is queued without a lease.
WakeParentUnleased(p) ==
  /\ BarrierOpen(p)
  /\ status' = [status EXCEPT ![p] = "queued"]
  /\ woken' = (woken \/ p = Root)
  /\ resume' = [resume EXCEPT ![p] = Callees(p)]
  /\ UNCHANGED <<edge, used, jobs, lease>>

WakeParent(p) ==
  /\ BarrierOpen(p)
  /\ status' = [status EXCEPT ![p] = "queued"]
  /\ woken' = (woken \/ p = Root)
  /\ resume' = [resume EXCEPT ![p] = Callees(p)]
  /\ lease' = (lease \ LeasesOf(p)) \cup {<<p, Callees(p)>>}
  /\ UNCHANGED <<edge, used, jobs>>

EvaluateBarrier(t) ==
  /\ at[t] = "barrier"
  /\ \/ /\ WakeParent(Parent(t))
        /\ wake' = [wake EXCEPT ![t] = Callees(Parent(t))]
        /\ Goto(t, "waking")
     \/ /\ ~BarrierOpen(Parent(t))
        /\ Goto(t, "closing")
        /\ UNCHANGED <<rows, queue, wake>>
  /\ UNCHANGED <<call, pass, faults>>

EnqueueParent(t) ==
  /\ at[t] = "waking"
  /\ Enqueue(<<Parent(t), wake[t]>>)
  /\ Goto(t, "unleaseParent")
  /\ UNCHANGED <<rows, lease, turn, pass, faults>>

DropParentLease(t) ==
  /\ at[t] = "unleaseParent"
  /\ lease' = lease \ LeasesOf(Parent(t))
  /\ Goto(t, "closing")
  /\ UNCHANGED <<rows, jobs, turn, pass, faults>>

\* Every error of the hook is caught and logged.
HookFails(t) ==
  /\ at[t] \in {"hook", "marking", "barrier", "waking", "unleaseParent"}
  /\ Fault
  /\ Goto(t, "closing")
  /\ UNCHANGED <<rows, queue, turn, pass>>

EndJob(t) ==
  /\ at[t] = "closing"
  /\ active' = {j \in active : j[1] # t}
  /\ wake' = [wake EXCEPT ![t] = {}]
  /\ Goto(t, "idle")
  /\ UNCHANGED <<rows, created, lease, call, pass, faults>>

(***************************************************************************)
(* runAdmissionReschedulerOnce: due leases, then terminal edges, then      *)
(* ready barriers.  One pass at a time, at any moment.                     *)
(***************************************************************************)
Step(step, t, todo) == pass' = [step |-> step, task |-> t, due |-> {}, todo |-> todo]
Leases(step, t, due) == pass' = [step |-> step, task |-> t, due |-> due, todo |-> {}]

\* reconcileTerminalChildDelegationEdges selects ended children ...
Ended == {c \in Tasks : edge[c] = "pending" /\ Terminal(c)}

\* listReadyDelegationBarriers
\* Mutant: a barrier is ready only when every child completed.
ReadyAllCompleted ==
  {p \in Tasks : /\ status[p] = "waiting_delegation"
                 /\ Children(p) # {}
                 /\ \A c \in Children(p) : edge[c] = "completed"}

Ready ==
  {p \in Tasks : /\ status[p] = "waiting_delegation"
                 /\ Children(p) # {}
                 /\ \A c \in Children(p) : edge[c] \in TerminalEdge}

\* A pass that finds nothing is left out.
BeginPass ==
  /\ pass = NoPass
  /\ lease # {} \/ Ended \cup Ready # {}
  /\ Leases("leases", Root, lease)
  /\ UNCHANGED <<rows, queue, at, turn, faults>>

Reschedule(j) ==
  /\ pass.step = "leases"
  /\ j \in pass.due
  /\ IF status[j[1]] = "queued" THEN Enqueue(j) ELSE UNCHANGED jobs
  /\ Leases("unlease", j[1], pass.due \ {j})
  /\ UNCHANGED <<rows, lease, at, turn, faults>>

DropLease ==
  /\ pass.step = "unlease"
  /\ lease' = lease \ LeasesOf(pass.task)
  /\ Leases("leases", Root, pass.due)
  /\ UNCHANGED <<rows, jobs, at, turn, faults>>

ListEndedChildren ==
  /\ pass.step = "leases"
  /\ pass.due = {}
  /\ Step("edges", Root, Ended)
  /\ UNCHANGED <<rows, queue, at, turn, faults>>

\* ... the edges that are still open, and writes each unless the hook has.
\* Mutant: every reconciled edge is marked completed.
ReconcileEdgeAsCompleted(c) ==
  /\ pass.step = "edges"
  /\ c \in pass.todo
  /\ edge' = [edge EXCEPT ![c] = IF @ = "pending" THEN "completed" ELSE @]
  /\ Step("edges", Root, pass.todo \ {c})
  /\ UNCHANGED <<status, used, woken, resume, queue, at, turn, faults>>

ReconcileEdge(c) ==
  /\ pass.step = "edges"
  /\ c \in pass.todo
  /\ edge' = [edge EXCEPT ![c] = IF @ = "pending" THEN status[c] ELSE @]
  /\ Step("edges", Root, pass.todo \ {c})
  /\ UNCHANGED <<status, used, woken, resume, queue, at, turn, faults>>

ListReadyBarriers ==
  /\ pass.step = "edges"
  /\ pass.todo = {}
  /\ Step("barriers", Root, Ready)
  /\ UNCHANGED <<rows, queue, at, turn, faults>>

ReconcileBarrier(p) ==
  /\ pass.step = "barriers"
  /\ p \in pass.todo
  /\ \/ WakeParent(p) /\ Step("waking", p, pass.todo \ {p})
     \/ ~BarrierOpen(p) /\ Step("barriers", Root, pass.todo \ {p}) /\ UNCHANGED <<rows, queue>>
  /\ UNCHANGED <<at, turn, faults>>

PassEnqueuesParent ==
  /\ pass.step = "waking"
  /\ Enqueue(<<pass.task, resume[pass.task]>>)
  /\ Step("unleaseParent", pass.task, pass.todo)
  /\ UNCHANGED <<rows, lease, at, turn, faults>>

PassDropsParentLease ==
  /\ pass.step = "unleaseParent"
  /\ lease' = lease \ LeasesOf(pass.task)
  /\ Step("barriers", Root, pass.todo)
  /\ UNCHANGED <<rows, jobs, at, turn, faults>>

EndPass ==
  /\ pass.step = "barriers"
  /\ pass.todo = {}
  /\ pass' = NoPass
  /\ UNCHANGED <<rows, queue, at, turn, faults>>

\* A failed wake keeps its lease and the loop over the barriers goes on; any
\* other error ends the pass.
PassFails ==
  /\ Fault
  /\ \/ /\ pass.step \in {"waking", "unleaseParent"}
        /\ Step("barriers", Root, pass.todo)
     \/ /\ pass.step = "barriers"
        /\ \E p \in pass.todo : Step("barriers", Root, pass.todo \ {p})
     \/ /\ pass.step \in {"leases", "unlease", "edges"}
        /\ pass' = NoPass
  /\ UNCHANGED <<rows, queue, at, turn>>

(***************************************************************************)
(* Specification                                                           *)
(***************************************************************************)
Modes == {"return", "chain"}

HandlerTurn(t) ==
  \/ \E j \in created : j[1] = t /\ FetchJob(j)
  \/ StartTurn(t)
  \/ SkipTurn(t)
  \/ EndTurn(t)
  \/ \E a \in Agents, mode \in Modes : CreateChild(t, a, mode)
  \/ \E a \in Agents, mode \in Modes : ReuseChild(t, a, mode)
  \/ \E a \in Agents : RefuseChild(t, a)
  \/ EnqueueChild(t)
  \/ DropChildLease(t)
  \/ FinishTask(t)
  \/ ReadEdge(t)
  \/ WriteEdge(t)
  \/ EvaluateBarrier(t)
  \/ EnqueueParent(t)
  \/ DropParentLease(t)
  \/ EndJob(t)

PassTurn ==
  \/ BeginPass
  \/ \E j \in pass.due : Reschedule(j)
  \/ DropLease
  \/ ListEndedChildren
  \/ \E t \in Tasks : ReconcileEdge(t)
  \/ ListReadyBarriers
  \/ \E t \in Tasks : ReconcileBarrier(t)
  \/ PassEnqueuesParent
  \/ PassDropsParentLease
  \/ EndPass

Next ==
  \/ \E t \in Tasks :
       \/ HandlerTurn(t)
       \/ WatchdogFails(t)
       \/ HandoffFails(t)
       \/ HookFails(t)
  \/ PassTurn
  \/ PassFails

Spec == Init /\ [][Next]_vars

\* The worker's event loop and its timers; a turn ends, by itself or by the
\* watchdog.  Faults are not owed.
Fairness ==
  /\ \A t \in Tasks : WF_vars(HandlerTurn(t))
  /\ WF_vars(PassTurn)

FairSpec == Spec /\ Fairness

(***************************************************************************)
(* Properties                                                              *)
(***************************************************************************)
HandlerStep ==
  {"idle", "guard", "turn", "handoff", "unlease", "succeeding", "failing", "hook",
   "marking", "barrier", "waking", "unleaseParent", "closing"}

PassStep ==
  {"idle", "leases", "unlease", "edges", "barriers", "waking", "unleaseParent"}

Edges == {c \in Tasks : edge[c] # "none"}

\* Every variable keeps its type; an edge belongs to a child that exists, and a
\* handoff that is being delivered names an existing child.
TypeOK ==
  /\ status \in [Tasks -> {"absent", "queued", "running", "waiting_delegation"}
                          \cup TerminalStatus]
  /\ edge \in [Tasks -> {"none", "pending"} \cup TerminalEdge]
  /\ used \in Nat /\ woken \in BOOLEAN
  /\ resume \in [Tasks -> SUBSET Agents]
  /\ created \subseteq Jobs /\ active \subseteq Jobs /\ lease \subseteq Jobs
  /\ at \in [Tasks -> HandlerStep]
  /\ call \in [Tasks -> [to : Agents \cup {NoAgent}, mode : Modes \cup {"none"}]]
  /\ \A t \in Tasks :
       /\ edge[t] # "none" <=> IsChild(t) /\ status[t] # "absent"
       /\ IF at[t] \in {"handoff", "unlease"}
            THEN /\ call[t].to \in Agents /\ call[t].mode \in Modes
                 /\ Depth(t) < MaxDepth /\ edge[Callee(t)] # "none"
            ELSE call[t] = NoCall
       /\ at[t] \in {"hook", "marking", "barrier", "waking", "unleaseParent"} =>
            IsChild(t) /\ Terminal(t)
       /\ at[t] \in {"turn", "succeeding", "failing"} => status[t] = "running"
  /\ wake \in [Tasks -> SUBSET Agents]
  /\ pass \in [step : PassStep, task : Tasks, due : SUBSET Jobs, todo : SUBSET Tasks]
  /\ faults \in 0..MaxFaults

\* "concurrent siblings do not exceed" the budgets of the tree
\* (doc/multi-agent-scheduling-acceptance.md:33): every edge was paid for, at
\* most DELEGATION_MAX_TOTAL_TASKS in the tree and DELEGATION_MAX_FANOUT under
\* one parent, through replays of a handoff and resumed parents.
Budgets ==
  /\ used = Cardinality(Edges)
  /\ used <= MaxTotalTasks
  /\ \A p \in Tasks : Cardinality(Children(p)) <= MaxFanout

\* An edge that has ended says how its child ended, whichever of the hook and
\* the reconciler wrote it, and the hook's unchecked write undoes neither.
EdgesTellOutcome ==
  \A c \in Tasks : edge[c] \in TerminalEdge => edge[c] = status[c]

\* A parent never runs while one of its children is unfinished: no hook or
\* pass, however late, resumes it before the barrier of its current wait.
ParentIdle ==
  \A p \in Tasks : at[p] = "turn" => \A c \in Children(p) : Terminal(c)

\* Who brings a queued task to its turn: a job or the handler that fetched it,
\* a handler or the pass on its way to enqueue it, a lease.
HasJob(t) == at[t] = "guard" \/ \E j \in created : j[1] = t
Leased(t) == LeasesOf(t) # {}
BeingEnqueued(t) ==
  \/ \E p \in Tasks : at[p] = "handoff" /\ Callee(p) = t
  \/ \E c \in Tasks : at[c] = "waking" /\ Parent(c) = t /\ wake[c] = resume[t]
  \/ pass.step = "waking" /\ pass.task = t

\* No task stays queued without a job to come (doc/multi-agent-scheduling-
\* acceptance.md:27), a waiting parent has a child it was not told of yet, and a
\* running task has a turn.  Two exceptions: a late handoff deletes the child's
\* lease by task id, so once a call has failed a child that was itself resumed may
\* lose the lease its wake wrote; and a resumed parent that calls an agent again
\* ends its job while it runs (ReuseChild).
NothingStranded ==
  \A t \in Tasks :
    /\ status[t] = "queued" =>
         \/ HasJob(t) \/ BeingEnqueued(t) \/ Leased(t)
         \/ faults > 0 /\ resume[t] # {} /\ t # Root
    /\ status[t] = "waiting_delegation" => Callees(t) \ resume[t] # {}
    /\ status[t] = "running" =>
         at[t] \in {"turn", "handoff", "unlease", "succeeding", "failing"} \/ resume[t] # {}

\* A resumption reports a child no earlier one did, so the id of its job is new:
\* TaskQueue.enqueue never takes it for the replay of a job that is still there.
ResumptionIsNew ==
  [][\A t \in Tasks :
       resume'[t] # resume[t] => <<t, resume'[t]>> \notin created \cup active]_vars

\* agent-delegation-repository.ts writes statuses in SQL of its own, past
\* transitionTask: a child is born queued, its parent waits, a barrier queues it
\* again.  Beside the writes of the turns these still follow the state machine.
Lifecycle == INSTANCE TaskLifecycle

FollowsLifecycle ==
  [][\A t \in Tasks :
       IF status[t] = "absent" THEN status'[t] \in {"absent", "queued"}
                               ELSE Lifecycle!MayBecome(status[t], status'[t])]_vars

\* A queued task is run, and a parent is resumed after its children: lost hooks,
\* failed enqueues and leases dropped late are made up for.  The second wait of
\* a root is excepted (woken_at), see WaitingParentResumes.
Resumes ==
  \A t \in Tasks :
    (\/ status[t] = "queued"
     \/ status[t] = "waiting_delegation" /\ ~(t = Root /\ woken))
      ~> (status[t] = "running" \/ Terminal(t))

\* "barrier: once all siblings have ended the parent is woken exactly once; it
\* never hangs" (doc/multi-agent-scheduling-acceptance.md:36).
WaitingParentResumes ==
  \A p \in Tasks :
    status[p] = "waiting_delegation" ~> status[p] # "waiting_delegation"
================================================================================
