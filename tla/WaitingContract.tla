---------------------------- MODULE WaitingContract ----------------------------
(***************************************************************************)
(* "@A do this, then @B do that": A's bot starts a task, B's bot says that *)
(* it waits, and a waiting contract remembers to call B when A has ended   *)
(* (apps/api server.ts, packages/storage waiting-contract-repository.ts,   *)
(* apps/worker handoff-delivery.ts and waiting-contract-reconciler.ts).    *)
(*                                                                         *)
(*   primary      the message as A's bot delivers it                       *)
(*   deferred     the same message as B's bot delivers it                  *)
(*   hook         what the worker does when A's task has ended             *)
(*   reconciler   expires contracts that wait too long                     *)
(*                                                                         *)
(* A relay is one such message; its contract and A's task have ids derived *)
(* from it.  A failing call has no effect, except a post, which may arrive *)
(* although its reply is lost.  A pass takes every stale contract: the     *)
(* limit of its batch is left out.                                         *)
(***************************************************************************)
EXTENDS Integers, FiniteSets

CONSTANTS
  Relays,
  NoRelay,
  MaxFaults      \* bound: failing calls, silent failures and crashes

ASSUME WaitingContractAssumption == NoRelay \notin Relays /\ MaxFaults \in Nat

VARIABLES
  (* Postgres *)
  status,     \* waiting_contracts.status, "absent" without a row
  bound,      \* relays whose contract has a primary_task_id
  acked,      \* relays whose contract has an ack_message_id
  age,        \* of the contract: past the orphan age, past the TTL
  task,       \* A's task
  (* Lark *)
  told,       \* what the chat was told, each idempotency key once
  (* processes *)
  primary,    \* the step of each delivery
  deferred,
  hook,       \* the step of each ended task
  pass,       \* the reconciler: its snapshot, and the contract it works on
  (* history and bounds *)
  dropped,    \* relays whose claim outlived whoever claimed it
  doubted,    \* relays with a post whose reply was lost
  faults

contract == <<status, bound, acked, age>>
api      == <<primary, deferred>>
history  == <<dropped, doubted>>
vars     == <<contract, task, told, api, hook, pass, history, faults>>

Outcome == {"woken", "cancelled", "expired"}

NoPass == [step |-> "idle", relay |-> NoRelay, orphans |-> {}, overdue |-> {}]

Init ==
  /\ status = [r \in Relays |-> "absent"]
  /\ bound = {} /\ acked = {}
  /\ age = [r \in Relays |-> "young"]
  /\ task = [r \in Relays |-> "absent"]
  /\ told = [r \in Relays |-> {}]
  /\ primary = [r \in Relays |-> "idle"]
  /\ deferred = [r \in Relays |-> "idle"]
  /\ hook = [r \in Relays |-> "idle"]
  /\ pass = NoPass
  /\ dropped = {} /\ doubted = {} /\ faults = 0

Fault == faults < MaxFaults /\ faults' = faults + 1

Tell(r, what) == told' = [told EXCEPT ![r] = @ \cup {what}]

\* A post fails: it did not arrive, or its reply did not.
PostFails(r, what) ==
  /\ Fault
  /\ UNCHANGED dropped
  /\ \/ UNCHANGED <<told, doubted>>
     \/ Tell(r, what) /\ doubted' = doubted \cup {r}

(***************************************************************************)
(* The contract's row                                                      *)
(***************************************************************************)
\* createWaitingContract: whoever comes first inserts it.
Create(r) ==
  /\ status' = [status EXCEPT ![r] = IF @ = "absent" THEN "waiting" ELSE @]
  /\ UNCHANGED <<bound, acked, age>>

\* bindWaitingContractsToPrimaryTask
Bind(r) ==
  /\ bound' = IF status[r] = "absent" THEN bound ELSE bound \cup {r}
  /\ UNCHANGED <<status, acked, age>>

\* Mutant: the claim is no compare-and-swap.
ClaimAnyway(r, outcome) ==
  /\ status[r] # "absent"
  /\ status' = [status EXCEPT ![r] = outcome]
  /\ UNCHANGED <<bound, acked, age>>

\* transitionWaitingContract: won by one caller.
Claim(r, outcome) ==
  /\ status[r] = "waiting"
  /\ status' = [status EXCEPT ![r] = outcome]
  /\ UNCHANGED <<bound, acked, age>>

\* revertWaitingContractClaim
Revert(r, outcome) ==
  /\ status' = [status EXCEPT ![r] = IF @ = outcome THEN "waiting" ELSE @]
  /\ UNCHANGED <<bound, acked, age>>

\* created_at recedes.
Grow(r) ==
  /\ status[r] # "absent"
  /\ \/ age[r] = "young" /\ age' = [age EXCEPT ![r] = "old"]
     \/ age[r] = "old" /\ age' = [age EXCEPT ![r] = "overdue"]
  /\ UNCHANGED <<status, bound, acked, task, told, api, hook, pass, history, faults>>

(***************************************************************************)
(* The API: A's delivery                                                   *)
(***************************************************************************)
Deliver(at, r, from, to) == at[r] = from /\ at' = [at EXCEPT ![r] = to]

ReceivePrimary(r) ==
  /\ Deliver(primary, r, "idle", "create")
  /\ UNCHANGED <<contract, task, told, deferred, hook, pass, history, faults>>

CreateByPrimary(r) ==
  /\ Deliver(primary, r, "create", "start")
  /\ Create(r)
  /\ UNCHANGED <<task, told, deferred, hook, pass, history, faults>>

\* Mutant: a failed insert is logged and the event goes on.
AbortPrimaryOnlyLogged(r) ==
  /\ Deliver(primary, r, "create", "start")
  /\ Fault
  /\ UNCHANGED <<contract, task, told, deferred, hook, pass, history>>

\* A failed insert aborts the event; it may be delivered again.
AbortPrimary(r) ==
  /\ Deliver(primary, r, "create", "idle")
  /\ Fault
  /\ UNCHANGED <<contract, task, told, deferred, hook, pass, history>>

\* createTaskFromMessage with the relay's id, and the enqueue: a second
\* delivery finds the task and leaves it alone.
StartTask(r) ==
  /\ Deliver(primary, r, "start", "bind")
  /\ task' = [task EXCEPT ![r] = IF @ = "absent" THEN "running" ELSE @]
  /\ UNCHANGED <<contract, told, deferred, hook, pass, history, faults>>

\* failTaskCreatedPipeline: it fails the task and tells no contract.
StartTaskFails(r) ==
  /\ task[r] = "absent"
  /\ Deliver(primary, r, "start", "bind")
  /\ task' = [task EXCEPT ![r] = "failed"]
  /\ Fault
  /\ UNCHANGED <<contract, told, deferred, hook, pass, history>>

BindByPrimary(r) ==
  /\ Deliver(primary, r, "bind", "done")
  /\ Bind(r)
  /\ UNCHANGED <<task, told, deferred, hook, pass, history, faults>>

BindByPrimaryFails(r) ==
  /\ Deliver(primary, r, "bind", "done")
  /\ Fault
  /\ UNCHANGED <<contract, task, told, deferred, hook, pass, history>>

(***************************************************************************)
(* The API: B's delivery (handleDeferredMentionDelivery)                   *)
(***************************************************************************)
ReceiveDeferred(r) ==
  /\ Deliver(deferred, r, "idle", "create")
  /\ UNCHANGED <<contract, task, told, primary, hook, pass, history, faults>>

CreateByDeferred(r) ==
  /\ Deliver(deferred, r, "create", IF r \in acked THEN "done" ELSE "bind")
  /\ Create(r)
  /\ UNCHANGED <<task, told, primary, hook, pass, history, faults>>

AbortDeferred(r) ==
  /\ Deliver(deferred, r, "create", "idle")
  /\ Fault
  /\ UNCHANGED <<contract, task, told, primary, hook, pass, history>>

BindByDeferred(r) ==
  /\ Deliver(deferred, r, "bind", "ack")
  /\ IF task[r] # "absent" THEN Bind(r) ELSE UNCHANGED contract
  /\ UNCHANGED <<task, told, primary, hook, pass, history, faults>>

BindByDeferredFails(r) ==
  /\ Deliver(deferred, r, "bind", "ack")
  /\ Fault
  /\ UNCHANGED <<contract, task, told, primary, hook, pass, history>>

PostAck(r) ==
  /\ Deliver(deferred, r, "ack", "record")
  /\ Tell(r, "ack")
  /\ UNCHANGED <<contract, task, primary, hook, pass, history, faults>>

PostAckFails(r) ==
  /\ Deliver(deferred, r, "ack", "done")
  /\ Fault
  /\ UNCHANGED <<contract, task, told, primary, hook, pass, history>>

RecordAck(r) ==
  /\ Deliver(deferred, r, "record", "done")
  /\ acked' = acked \cup {r}
  /\ UNCHANGED <<status, bound, age, task, told, primary, hook, pass, history, faults>>

\* Every delivery under way is lost; what was not done may be delivered again.
ApiCrashes ==
  /\ Fault
  /\ primary' = [r \in Relays |-> IF primary[r] = "done" THEN "done" ELSE "idle"]
  /\ deferred' = [r \in Relays |-> IF deferred[r] = "done" THEN "done" ELSE "idle"]
  /\ UNCHANGED <<contract, task, told, hook, pass, history>>

(***************************************************************************)
(* The worker: A's task ends (deliverWaitingContractWakes)                 *)
(***************************************************************************)
EndTask(r, outcome) ==
  /\ task[r] = "running"
  /\ task' = [task EXCEPT ![r] = outcome]
  /\ hook' = [hook EXCEPT ![r] = "list"]
  /\ UNCHANGED <<contract, told, api, pass, history, faults>>

\* The catch of processTask and the watchdog fail a task without this hook.
EndTaskSilently(r) ==
  /\ task[r] = "running"
  /\ task' = [task EXCEPT ![r] = "failed"]
  /\ Fault
  /\ UNCHANGED <<contract, told, api, hook, pass, history>>

\* listWaitingContractsByMessage
ListContracts(r) ==
  /\ Deliver(hook, r, "list", IF status[r] = "waiting" THEN "claim" ELSE "idle")
  /\ UNCHANGED <<contract, task, told, api, pass, history, faults>>

\* A failing query, no Feishu client, or B's bot is unknown.
LeaveContract(r) ==
  /\ hook[r] \in {"list", "claim"}
  /\ hook' = [hook EXCEPT ![r] = "idle"]
  /\ Fault
  /\ UNCHANGED <<contract, task, told, api, pass, history>>

HookOutcome(r) == IF task[r] = "completed" THEN "woken" ELSE "cancelled"

ClaimByHook(r) ==
  /\ Deliver(hook, r, "claim", "post")
  /\ Claim(r, HookOutcome(r))
  /\ UNCHANGED <<task, told, api, pass, history, faults>>

ClaimLost(r) ==
  /\ status[r] # "waiting"
  /\ Deliver(hook, r, "claim", "idle")
  /\ UNCHANGED <<contract, task, told, api, pass, history, faults>>

PostByHook(r) ==
  /\ Deliver(hook, r, "post", "idle")
  /\ Tell(r, HookOutcome(r))
  /\ UNCHANGED <<contract, task, api, pass, history, faults>>

\* Mutant: a failed post is logged and the claim stands.
PostByHookFailsKept(r) ==
  /\ Deliver(hook, r, "post", "idle")
  /\ PostFails(r, HookOutcome(r))
  /\ UNCHANGED <<contract, task, api, pass>>

PostByHookFails(r) ==
  /\ Deliver(hook, r, "post", "revert")
  /\ PostFails(r, HookOutcome(r))
  /\ UNCHANGED <<contract, task, api, pass>>

RevertByHook(r) ==
  /\ Deliver(hook, r, "revert", "idle")
  /\ Revert(r, HookOutcome(r))
  /\ UNCHANGED <<task, told, api, pass, history, faults>>

RevertByHookFails(r) ==
  /\ Deliver(hook, r, "revert", "idle")
  /\ Fault
  /\ dropped' = dropped \cup {r}
  /\ UNCHANGED <<contract, task, told, api, pass, doubted>>

(***************************************************************************)
(* The reconciler (runWaitingContractReconcilerOnce); one pass at a time   *)
(***************************************************************************)
\* Mutant: only contracts without a primary task are stale.
BeginPassOrphansOnly ==
  LET orphans == {r \in Relays : status[r] = "waiting" /\ age[r] # "young" /\ r \notin bound}
  IN
  /\ pass.step = "idle"
  /\ orphans # {}
  /\ pass' = [step |-> "next", relay |-> NoRelay, orphans |-> orphans, overdue |-> {}]
  /\ UNCHANGED <<contract, task, told, api, hook, history, faults>>

\* listStaleWaitingContracts
BeginPass ==
  LET overdue == {r \in Relays : status[r] = "waiting" /\ age[r] = "overdue"}
      orphans == {r \in Relays : status[r] = "waiting" /\ age[r] = "old" /\ r \notin bound}
  IN
  /\ pass.step = "idle"
  /\ overdue \cup orphans # {}
  /\ pass' = [step |-> "next", relay |-> NoRelay, orphans |-> orphans, overdue |-> overdue]
  /\ UNCHANGED <<contract, task, told, api, hook, history, faults>>

\* The next contract of the snapshot.
Inspect(r) ==
  /\ pass.step = "next"
  /\ r \in pass.orphans \cup pass.overdue
  /\ pass' = [step |-> IF r \in pass.orphans THEN "find" ELSE "claim", relay |-> r,
              orphans |-> pass.orphans \ {r}, overdue |-> pass.overdue \ {r}]
  /\ UNCHANGED <<contract, task, told, api, hook, history, faults>>

Leave == pass' = [pass EXCEPT !.step = "next", !.relay = NoRelay]

\* findTaskById: a late primary rescues its contract.
LateBind ==
  /\ pass.step = "find" /\ task[pass.relay] # "absent"
  /\ Bind(pass.relay)
  /\ Leave
  /\ UNCHANGED <<task, told, api, hook, history, faults>>

NoPrimary ==
  /\ pass.step = "find" /\ task[pass.relay] = "absent"
  /\ pass' = [pass EXCEPT !.step = "claim"]
  /\ UNCHANGED <<contract, task, told, api, hook, history, faults>>

Expire ==
  /\ pass.step = "claim"
  /\ Claim(pass.relay, "expired")
  /\ pass' = [pass EXCEPT !.step = "post"]
  /\ UNCHANGED <<task, told, api, hook, history, faults>>

ExpireLost ==
  /\ pass.step = "claim" /\ status[pass.relay] # "waiting"
  /\ Leave
  /\ UNCHANGED <<contract, task, told, api, hook, history, faults>>

PostExpiry ==
  /\ pass.step = "post"
  /\ Tell(pass.relay, "expired")
  /\ Leave
  /\ UNCHANGED <<contract, task, api, hook, history, faults>>

PostExpiryFails ==
  /\ pass.step = "post"
  /\ PostFails(pass.relay, "expired")
  /\ pass' = [pass EXCEPT !.step = "revert"]
  /\ UNCHANGED <<contract, task, api, hook>>

RevertExpiry ==
  /\ pass.step = "revert"
  /\ Revert(pass.relay, "expired")
  /\ Leave
  /\ UNCHANGED <<task, told, api, hook, history, faults>>

EndPass ==
  /\ pass.step = "next" /\ pass.orphans \cup pass.overdue = {}
  /\ pass' = NoPass
  /\ UNCHANGED <<contract, task, told, api, hook, history, faults>>

\* A failing query ends the pass.
PassFails ==
  /\ pass.step \in {"find", "claim", "revert"}
  /\ Fault
  /\ dropped' = IF pass.step = "revert" THEN dropped \cup {pass.relay} ELSE dropped
  /\ pass' = NoPass
  /\ UNCHANGED <<contract, task, told, api, hook, doubted>>

\* A claim dies with the worker that was about to post or to revert.
WorkerCrashes ==
  /\ Fault
  /\ hook' = [r \in Relays |-> "idle"]
  /\ pass' = NoPass
  /\ dropped' = dropped
       \cup {r \in Relays : hook[r] \in {"post", "revert"}}
       \cup (IF pass.step \in {"post", "revert"} THEN {pass.relay} ELSE {})
  /\ UNCHANGED <<contract, task, told, api, doubted>>

(***************************************************************************)
(* The system                                                              *)
(***************************************************************************)
ApiTurn(r) ==
  \/ CreateByPrimary(r)
  \/ StartTask(r)
  \/ BindByPrimary(r)
  \/ CreateByDeferred(r)
  \/ BindByDeferred(r)
  \/ PostAck(r)
  \/ RecordAck(r)

ApiFault(r) ==
  \/ AbortPrimary(r)
  \/ StartTaskFails(r)
  \/ BindByPrimaryFails(r)
  \/ AbortDeferred(r)
  \/ BindByDeferredFails(r)
  \/ PostAckFails(r)

HookTurn(r) ==
  \/ ListContracts(r)
  \/ ClaimByHook(r)
  \/ ClaimLost(r)
  \/ PostByHook(r)
  \/ RevertByHook(r)

HookFault(r) ==
  \/ EndTaskSilently(r)
  \/ LeaveContract(r)
  \/ PostByHookFails(r)
  \/ RevertByHookFails(r)

PassTurn ==
  \/ BeginPass
  \/ \E r \in Relays : Inspect(r)
  \/ LateBind
  \/ NoPrimary
  \/ Expire
  \/ ExpireLost
  \/ PostExpiry
  \/ RevertExpiry
  \/ EndPass

Next ==
  \/ \E r \in Relays :
       \/ ReceivePrimary(r)
       \/ ReceiveDeferred(r)
       \/ ApiTurn(r)
       \/ ApiFault(r)
       \/ \E outcome \in {"completed", "failed"} : EndTask(r, outcome)
       \/ HookTurn(r)
       \/ HookFault(r)
       \/ Grow(r)
  \/ PassTurn
  \/ PostExpiryFails
  \/ PassFails
  \/ ApiCrashes
  \/ WorkerCrashes

Spec == Init /\ [][Next]_vars

\* The worker's event loop, the reconciler's timer and the clock.  Nobody owes a
\* delivery or the end of a task, and the API may stop half way.
Fairness ==
  /\ WF_vars(PassTurn)
  /\ \A r \in Relays : WF_vars(HookTurn(r)) /\ WF_vars(Grow(r))

FairSpec == Spec /\ Fairness

(***************************************************************************)
(* Properties                                                              *)
(***************************************************************************)
\* Every variable keeps its type, and a pass works on a contract.
TypeOK ==
  /\ status \in [Relays -> {"absent", "waiting"} \cup Outcome]
  /\ bound \subseteq Relays /\ acked \subseteq Relays
  /\ age \in [Relays -> {"young", "old", "overdue"}]
  /\ task \in [Relays -> {"absent", "running", "completed", "failed"}]
  /\ told \in [Relays -> SUBSET ({"ack"} \cup Outcome)]
  /\ primary \in [Relays -> {"idle", "create", "start", "bind", "done"}]
  /\ deferred \in [Relays -> {"idle", "create", "bind", "ack", "record", "done"}]
  /\ hook \in [Relays -> {"idle", "list", "claim", "post", "revert"}]
  /\ pass.step \in {"idle", "next", "find", "claim", "post", "revert"}
  /\ pass.relay \in Relays \cup {NoRelay}
  /\ pass.step \in {"idle", "next"} <=> pass.relay = NoRelay
  /\ {pass.orphans, pass.overdue} \subseteq SUBSET Relays
  /\ {dropped, doubted} \subseteq SUBSET Relays
  /\ faults \in 0..MaxFaults

\* The relay is never lost before it began (server.ts: the contract is a hard
\* precondition of the primary task): whatever fails between the two deliveries,
\* A's task only exists with a contract for B.
ContractBeforeTask ==
  \A r \in Relays : task[r] # "absent" => status[r] # "absent"

\* Who holds the claim of a contract and still owes its post.
Held(r) ==
  \/ hook[r] \in {"post", "revert"}
  \/ pass.relay = r /\ pass.step \in {"post", "revert"}

\* A contract that left "waiting" was announced: nobody claims it and keeps
\* silent, unless the process that claimed it died or could not undo the claim.
SettledIsTold ==
  \A r \in Relays :
    status[r] \in Outcome /\ ~Held(r) /\ r \notin dropped => status[r] \in told[r]

\* B is called, told of a failure, or told of an expiry, and never two of these,
\* although hook and reconciler claim, fail to post and revert in any order; only
\* a lost reply makes a post happen that its sender believes did not.
OneOutcome ==
  \A r \in Relays \ doubted :
    told[r] \cap Outcome \subseteq {status[r]}

\* waiting-contract-reconciler.ts: "Waiting contracts are never silently
\* abandoned".  Every contract is settled and announced in the end, whether A's
\* task ever started, hangs, failed without its hook or could not be announced.
NeverAbandoned ==
  \A r \in Relays :
    status[r] = "waiting" ~> r \in dropped \/ told[r] \cap Outcome # {}
=============================================================================
