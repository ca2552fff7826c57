------------------------- MODULE WaitingContractProofs -------------------------
(***************************************************************************)
(* Proofs about WaitingContract: its four safety invariants, for any       *)
(* number of relays and any bound on the faults.                           *)
(***************************************************************************)
EXTENDS WaitingContract, TLAPS

(***************************************************************************)
(* The inductive invariant                                                 *)
(***************************************************************************)
PassRecord ==
  pass \in [step : {"idle", "next", "find", "claim", "post", "revert"},
            relay : Relays \cup {NoRelay}, orphans : SUBSET Relays, overdue : SUBSET Relays]

\* A's delivery has the contract before it goes on to the task, and the hook
\* starts when the task has ended.
OriginInv ==
  \A r \in Relays :
    /\ primary[r] \in {"start", "bind", "done"} \/ task[r] # "absent" => status[r] # "absent"
    /\ hook[r] # "idle" => task[r] \in {"completed", "failed"}

\* Who has claimed the contract and not posted yet still owns it, and only a
\* lost reply makes it wrong about the post.
ClaimInv ==
  \A r \in Relays :
    /\ hook[r] \in {"post", "revert"} => status[r] = HookOutcome(r)
    /\ pass.relay = r /\ pass.step \in {"post", "revert"} => status[r] = "expired"
    /\ Held(r) /\ r \notin doubted => told[r] \cap Outcome = {}

IInv ==
  /\ TypeOK /\ PassRecord
  /\ OriginInv
  /\ ClaimInv
  /\ SettledIsTold
  /\ OneOutcome

LEMMA Initially == Init => IInv
BY WaitingContractAssumption
   DEF Init, IInv, TypeOK, PassRecord, NoPass, OriginInv, ClaimInv, Held, SettledIsTold,
       OneOutcome, Outcome

(***************************************************************************)
(* Types                                                                   *)
(***************************************************************************)
\* The API moves the deliveries of one relay and leaves the worker alone.
LEMMA ApiTypes ==
  ASSUME TypeOK, PassRecord, NEW r \in Relays,
         \/ ReceivePrimary(r) \/ ReceiveDeferred(r) \/ ApiTurn(r) \/ ApiFault(r) \/ ApiCrashes
  PROVE  TypeOK' /\ PassRecord'
<1> USE DEF TypeOK, PassRecord, Deliver, Create, Bind, Tell, Fault, Outcome, contract, api,
            history
<1>1. CASE ReceivePrimary(r)    BY <1>1 DEF ReceivePrimary
<1>2. CASE ReceiveDeferred(r)   BY <1>2 DEF ReceiveDeferred
<1>3. CASE CreateByPrimary(r)   BY <1>3 DEF CreateByPrimary
<1>4. CASE StartTask(r)         BY <1>4 DEF StartTask
<1>5. CASE BindByPrimary(r)     BY <1>5 DEF BindByPrimary
<1>6. CASE CreateByDeferred(r)  BY <1>6 DEF CreateByDeferred
<1>7. CASE BindByDeferred(r)    BY <1>7 DEF BindByDeferred
<1>8. CASE PostAck(r)           BY <1>8 DEF PostAck
<1>9. CASE RecordAck(r)         BY <1>9 DEF RecordAck
<1>10. CASE ApiFault(r)
  BY <1>10, WaitingContractAssumption
     DEF ApiFault, AbortPrimary, StartTaskFails, BindByPrimaryFails, AbortDeferred,
         BindByDeferredFails, PostAckFails
<1>11. CASE ApiCrashes          BY <1>11, WaitingContractAssumption DEF ApiCrashes
<1> QED
  BY <1>1, <1>2, <1>3, <1>4, <1>5, <1>6, <1>7, <1>8, <1>9, <1>10, <1>11 DEF ApiTurn

\* What the worker does when a task ends.
LEMMA HookTypes ==
  ASSUME TypeOK, PassRecord, NEW r \in Relays,
         \/ \E outcome \in {"completed", "failed"} : EndTask(r, outcome)
         \/ HookTurn(r) \/ HookFault(r) \/ Grow(r)
  PROVE  TypeOK' /\ PassRecord'
<1> USE DEF TypeOK, PassRecord, Deliver, Claim, Revert, Tell, Fault, Outcome, HookOutcome,
            contract, api, history
<1>1. CASE \E outcome \in {"completed", "failed"} : EndTask(r, outcome)
  BY <1>1 DEF EndTask
<1>2. CASE ListContracts(r)  BY <1>2 DEF ListContracts
<1>3. CASE ClaimByHook(r)    BY <1>3 DEF ClaimByHook
<1>4. CASE ClaimLost(r)      BY <1>4 DEF ClaimLost
<1>5. CASE PostByHook(r)     BY <1>5 DEF PostByHook
<1>6. CASE RevertByHook(r)   BY <1>6 DEF RevertByHook
<1>7. CASE HookFault(r)
  BY <1>7, WaitingContractAssumption
     DEF HookFault, EndTaskSilently, LeaveContract, PostByHookFails, PostFails,
         RevertByHookFails
<1>8. CASE Grow(r)           BY <1>8 DEF Grow
<1> QED  BY <1>1, <1>2, <1>3, <1>4, <1>5, <1>6, <1>7, <1>8 DEF HookTurn

LEMMA PassTypes ==
  ASSUME TypeOK, PassRecord, PassTurn \/ PostExpiryFails \/ PassFails \/ WorkerCrashes
  PROVE  TypeOK' /\ PassRecord'
<1> USE WaitingContractAssumption
    DEF TypeOK, PassRecord, NoPass, Leave, Claim, Revert, Bind, Tell, Fault, Outcome, contract,
        api, history
<1>0. pass.step \notin {"idle", "next"} => pass.relay \in Relays
  OBVIOUS
<1>1. CASE BeginPass         BY <1>1 DEF BeginPass
<1>2. CASE \E r \in Relays : Inspect(r)
  BY <1>2 DEF Inspect
<1>3. CASE LateBind          BY <1>0, <1>3 DEF LateBind
<1>4. CASE NoPrimary         BY <1>4 DEF NoPrimary
<1>5. CASE Expire            BY <1>0, <1>5 DEF Expire
<1>6. CASE ExpireLost        BY <1>6 DEF ExpireLost
<1>7. CASE PostExpiry        BY <1>0, <1>7 DEF PostExpiry
<1>8. CASE RevertExpiry      BY <1>0, <1>8 DEF RevertExpiry
<1>9. CASE EndPass           BY <1>9 DEF EndPass
<1>10. CASE PostExpiryFails  BY <1>0, <1>10 DEF PostExpiryFails, PostFails
<1>11. CASE PassFails        BY <1>0, <1>11 DEF PassFails
<1>12. CASE WorkerCrashes    BY <1>0, <1>12 DEF WorkerCrashes
<1> QED
  BY <1>1, <1>2, <1>3, <1>4, <1>5, <1>6, <1>7, <1>8, <1>9, <1>10, <1>11, <1>12 DEF PassTurn

(***************************************************************************)
(* The claim of a contract                                                 *)
(***************************************************************************)
ContractInv == OriginInv /\ ClaimInv /\ SettledIsTold /\ OneOutcome

\* The API creates a contract that is not there and tells no outcome.
LEMMA ApiKeepsClaims ==
  ASSUME TypeOK, ContractInv, NEW r \in Relays,
         \/ ReceivePrimary(r) \/ ReceiveDeferred(r) \/ ApiTurn(r) \/ ApiFault(r) \/ ApiCrashes
  PROVE  ContractInv'
<1> USE DEF TypeOK, ContractInv, OriginInv, ClaimInv, SettledIsTold, OneOutcome, Held,
            HookOutcome, Deliver, Create, Bind, Tell, Fault, Outcome, contract, api, history
<1>1. CASE ReceivePrimary(r)    BY <1>1 DEF ReceivePrimary
<1>2. CASE ReceiveDeferred(r)   BY <1>2 DEF ReceiveDeferred
<1>3. CASE CreateByPrimary(r)   BY <1>3 DEF CreateByPrimary
<1>4. CASE StartTask(r)         BY <1>4 DEF StartTask
<1>5. CASE BindByPrimary(r)     BY <1>5 DEF BindByPrimary
<1>6. CASE CreateByDeferred(r)  BY <1>6 DEF CreateByDeferred
<1>7. CASE BindByDeferred(r)    BY <1>7 DEF BindByDeferred
<1>8. CASE PostAck(r)           BY <1>8 DEF PostAck
<1>9. CASE RecordAck(r)         BY <1>9 DEF RecordAck
<1>10. CASE ApiFault(r)
  BY <1>10
     DEF ApiFault, AbortPrimary, StartTaskFails, BindByPrimaryFails, AbortDeferred,
         BindByDeferredFails, PostAckFails
<1>11. CASE ApiCrashes          BY <1>11 DEF ApiCrashes
<1> QED
  BY <1>1, <1>2, <1>3, <1>4, <1>5, <1>6, <1>7, <1>8, <1>9, <1>10, <1>11 DEF ApiTurn

\* A claim is won from "waiting", before which nothing was told.
LEMMA HookKeepsClaims ==
  ASSUME TypeOK, ContractInv, NEW r \in Relays,
         \/ \E outcome \in {"completed", "failed"} : EndTask(r, outcome)
         \/ HookTurn(r) \/ HookFault(r) \/ Grow(r)
  PROVE  ContractInv'
<1> USE DEF TypeOK, ContractInv, OriginInv, ClaimInv, SettledIsTold, OneOutcome, Held,
            HookOutcome, Deliver, Claim, Revert, Tell, Fault, Outcome, contract, api, history
<1>1. CASE \E outcome \in {"completed", "failed"} : EndTask(r, outcome)
  BY <1>1 DEF EndTask
<1>2. CASE ListContracts(r)      BY <1>2 DEF ListContracts
<1>3. CASE ClaimByHook(r)        BY <1>3 DEF ClaimByHook
<1>4. CASE ClaimLost(r)          BY <1>4 DEF ClaimLost
<1>5. CASE PostByHook(r)         BY <1>5 DEF PostByHook
<1>6. CASE RevertByHook(r)       BY <1>6 DEF RevertByHook
<1>7. CASE EndTaskSilently(r)    BY <1>7 DEF EndTaskSilently
<1>8. CASE LeaveContract(r)      BY <1>8 DEF LeaveContract
<1>9. CASE PostByHookFails(r)    BY <1>9 DEF PostByHookFails, PostFails
<1>10. CASE RevertByHookFails(r) BY <1>10 DEF RevertByHookFails
<1>11. CASE Grow(r)              BY <1>11 DEF Grow
<1> QED
  BY <1>1, <1>2, <1>3, <1>4, <1>5, <1>6, <1>7, <1>8, <1>9, <1>10, <1>11
     DEF HookTurn, HookFault

LEMMA PassKeepsClaims ==
  ASSUME TypeOK, PassRecord, ContractInv,
         PassTurn \/ PostExpiryFails \/ PassFails \/ WorkerCrashes
  PROVE  ContractInv'
<1> USE WaitingContractAssumption
    DEF TypeOK, PassRecord, ContractInv, OriginInv, ClaimInv, SettledIsTold, OneOutcome, Held,
        HookOutcome, NoPass, Leave, Claim, Revert, Bind, Tell, Fault, Outcome, contract, api,
        history
<1>0. pass.step \notin {"idle", "next"} => pass.relay \in Relays
  OBVIOUS
<1>1. CASE BeginPass         BY <1>1 DEF BeginPass
<1>2. CASE \E r \in Relays : Inspect(r)
  BY <1>2 DEF Inspect
<1>3. CASE LateBind          BY <1>0, <1>3 DEF LateBind
<1>4. CASE NoPrimary         BY <1>4 DEF NoPrimary
<1>5. CASE Expire            BY <1>0, <1>5 DEF Expire
<1>6. CASE ExpireLost        BY <1>6 DEF ExpireLost
<1>7. CASE PostExpiry        BY <1>0, <1>7 DEF PostExpiry
<1>8. CASE RevertExpiry      BY <1>0, <1>8 DEF RevertExpiry
<1>9. CASE EndPass           BY <1>9 DEF EndPass
<1>10. CASE PostExpiryFails  BY <1>0, <1>10 DEF PostExpiryFails, PostFails
<1>11. CASE PassFails        BY <1>0, <1>11 DEF PassFails
<1>12. CASE WorkerCrashes    BY <1>0, <1>12 DEF WorkerCrashes
<1> QED
  BY <1>1, <1>2, <1>3, <1>4, <1>5, <1>6, <1>7, <1>8, <1>9, <1>10, <1>11, <1>12 DEF PassTurn

(***************************************************************************)
(* Theorems                                                                *)
(***************************************************************************)
LEMMA Inductive == IInv /\ [Next]_vars => IInv'
<1> SUFFICES ASSUME IInv, [Next]_vars PROVE IInv'
  OBVIOUS
<1> USE DEF IInv, ContractInv
<1>1. ASSUME NEW r \in Relays,
             \/ ReceivePrimary(r) \/ ReceiveDeferred(r) \/ ApiTurn(r) \/ ApiFault(r)
             \/ ApiCrashes
      PROVE  IInv'
  BY <1>1, ApiTypes, ApiKeepsClaims
<1>2. ASSUME NEW r \in Relays,
             \/ \E outcome \in {"completed", "failed"} : EndTask(r, outcome)
             \/ HookTurn(r) \/ HookFault(r) \/ Grow(r)
      PROVE  IInv'
  BY <1>2, HookTypes, HookKeepsClaims
<1>3. CASE PassTurn \/ PostExpiryFails \/ PassFails \/ WorkerCrashes
  BY <1>3, PassTypes, PassKeepsClaims
<1>4. CASE ApiCrashes
  <2>1. CASE Relays = {}
    BY <1>4, <2>1, WaitingContractAssumption
       DEF ApiCrashes, Fault, TypeOK, PassRecord, OriginInv, ClaimInv, SettledIsTold,
           OneOutcome, contract, history
  <2> QED  BY <1>1, <1>4, <2>1
<1>5. CASE UNCHANGED vars
  BY <1>5 DEF vars, contract, api, history, TypeOK, PassRecord, OriginInv, ClaimInv,
              SettledIsTold, OneOutcome, Held, HookOutcome
<1> QED  BY <1>1, <1>2, <1>3, <1>4, <1>5 DEF Next

LEMMA Invariance == Spec => []IInv
<1>1. Init => IInv
  BY Initially
<1> QED  BY <1>1, Inductive, PTL DEF Spec

\* Every variable of WaitingContract keeps its type.
THEOREM TypeCorrect == Spec => []TypeOK
<1>1. IInv => TypeOK
  BY DEF IInv
<1> QED  BY <1>1, Invariance, PTL

\* A's task never exists without a contract for B (server.ts, the hard
\* precondition of the primary task).
THEOREM ContractFirst == Spec => []ContractBeforeTask
<1>1. IInv => ContractBeforeTask
  BY DEF IInv, OriginInv, ContractBeforeTask
<1> QED  BY <1>1, Invariance, PTL

\* A contract that was claimed is announced (handoff-delivery.ts and
\* waiting-contract-reconciler.ts: claim, post, revert).
THEOREM Announced == Spec => []SettledIsTold
<1>1. IInv => SettledIsTold
  BY DEF IInv
<1> QED  BY <1>1, Invariance, PTL

\* The chat is told one outcome of a contract and no other.
THEOREM ToldOnce == Spec => []OneOutcome
<1>1. IInv => OneOutcome
  BY DEF IInv
<1> QED  BY <1>1, Invariance, PTL

=============================================================================
