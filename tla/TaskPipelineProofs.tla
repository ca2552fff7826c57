-------------------------- MODULE TaskPipelineProofs --------------------------
(***************************************************************************)
(* Proofs about TaskPipeline, for any number of tasks, agents and sessions *)
(* and any limits and bounds:                                              *)
(*                                                                         *)
(*   TypeCorrect      the types (inductive: TypeInv)                       *)
(*   SlotsAccounted   the counters of the admission scheduler              *)
(*   WatchesEnd       the watchdog watches live turns (HoldsInv, CountsInv)*)
(*   Refinement       the statuses implement TaskLifecycle, unless replies *)
(*                    are lost and the worker stops (WritesInv)            *)
(*   RuntimesAccountedFor                                                  *)
(*                    nothing executes for a task that was given up        *)
(*                    (AccountInv)                                         *)
(*   NobodyStranded   somebody carries every unfinished task on (KeptInv)  *)
(*                                                                         *)
(* Every step lemma has one step per action; the moves of `at`, which all  *)
(* actions share, are in the lemmas of the first section.                  *)
(***************************************************************************)
EXTENDS TaskPipeline, FiniteSetTheorems, TLAPS

(***************************************************************************)
(* Moves                                                                   *)
(***************************************************************************)

\* The steps inside transitionTask, spelled out for the provers,
LEMMA TargetSteps ==
  DOMAIN Target = {"queueing", "requeueing", "compensating", "toRunning", "toConfirm",
                   "asking", "succeeding", "conceding", "failing", "overruling",
                   "confirming", "rejecting"}
BY DEF Target

\* and so the statuses of tasks.status.
LEMMA Statuses ==
  Status = {"absent", "pending", "queued", "running", "waiting_approval",
            "waiting_delegation", "completed", "failed", "cancelled"}
BY DEF Status, Lifecycle!Status, Lifecycle!Successors

\* What transitionTask writes follows what it read.
SeenInv ==
  \A w \in Writers, t \in Tasks :
    seen[w][t] # NoStatus => Lifecycle!CanTransition(seen[w][t], Target[at[w][t]])

\* A party that moves with one task moves nowhere else.
LEMMA GotoMoves ==
  ASSUME StepsTypeOK, NEW w \in Writers, NEW t \in Tasks, NEW step \in Step,
         Goto(w, t, step)
  PROVE  /\ at' \in [Writers -> [Tasks -> Step]]
         /\ \A v \in Writers, u \in Tasks :
              at'[v][u] = IF v = w /\ u = t THEN step ELSE at[v][u]
<1>1. at \in [Writers -> [Tasks -> Step]]
  BY DEF StepsTypeOK
<1>2. at' = [at EXCEPT ![w] = [at[w] EXCEPT ![t] = step]]
  BY <1>1 DEF Goto
<1>3. at[w] \in [Tasks -> Step]
  BY <1>1
<1>4. [at[w] EXCEPT ![t] = step] \in [Tasks -> Step]
  BY <1>3
<1> QED  BY <1>1, <1>2, <1>3, <1>4

\* So each party's moves, as its own steps.
LEMMA ApiMoves ==
  ASSUME StepsTypeOK, NEW t \in Tasks, NEW step \in ApiStep, Goto("api", t, step)
  PROVE  /\ StepsTypeOK'
         /\ \A u \in Tasks :
              /\ Api(u)' = IF u = t THEN step ELSE Api(u)
              /\ Handler(u)' = Handler(u)
              /\ Watchdog(u)' = Watchdog(u)
              /\ Form(u)' = Form(u)
         /\ CasTypeOK /\ Api(t) \notin DOMAIN Target /\ UNCHANGED casVars
              => CasTypeOK' /\ (SeenInv => SeenInv')
<1>1. step \in Step /\ "api" \in Writers /\ Goto("api", t, step)
  BY DEF Step, Writers
<1>2. /\ at' \in [Writers -> [Tasks -> Step]]
      /\ \A v \in Writers, u \in Tasks :
           at'[v][u] = IF v = "api" /\ u = t THEN step ELSE at[v][u]
  BY <1>1, GotoMoves
<1>3. \A u \in Tasks :
        /\ Api(u)' = IF u = t THEN step ELSE Api(u)
        /\ Handler(u)' = Handler(u)
        /\ Watchdog(u)' = Watchdog(u)
        /\ Form(u)' = Form(u)
  BY <1>2 DEF Handler, Api, Watchdog, Form, Writers
<1>4. StepsTypeOK'
  BY <1>2, <1>3 DEF StepsTypeOK
<1>5. CasTypeOK /\ Api(t) \notin DOMAIN Target /\ UNCHANGED casVars
              => CasTypeOK' /\ (SeenInv => SeenInv')
  BY <1>1, <1>2, TargetSteps DEF CasTypeOK, SeenInv, casVars, passes, Api,
                                 Transitioning
<1> QED  BY <1>3, <1>4, <1>5

\* The same for the handler,
LEMMA TurnMoves ==
  ASSUME StepsTypeOK, NEW t \in Tasks, NEW step \in HandlerStep, Turn(t, step)
  PROVE  /\ StepsTypeOK'
         /\ \A u \in Tasks :
              /\ Handler(u)' = IF u = t THEN step ELSE Handler(u)
              /\ Api(u)' = Api(u)
              /\ Watchdog(u)' = Watchdog(u)
              /\ Form(u)' = Form(u)
         /\ CasTypeOK /\ Handler(t) \notin DOMAIN Target /\ UNCHANGED casVars
              => CasTypeOK' /\ (SeenInv => SeenInv')
<1>1. step \in Step /\ "handler" \in Writers /\ Goto("handler", t, step)
  BY DEF Step, Writers, Turn
<1>2. /\ at' \in [Writers -> [Tasks -> Step]]
      /\ \A v \in Writers, u \in Tasks :
           at'[v][u] = IF v = "handler" /\ u = t THEN step ELSE at[v][u]
  BY <1>1, GotoMoves
<1>3. \A u \in Tasks :
        /\ Handler(u)' = IF u = t THEN step ELSE Handler(u)
        /\ Api(u)' = Api(u)
        /\ Watchdog(u)' = Watchdog(u)
        /\ Form(u)' = Form(u)
  BY <1>2 DEF Handler, Api, Watchdog, Form, Writers
<1>4. StepsTypeOK'
  BY <1>2, <1>3 DEF StepsTypeOK
<1>5. CasTypeOK /\ Handler(t) \notin DOMAIN Target /\ UNCHANGED casVars
              => CasTypeOK' /\ (SeenInv => SeenInv')
  BY <1>1, <1>2, TargetSteps DEF CasTypeOK, SeenInv, casVars, passes, Handler,
                                 Transitioning
<1> QED  BY <1>3, <1>4, <1>5

\* the watchdog,
LEMMA WatchdogMoves ==
  ASSUME StepsTypeOK, NEW t \in Tasks, NEW step \in WatchdogStep, Goto("watchdog", t, step)
  PROVE  /\ StepsTypeOK'
         /\ \A u \in Tasks :
              /\ Watchdog(u)' = IF u = t THEN step ELSE Watchdog(u)
              /\ Api(u)' = Api(u)
              /\ Handler(u)' = Handler(u)
              /\ Form(u)' = Form(u)
         /\ CasTypeOK /\ Watchdog(t) \notin DOMAIN Target /\ UNCHANGED casVars
              => CasTypeOK' /\ (SeenInv => SeenInv')
<1>1. step \in Step /\ "watchdog" \in Writers /\ Goto("watchdog", t, step)
  BY DEF Step, Writers
<1>2. /\ at' \in [Writers -> [Tasks -> Step]]
      /\ \A v \in Writers, u \in Tasks :
           at'[v][u] = IF v = "watchdog" /\ u = t THEN step ELSE at[v][u]
  BY <1>1, GotoMoves
<1>3. \A u \in Tasks :
        /\ Watchdog(u)' = IF u = t THEN step ELSE Watchdog(u)
        /\ Api(u)' = Api(u)
        /\ Handler(u)' = Handler(u)
        /\ Form(u)' = Form(u)
  BY <1>2 DEF Handler, Api, Watchdog, Form, Writers
<1>4. StepsTypeOK'
  BY <1>2, <1>3 DEF StepsTypeOK
<1>5. CasTypeOK /\ Watchdog(t) \notin DOMAIN Target /\ UNCHANGED casVars
              => CasTypeOK' /\ (SeenInv => SeenInv')
  BY <1>1, <1>2, TargetSteps DEF CasTypeOK, SeenInv, casVars, passes, Watchdog,
                                 Transitioning
<1> QED  BY <1>3, <1>4, <1>5

\* and the work-directory card.
LEMMA FormMoves ==
  ASSUME StepsTypeOK, NEW t \in Tasks, NEW step \in FormStep, Goto("form", t, step)
  PROVE  /\ StepsTypeOK'
         /\ \A u \in Tasks :
              /\ Form(u)' = IF u = t THEN step ELSE Form(u)
              /\ Api(u)' = Api(u)
              /\ Handler(u)' = Handler(u)
              /\ Watchdog(u)' = Watchdog(u)
         /\ CasTypeOK /\ Form(t) \notin DOMAIN Target /\ UNCHANGED casVars
              => CasTypeOK' /\ (SeenInv => SeenInv')
<1>1. step \in Step /\ "form" \in Writers /\ Goto("form", t, step)
  BY DEF Step, Writers
<1>2. /\ at' \in [Writers -> [Tasks -> Step]]
      /\ \A v \in Writers, u \in Tasks :
           at'[v][u] = IF v = "form" /\ u = t THEN step ELSE at[v][u]
  BY <1>1, GotoMoves
<1>3. \A u \in Tasks :
        /\ Form(u)' = IF u = t THEN step ELSE Form(u)
        /\ Api(u)' = Api(u)
        /\ Handler(u)' = Handler(u)
        /\ Watchdog(u)' = Watchdog(u)
  BY <1>2 DEF Handler, Api, Watchdog, Form, Writers
<1>4. StepsTypeOK'
  BY <1>2, <1>3 DEF StepsTypeOK
<1>5. CasTypeOK /\ Form(t) \notin DOMAIN Target /\ UNCHANGED casVars
              => CasTypeOK' /\ (SeenInv => SeenInv')
  BY <1>1, <1>2, TargetSteps DEF CasTypeOK, SeenInv, casVars, passes, Form,
                                 Transitioning
<1> QED  BY <1>3, <1>4, <1>5

\* The parties keep where they are, and so does what they are writing.
LEMMA StepsKept ==
  ASSUME UNCHANGED at
  PROVE  /\ StepsTypeOK => StepsTypeOK'
         /\ \A u \in Tasks :
              /\ Handler(u)' = Handler(u) /\ Api(u)' = Api(u)
              /\ Watchdog(u)' = Watchdog(u) /\ Form(u)' = Form(u)
         /\ CasTypeOK /\ UNCHANGED casVars
              => CasTypeOK' /\ (SeenInv => SeenInv')
BY DEF StepsTypeOK, CasTypeOK, SeenInv, casVars, passes, Handler, Api, Watchdog,
       Form, Transitioning

\* Where transitionTask returns to is a step of the same party.
LEMMA Continuations ==
  ASSUME NEW step \in DOMAIN Target, NEW continuation \in {Committed, Refused, Errored}
  PROVE  /\ step \in ApiStep => continuation[step] \in ApiStep
         /\ step \in HandlerStep => continuation[step] \in HandlerStep
         /\ step \in WatchdogStep => continuation[step] \in WatchdogStep
         /\ step \in FormStep => continuation[step] \in FormStep
BY TargetSteps DEF Committed, Refused, Errored, ApiStep, LarkStep, SlackStep, HandlerStep,
                   Admitted, WatchdogStep, FormStep

\* The end of transitionTask moves its own party, which forgets what it read.
LEMMA LeaveMoves ==
  ASSUME StepsTypeOK, CasTypeOK, NEW w \in Writers, NEW t \in Tasks,
         NEW continuation \in {Committed, Refused, Errored},
         Transitioning(w, t), LeaveTransition(w, t, continuation)
  PROVE  /\ StepsTypeOK' /\ CasTypeOK'
         /\ at[w][t] \in DOMAIN Target
         /\ \A v \in Writers, u \in Tasks :
              /\ at'[v][u] = IF v = w /\ u = t THEN continuation[at[w][t]] ELSE at[v][u]
              /\ seen'[v][u] = IF v = w /\ u = t THEN NoStatus ELSE seen[v][u]
<1>1. at[w][t] \in DOMAIN Target
  BY DEF Transitioning
<1>2. /\ w = "api" => at[w][t] \in ApiStep
      /\ w = "handler" => at[w][t] \in HandlerStep
      /\ w = "watchdog" => at[w][t] \in WatchdogStep
      /\ w = "form" => at[w][t] \in FormStep
  BY DEF StepsTypeOK, Api, Handler, Watchdog, Form
<1>3. Goto(w, t, continuation[at[w][t]])
  BY DEF LeaveTransition
<1>4. continuation[at[w][t]] \in Step
  BY <1>1, <1>2, Continuations DEF Step, Writers
<1>5. /\ at' \in [Writers -> [Tasks -> Step]]
      /\ \A v \in Writers, u \in Tasks :
           at'[v][u] = IF v = w /\ u = t THEN continuation[at[w][t]] ELSE at[v][u]
  BY <1>3, <1>4, GotoMoves
<1>6. StepsTypeOK'
  BY <1>1, <1>2, <1>5, Continuations
     DEF StepsTypeOK, Api, Handler, Watchdog, Form, Writers
<1>7. /\ seen \in [Writers -> [Tasks -> Status \cup {NoStatus}]]
      /\ tries \in [Writers -> [Tasks -> 0..MaxTransitionAttempts]]
  BY DEF CasTypeOK
<1>8. /\ seen' \in [Writers -> [Tasks -> Status \cup {NoStatus}]]
      /\ \A v \in Writers, u \in Tasks :
           seen'[v][u] = IF v = w /\ u = t THEN NoStatus ELSE seen[v][u]
  BY <1>7 DEF LeaveTransition
<1>9. 0 \in 0..MaxTransitionAttempts
  BY ConstantsAssumption
<1>10. tries' \in [Writers -> [Tasks -> 0..MaxTransitionAttempts]]
  BY <1>7, <1>9 DEF LeaveTransition
<1>11. CasTypeOK'
  BY <1>5, <1>8, <1>10 DEF CasTypeOK, Transitioning
<1> QED  BY <1>1, <1>5, <1>6, <1>8, <1>11

\* A process that ends forgets its handlers and its watchdog, and nothing else.
LEMMA ForgetMoves ==
  ASSUME StepsTypeOK, CasTypeOK, ForgetAll
  PROVE  /\ StepsTypeOK' /\ CasTypeOK'
         /\ \A u \in Tasks :
              /\ Handler(u)' = "idle" /\ Watchdog(u)' = "idle"
              /\ Api(u)' = Api(u) /\ Form(u)' = Form(u)
         /\ SeenInv => SeenInv'
<1>1. /\ at' \in [Writers -> [Tasks -> Step]]
      /\ at'["handler"] = Idle /\ at'["watchdog"] = Idle
      /\ at'["api"] = at["api"] /\ at'["form"] = at["form"]
  BY DEF ForgetAll, StepsTypeOK, Writers, Idle, Step, WatchdogStep
<1>2. \A u \in Tasks :
        /\ Handler(u)' = "idle" /\ Watchdog(u)' = "idle"
        /\ Api(u)' = Api(u) /\ Form(u)' = Form(u)
  BY <1>1 DEF Handler, Watchdog, Api, Form, Idle
<1>3. StepsTypeOK'
  BY <1>1, <1>2 DEF StepsTypeOK, HandlerStep, WatchdogStep
<1>4. \A w \in Writers :
        seen'[w] = IF w \in {"handler", "watchdog"} THEN [t \in Tasks |-> NoStatus]
                   ELSE seen[w]
  BY DEF ForgetAll
<1>5. /\ seen' \in [Writers -> [Tasks -> Status \cup {NoStatus}]]
      /\ tries' \in [Writers -> [Tasks -> 0..MaxTransitionAttempts]]
  BY ConstantsAssumption DEF ForgetAll, CasTypeOK
<1>6. CasTypeOK'
  BY <1>1, <1>4, <1>5 DEF CasTypeOK, Transitioning, Writers
<1>7. SeenInv => SeenInv'
  BY <1>1, <1>4 DEF SeenInv, Writers
<1> QED  BY <1>2, <1>3, <1>6, <1>7

(***************************************************************************)
(* Types.  That a task which was not created is nobody's business yet makes *)
(* them inductive.                                                         *)
(***************************************************************************)
\* A task without a row is nobody's.
Unborn == \A t \in Tasks : status[t] = "absent" => Api(t) = "idle"

TypeInv == TypeOK /\ Unborn

\* transitionTask, or a call of it that fails.
TransitionAction(w, t) == TransitionTask(w, t) \/ FailTransition(w, t)

\* transitionTask leaves everything else of the worker and of the queue alone.
LEMMA TransitionKeeps ==
  ASSUME NEW w \in Writers, NEW t \in Tasks, TransitionAction(w, t)
  PROVE  UNCHANGED <<job, rows, lease, slots, guards, passes, restart, stops, redeliveries>>
BY DEF TransitionAction, TransitionTask, ReadStatus, RefuseTransition,
       CommitTransition, RetryTransition, GiveUpTransition, FailTransition,
       LeaveTransition, Fault, postgres, passes, bounds

\* What it does: nothing visible, one more read or attempt, or the end.
LEMMA TransitionCases ==
  ASSUME TypeOK, NEW w \in Writers, NEW t \in Tasks, TransitionAction(w, t)
  PROVE  /\ StepsTypeOK' /\ CasTypeOK'
         /\ at[w][t] \in DOMAIN Target
         /\ \A v \in Writers, u \in Tasks :
              v # w \/ u # t => at'[v][u] = at[v][u] /\ seen'[v][u] = seen[v][u]
         /\ \/ /\ at'[w][t] = at[w][t]
               /\ UNCHANGED status
               /\ \/ seen'[w][t] = NoStatus
                  \/ /\ seen'[w][t] = status[t]
                     /\ Lifecycle!CanTransition(status[t], Target[at[w][t]])
            \/ /\ at'[w][t] \in {Refused[at[w][t]], Errored[at[w][t]]}
               /\ seen'[w][t] = NoStatus
               /\ UNCHANGED status
            \/ /\ at'[w][t] = Committed[at[w][t]]
               /\ seen'[w][t] = NoStatus
               /\ seen[w][t] = status[t]
               /\ status' = [status EXCEPT ![t] = Target[at[w][t]]]
<1> DEFINE Others == \A v \in Writers, u \in Tasks :
             v # w \/ u # t => at'[v][u] = at[v][u] /\ seen'[v][u] = seen[v][u]
<1>1. StepsTypeOK /\ CasTypeOK
  BY DEF TypeOK
<1>2. /\ seen \in [Writers -> [Tasks -> Status \cup {NoStatus}]]
      /\ tries \in [Writers -> [Tasks -> 0..MaxTransitionAttempts]]
      /\ status \in [Tasks -> Status]
  BY DEF TypeOK, CasTypeOK, PostgresTypeOK
<1>3. at[w][t] \in DOMAIN Target
  BY DEF TransitionAction, TransitionTask, ReadStatus, RefuseTransition, CommitTransition,
         RetryTransition, GiveUpTransition, FailTransition, Transitioning
<1>4. CASE ReadStatus(w, t)
  <2>1. /\ UNCHANGED <<at, tries, status>>
        /\ seen' = [seen EXCEPT ![w][t] = status[t]]
        /\ Lifecycle!CanTransition(status[t], Target[at[w][t]])
    BY <1>4 DEF ReadStatus, postgres, passes
  <2>2. /\ seen' \in [Writers -> [Tasks -> Status \cup {NoStatus}]]
        /\ \A v \in Writers, u \in Tasks :
             seen'[v][u] = IF v = w /\ u = t THEN status[t] ELSE seen[v][u]
    BY <1>2, <2>1
  <2>3. StepsTypeOK' /\ CasTypeOK'
    BY <1>1, <1>3, <2>1, <2>2, StepsKept DEF CasTypeOK, Transitioning
  <2> QED  BY <1>3, <2>1, <2>2, <2>3
<1>5. CASE RetryTransition(w, t)
  <2>1. /\ UNCHANGED <<at, status>>
        /\ seen' = [seen EXCEPT ![w][t] = NoStatus]
        /\ tries' = [tries EXCEPT ![w][t] = @ + 1]
        /\ tries[w][t] + 1 < MaxTransitionAttempts
    BY <1>5 DEF RetryTransition, postgres, passes
  <2>2. /\ seen' \in [Writers -> [Tasks -> Status \cup {NoStatus}]]
        /\ \A v \in Writers, u \in Tasks :
             seen'[v][u] = IF v = w /\ u = t THEN NoStatus ELSE seen[v][u]
    BY <1>2, <2>1
  <2>3. tries[w][t] + 1 \in 0..MaxTransitionAttempts
    BY <1>2, <2>1, ConstantsAssumption
  <2>4. tries' \in [Writers -> [Tasks -> 0..MaxTransitionAttempts]]
    BY <1>2, <2>1, <2>3
  <2>5. StepsTypeOK' /\ CasTypeOK'
    BY <1>1, <2>1, <2>2, <2>4, StepsKept DEF CasTypeOK, Transitioning
  <2> QED  BY <1>3, <2>1, <2>2, <2>5
<1>6. CASE CommitTransition(w, t)
  <2>1. LeaveTransition(w, t, Committed) /\ Transitioning(w, t)
    BY <1>6 DEF CommitTransition
  <2>2. seen[w][t] = status[t] /\ status' = [status EXCEPT ![t] = Target[at[w][t]]]
    BY <1>6 DEF CommitTransition
  <2> QED  BY <1>1, <1>3, <2>1, <2>2, LeaveMoves
<1>7. CASE RefuseTransition(w, t)
  <2>1. LeaveTransition(w, t, Refused) /\ Transitioning(w, t) /\ UNCHANGED status
    BY <1>7 DEF RefuseTransition
  <2> QED  BY <1>1, <1>3, <2>1, LeaveMoves
<1>8. CASE GiveUpTransition(w, t) \/ FailTransition(w, t)
  <2>1. LeaveTransition(w, t, Errored) /\ Transitioning(w, t) /\ UNCHANGED status
    BY <1>8 DEF GiveUpTransition, FailTransition
  <2> QED  BY <1>1, <1>3, <2>1, LeaveMoves
<1> QED  BY <1>4, <1>5, <1>6, <1>7, <1>8 DEF TransitionAction, TransitionTask

\* transitionTask keeps the types, and never makes a task absent.
LEMMA TransitionTypes ==
  ASSUME TypeInv, NEW w \in Writers, NEW t \in Tasks, TransitionAction(w, t)
  PROVE  TypeInv'
<1>1. /\ StepsTypeOK' /\ CasTypeOK'
      /\ at[w][t] \in DOMAIN Target
      /\ \A v \in Writers, u \in Tasks : v # w \/ u # t => at'[v][u] = at[v][u]
      /\ \/ UNCHANGED status
         \/ status' = [status EXCEPT ![t] = Target[at[w][t]]]
  BY TransitionCases DEF TypeInv
<1>2. UNCHANGED <<job, rows, lease, slots, guards, passes, restart, stops, redeliveries>>
  BY TransitionKeeps
<1>3. \A step \in DOMAIN Target : Target[step] \in Status \ {"absent"}
  BY Statuses, TargetSteps DEF Target
<1>4. status' \in [Tasks -> Status]
  BY <1>1, <1>3 DEF TypeInv, TypeOK, PostgresTypeOK
<1>5. faults' \in 0..MaxFaults
  BY ConstantsAssumption
     DEF TransitionAction, TransitionTask, ReadStatus, RefuseTransition,
         CommitTransition, RetryTransition, GiveUpTransition, FailTransition, Fault,
         passes, bounds, TypeInv, TypeOK, BoundsTypeOK
<1>6. TypeOK'
  BY <1>1, <1>2, <1>4, <1>5
     DEF TypeInv, TypeOK, PostgresTypeOK, WorkerTypeOK, BoundsTypeOK, slots, guards,
         passes, restart
<1>7. \A u \in Tasks : status'[u] = "absent" => status[u] = "absent" /\ Api(u)' = Api(u)
  BY <1>1, <1>3, TargetSteps DEF TypeInv, TypeOK, PostgresTypeOK, Unborn, Api, Writers
<1> QED  BY <1>6, <1>7 DEF TypeInv, Unborn

\* So does every other action.
LEMMA TypeStep ==
  ASSUME TypeInv, [Next]_vars
  PROVE  TypeInv'
<1>1. ASSUME NEW t \in Tasks, CreateTask(t)
      PROVE  TypeInv'
  BY <1>1, TargetSteps, Statuses, ConstantsAssumption, ApiMoves
     DEF CreateTask, ApiStep, LarkStep, SlackStep, casVars, slots, guards, passes,
         restart, bounds, TypeInv, TypeOK, Unborn, PostgresTypeOK, WorkerTypeOK,
         BoundsTypeOK
<1>2. ASSUME NEW t \in Tasks, ApiEnqueues(t)
      PROVE  TypeInv'
  BY <1>2, TargetSteps, Statuses, ConstantsAssumption, ApiMoves
     DEF ApiEnqueues, ApiStep, LarkStep, SlackStep, Enqueue, CanEnqueue, casVars,
         slots, guards, passes, restart, bounds, TypeInv, TypeOK, Unborn,
         PostgresTypeOK, WorkerTypeOK, BoundsTypeOK
<1>3. ASSUME NEW t \in Tasks, ApiEnqueueThrows(t)
      PROVE  TypeInv'
  BY <1>3, TargetSteps, Statuses, ConstantsAssumption, ApiMoves
     DEF ApiEnqueueThrows, ApiStep, LarkStep, SlackStep, EnqueueThrows, CanEnqueue,
         bounds, Fault, Enqueue, casVars, slots, guards, passes, restart, TypeInv,
         TypeOK, Unborn, PostgresTypeOK, WorkerTypeOK, BoundsTypeOK
<1>4. ASSUME NEW t \in Tasks, Redeliver(t)
      PROVE  TypeInv'
  BY <1>4, TargetSteps, Statuses, ConstantsAssumption, ApiMoves
     DEF Redeliver, ApiStep, LarkStep, SlackStep, postgres, casVars, slots, guards,
         passes, restart, TypeInv, TypeOK, Unborn, PostgresTypeOK, WorkerTypeOK,
         BoundsTypeOK
<1>5. ASSUME NEW t \in Tasks, NEW action \in {"confirming", "rejecting"}, FormClicked(t, action)
      PROVE  TypeInv'
  BY <1>5, TargetSteps, Statuses, ConstantsAssumption, FormMoves
     DEF FormClicked, FormStep, postgres, casVars, slots, guards, passes, restart,
         bounds, TypeInv, TypeOK, Unborn, PostgresTypeOK, WorkerTypeOK, BoundsTypeOK
<1>6. ASSUME NEW t \in Tasks, FetchJob(t)
      PROVE  TypeInv'
  BY <1>6, TargetSteps, Statuses, ConstantsAssumption, TurnMoves
     DEF FetchJob, HandlerStep, Admitted, Busy, casVars, slots, guards, passes,
         restart, bounds, TypeInv, TypeOK, Unborn, PostgresTypeOK, WorkerTypeOK,
         BoundsTypeOK
<1>7. ASSUME NEW t \in Tasks, CheckQueued(t)
      PROVE  TypeInv'
  BY <1>7, TargetSteps, Statuses, ConstantsAssumption, TurnMoves
     DEF CheckQueued, HandlerStep, Admitted, postgres, casVars, slots, guards,
         passes, restart, bounds, TypeInv, TypeOK, Unborn, PostgresTypeOK,
         WorkerTypeOK, BoundsTypeOK
<1>8. ASSUME NEW t \in Tasks, OverBudget(t)
      PROVE  TypeInv'
  BY <1>8, TargetSteps, Statuses, ConstantsAssumption, TurnMoves
     DEF OverBudget, HandlerStep, Admitted, casVars, slots, guards, passes, restart,
         bounds, TypeInv, TypeOK, Unborn, PostgresTypeOK, WorkerTypeOK, BoundsTypeOK
<1>9. ASSUME NEW t \in Tasks, Admit(t)
      PROVE  TypeInv'
  BY <1>9, TargetSteps, Statuses, ConstantsAssumption, TurnMoves
     DEF Admit, HandlerStep, Admitted, postgres, casVars, guards, passes, restart,
         bounds, TypeInv, TypeOK, Unborn, PostgresTypeOK, WorkerTypeOK, BoundsTypeOK
<1>10. ASSUME NEW t \in Tasks, Deny(t)
      PROVE  TypeInv'
  BY <1>10, TargetSteps, Statuses, ConstantsAssumption, TurnMoves
     DEF Deny, HandlerStep, Admitted, postgres, casVars, slots, guards, passes,
         restart, bounds, TypeInv, TypeOK, Unborn, PostgresTypeOK, WorkerTypeOK,
         BoundsTypeOK
<1>11. ASSUME NEW t \in Tasks, DeferTask(t)
      PROVE  TypeInv'
  BY <1>11, TargetSteps, Statuses, ConstantsAssumption, TurnMoves
     DEF DeferTask, HandlerStep, Admitted, casVars, slots, guards, passes, restart,
         bounds, TypeInv, TypeOK, Unborn, PostgresTypeOK, WorkerTypeOK, BoundsTypeOK
<1>12. ASSUME NEW t \in Tasks, BeginTurn(t)
      PROVE  TypeInv'
  BY <1>12, TargetSteps, Statuses, ConstantsAssumption, TurnMoves
     DEF BeginTurn, HandlerStep, Admitted, casVars, slots, passes, restart, bounds,
         TypeInv, TypeOK, Unborn, PostgresTypeOK, WorkerTypeOK, BoundsTypeOK
<1>13. ASSUME NEW t \in Tasks, StartRuntime(t)
      PROVE  TypeInv'
  BY <1>13, TargetSteps, Statuses, ConstantsAssumption, TurnMoves
     DEF StartRuntime, HandlerStep, Admitted, postgres, casVars, guards, passes,
         restart, bounds, TypeInv, TypeOK, Unborn, PostgresTypeOK, WorkerTypeOK,
         BoundsTypeOK
<1>14. ASSUME NEW t \in Tasks, EndRuntime(t)
      PROVE  TypeInv'
  BY <1>14, TargetSteps, Statuses, ConstantsAssumption, TurnMoves
     DEF EndRuntime, HandlerStep, Admitted, postgres, casVars, slots, guards,
         passes, restart, bounds, TypeInv, TypeOK, Unborn, PostgresTypeOK,
         WorkerTypeOK, BoundsTypeOK
<1>15. ASSUME NEW t \in Tasks, WrapUp(t)
      PROVE  TypeInv'
  BY <1>15, TargetSteps, Statuses, ConstantsAssumption, TurnMoves
     DEF WrapUp, HandlerStep, Admitted, postgres, casVars, slots, guards, passes,
         restart, bounds, TypeInv, TypeOK, Unborn, PostgresTypeOK, WorkerTypeOK,
         BoundsTypeOK
<1>16. ASSUME NEW t \in Tasks, FenceStops(t)
      PROVE  TypeInv'
  BY <1>16, TargetSteps, Statuses, ConstantsAssumption, TurnMoves
     DEF FenceStops, HandlerStep, Admitted, postgres, casVars, slots, guards,
         passes, restart, bounds, TypeInv, TypeOK, Unborn, PostgresTypeOK,
         WorkerTypeOK, BoundsTypeOK
<1>17. ASSUME NEW t \in Tasks, Report(t)
      PROVE  TypeInv'
  BY <1>17, TargetSteps, Statuses, ConstantsAssumption, TurnMoves
     DEF Report, HandlerStep, Admitted, postgres, casVars, slots, guards, passes,
         restart, bounds, TypeInv, TypeOK, Unborn, PostgresTypeOK, WorkerTypeOK,
         BoundsTypeOK
<1>18. ASSUME NEW t \in Tasks, HandlerThrows(t)
      PROVE  TypeInv'
  BY <1>18, TargetSteps, Statuses, ConstantsAssumption, TurnMoves
     DEF HandlerThrows, HandlerStep, Admitted, Fault, postgres, casVars, slots,
         guards, passes, restart, TypeInv, TypeOK, Unborn, PostgresTypeOK,
         WorkerTypeOK, BoundsTypeOK
<1>19. ASSUME NEW t \in Tasks, FinallyBlock(t)
      PROVE  TypeInv'
  BY <1>19, TargetSteps, Statuses, ConstantsAssumption, TurnMoves
     DEF FinallyBlock, HandlerStep, Admitted, postgres, casVars, passes, restart,
         bounds, TypeInv, TypeOK, Unborn, PostgresTypeOK, WorkerTypeOK, BoundsTypeOK
<1>20. ASSUME NEW t \in Tasks, EndJob(t)
      PROVE  TypeInv'
  BY <1>20, TargetSteps, Statuses, ConstantsAssumption, TurnMoves
     DEF EndJob, HandlerStep, Admitted, casVars, slots, guards, passes, restart,
         bounds, TypeInv, TypeOK, Unborn, PostgresTypeOK, WorkerTypeOK, BoundsTypeOK
<1>21. ASSUME NEW t \in Tasks, EndJobUnrecorded(t)
      PROVE  TypeInv'
  BY <1>21, TargetSteps, Statuses, ConstantsAssumption, TurnMoves
     DEF EndJobUnrecorded, HandlerStep, Admitted, Fault, postgres, casVars, slots,
         guards, passes, restart, TypeInv, TypeOK, Unborn, PostgresTypeOK,
         WorkerTypeOK, BoundsTypeOK
<1>22. ASSUME NEW t \in Tasks, ExpireJob(t)
      PROVE  TypeInv'
  BY <1>22, TargetSteps, Statuses, ConstantsAssumption, StepsKept
     DEF ExpireJob, Busy, casVars, slots, guards, passes, restart, bounds, TypeInv,
         TypeOK, Unborn, PostgresTypeOK, WorkerTypeOK, BoundsTypeOK
<1>23. ASSUME NEW t \in Tasks, CancelRuntime(t)
      PROVE  TypeInv'
  BY <1>23, TargetSteps, Statuses, ConstantsAssumption, StepsKept
     DEF CancelRuntime, Scannable, postgres, casVars, slots, passes, restart,
         bounds, TypeInv, TypeOK, Unborn, PostgresTypeOK, WorkerTypeOK, BoundsTypeOK
<1>24. ASSUME NEW t \in Tasks, FindNoRuntime(t)
      PROVE  TypeInv'
  BY <1>24, TargetSteps, Statuses, ConstantsAssumption, WatchdogMoves
     DEF FindNoRuntime, WatchdogStep, Scannable, postgres, casVars, slots, guards,
         passes, restart, bounds, TypeInv, TypeOK, Unborn, PostgresTypeOK,
         WorkerTypeOK, BoundsTypeOK
<1>25. ASSUME NEW t \in Tasks, SettleFence(t)
      PROVE  TypeInv'
  BY <1>25, TargetSteps, Statuses, ConstantsAssumption, WatchdogMoves
     DEF SettleFence, WatchdogStep, postgres, casVars, passes, restart, bounds,
         TypeInv, TypeOK, Unborn, PostgresTypeOK, WorkerTypeOK, BoundsTypeOK
<1>26. ASSUME NEW t \in Tasks, ResumeSettlement(t)
      PROVE  TypeInv'
  BY <1>26, TargetSteps, Statuses, ConstantsAssumption, WatchdogMoves
     DEF ResumeSettlement, WatchdogStep, postgres, casVars, slots, guards, passes,
         restart, bounds, TypeInv, TypeOK, Unborn, PostgresTypeOK, WorkerTypeOK,
         BoundsTypeOK
<1>27. ASSUME NEW t \in Tasks, SettlementThrows(t)
      PROVE  TypeInv'
  BY <1>27, TargetSteps, Statuses, ConstantsAssumption, WatchdogMoves
     DEF SettlementThrows, WatchdogStep, Fault, postgres, casVars, slots, guards,
         passes, restart, TypeInv, TypeOK, Unborn, PostgresTypeOK, WorkerTypeOK,
         BoundsTypeOK
<1>28. ASSUME NEW t \in Tasks, LookAtStatus(t)
      PROVE  TypeInv'
  BY <1>28, TargetSteps, Statuses, ConstantsAssumption, WatchdogMoves
     DEF LookAtStatus, WatchdogStep, postgres, casVars, slots, guards, passes,
         restart, bounds, TypeInv, TypeOK, Unborn, PostgresTypeOK, WorkerTypeOK,
         BoundsTypeOK
<1>29. ASSUME NEW t \in Tasks, Unwatch(t)
      PROVE  TypeInv'
  BY <1>29, TargetSteps, Statuses, ConstantsAssumption, WatchdogMoves
     DEF Unwatch, WatchdogStep, postgres, casVars, slots, passes, restart, bounds,
         TypeInv, TypeOK, Unborn, PostgresTypeOK, WorkerTypeOK, BoundsTypeOK
<1>30. ASSUME NEW t \in Tasks, LoadTask(t)
      PROVE  TypeInv'
  BY <1>30, TargetSteps, Statuses, ConstantsAssumption, StepsKept
     DEF LoadTask, postgres, casVars, slots, guards, passes, restart, bounds,
         TypeInv, TypeOK, Unborn, PostgresTypeOK, WorkerTypeOK, BoundsTypeOK
<1>31. ASSUME NEW t \in Tasks, RescheduleTask(t)
      PROVE  TypeInv'
  BY <1>31, TargetSteps, Statuses, ConstantsAssumption, StepsKept
     DEF RescheduleTask, Enqueue, CanEnqueue, casVars, slots, guards, passes,
         restart, bounds, TypeInv, TypeOK, Unborn, PostgresTypeOK, WorkerTypeOK,
         BoundsTypeOK
<1>32. ASSUME NEW t \in Tasks, ReschedulerThrows(t)
      PROVE  TypeInv'
  BY <1>32, TargetSteps, Statuses, ConstantsAssumption, StepsKept
     DEF ReschedulerThrows, EnqueueThrows, CanEnqueue, bounds, Fault, Enqueue,
         NoPass, casVars, slots, guards, passes, restart, TypeInv, TypeOK, Unborn,
         PostgresTypeOK, WorkerTypeOK, BoundsTypeOK
<1>33. ASSUME NEW t \in Tasks, DeleteLease(t)
      PROVE  TypeInv'
  BY <1>33, TargetSteps, Statuses, ConstantsAssumption, StepsKept
     DEF DeleteLease, NextLease, NoPass, casVars, slots, guards, passes, restart,
         bounds, TypeInv, TypeOK, Unborn, PostgresTypeOK, WorkerTypeOK, BoundsTypeOK
<1>34. ASSUME NEW t \in Tasks, RequeueStale(t)
      PROVE  TypeInv'
  BY <1>34, TargetSteps, Statuses, ConstantsAssumption, StepsKept
     DEF RequeueStale, NoRow, casVars, slots, guards, passes, bounds, TypeInv,
         TypeOK, Unborn, PostgresTypeOK, WorkerTypeOK, BoundsTypeOK
<1>35. ASSUME NEW t \in Tasks, RequeueThrows(t)
      PROVE  TypeInv'
  BY <1>35, TargetSteps, Statuses, ConstantsAssumption, StepsKept
     DEF RequeueThrows, NoRow, Fault, postgres, casVars, slots, guards, passes,
         TypeInv, TypeOK, Unborn, PostgresTypeOK, WorkerTypeOK, BoundsTypeOK
<1>36. ASSUME NEW t \in Tasks, EnqueueStale(t)
      PROVE  TypeInv'
  BY <1>36, TargetSteps, Statuses, ConstantsAssumption, StepsKept
     DEF EnqueueStale, Enqueue, CanEnqueue, NoRow, casVars, slots, guards, passes,
         bounds, TypeInv, TypeOK, Unborn, PostgresTypeOK, WorkerTypeOK, BoundsTypeOK
<1>37. ASSUME NEW t \in Tasks, RecoveryThrows(t)
      PROVE  TypeInv'
  BY <1>37, TargetSteps, Statuses, ConstantsAssumption, StepsKept
     DEF RecoveryThrows, EnqueueThrows, CanEnqueue, passes, bounds, Fault, Enqueue,
         casVars, slots, guards, TypeInv, TypeOK, Unborn, PostgresTypeOK,
         WorkerTypeOK, BoundsTypeOK
<1>38. ASSUME NEW t \in Tasks, FailStale(t)
      PROVE  TypeInv'
  BY <1>38, TargetSteps, Statuses, ConstantsAssumption, StepsKept
     DEF FailStale, NoRow, casVars, slots, guards, passes, bounds, TypeInv, TypeOK,
         Unborn, PostgresTypeOK, WorkerTypeOK, BoundsTypeOK
<1>39. ASSUME NEW t \in Tasks, NEW w \in Writers, TransitionAction(w, t)
      PROVE  TypeInv'
  BY <1>39, TransitionTypes
<1>40. ASSUME NEW due \in SUBSET lease, ListDueLeases(due)
      PROVE  TypeInv'
  BY <1>40, StepsKept
     DEF ListDueLeases, NoPass, Busy, NextLease, postgres, casVars, slots, guards,
         passes, restart, bounds, TypeInv, TypeOK, Unborn, PostgresTypeOK,
         WorkerTypeOK, BoundsTypeOK
<1>41. CASE StartWorker
  BY <1>41, StepsKept, ConstantsAssumption
     DEF StartWorker, postgres, casVars, slots, guards, passes, bounds, TypeInv,
         TypeOK, Unborn, PostgresTypeOK, WorkerTypeOK, BoundsTypeOK
<1>42. CASE Subscribe
  BY <1>42, StepsKept, ConstantsAssumption
     DEF Subscribe, NoRow, postgres, casVars, slots, guards, passes, bounds,
         TypeInv, TypeOK, Unborn, PostgresTypeOK, WorkerTypeOK, BoundsTypeOK
<1>43. CASE Shutdown
  BY <1>43, StepsKept, ConstantsAssumption
     DEF Shutdown, postgres, casVars, slots, guards, passes, TypeInv, TypeOK,
         Unborn, PostgresTypeOK, WorkerTypeOK, BoundsTypeOK
<1>44. CASE Crash
  BY <1>44, ForgetMoves, ConstantsAssumption
     DEF Crash, ForgetAll, NoPass, NoRow, postgres, passes, TypeInv, TypeOK, Unborn,
         PostgresTypeOK, WorkerTypeOK, BoundsTypeOK
<1>45. CASE Exit
  BY <1>45, ForgetMoves, ConstantsAssumption
     DEF Exit, ForgetAll, NoPass, NoRow, Busy, postgres, passes, bounds, TypeInv,
         TypeOK, Unborn, PostgresTypeOK, WorkerTypeOK, BoundsTypeOK
<1>46. CASE ForcedExit
  BY <1>46, ForgetMoves, ConstantsAssumption
     DEF ForcedExit, ForgetAll, NoPass, NoRow, Busy, passes, bounds, TypeInv,
         TypeOK, Unborn, PostgresTypeOK, WorkerTypeOK, BoundsTypeOK
<1>47. CASE UNCHANGED vars
  BY <1>47, StepsKept
     DEF vars, postgres, casVars, slots, guards, passes, restart, bounds, TypeInv,
         TypeOK, Unborn, PostgresTypeOK, WorkerTypeOK, BoundsTypeOK
<1> QED
  BY <1>1, <1>2, <1>3, <1>4, <1>5, <1>6, <1>7, <1>8, <1>9, <1>10, <1>11, <1>12,
     <1>13, <1>14, <1>15, <1>16, <1>17, <1>18, <1>19, <1>20, <1>21, <1>22, <1>23,
     <1>24, <1>25, <1>26, <1>27, <1>28, <1>29, <1>30, <1>31, <1>32, <1>33, <1>34,
     <1>35, <1>36, <1>37, <1>38, <1>39, <1>40, <1>41, <1>42, <1>43, <1>44, <1>45,
     <1>46, <1>47
     DEF Next, TaskNext, ApiTurn, HandlerTurn, SettlementTurn, ReschedulerTurn,
         RecoveryTurn, WorkerTurn, TransitionAction, Writers

\* The inductive type invariant, with Unborn.
THEOREM TypeInvariance == Spec => []TypeInv
<1>1. ASSUME Init PROVE TypeInv
  <2>1. /\ at = [w \in Writers |-> [t \in Tasks |-> "idle"]]
        /\ seen = [w \in Writers |-> [t \in Tasks |-> NoStatus]]
        /\ tries = [w \in Writers |-> [t \in Tasks |-> 0]]
    BY <1>1 DEF Init, Idle
  <2>2. \A t \in Tasks : Api(t) = "idle" /\ Handler(t) = "idle" /\ Watchdog(t) = "idle"
                         /\ Form(t) = "idle"
    BY <2>1 DEF Api, Handler, Watchdog, Form, Writers
  <2>3. StepsTypeOK
    BY <2>1, <2>2 DEF StepsTypeOK, Step, ApiStep, HandlerStep, WatchdogStep, FormStep
  <2>4. CasTypeOK
    BY <2>1, ConstantsAssumption DEF CasTypeOK
  <2>5. PostgresTypeOK /\ WorkerTypeOK /\ BoundsTypeOK
    BY <1>1, ConstantsAssumption, Statuses
       DEF Init, PostgresTypeOK, WorkerTypeOK, BoundsTypeOK, NoPass, NoRow
  <2> QED  BY <2>2, <2>3, <2>4, <2>5 DEF TypeInv, TypeOK, Unborn
<1>2. TypeInv /\ [Next]_vars => TypeInv'
  BY TypeStep
<1> QED  BY <1>1, <1>2, PTL DEF Spec

\* TypeOK: every variable keeps its type, seen is set inside transitionTask
\* only, and no task has more job rows than MAX_ENQUEUE_SEND_ATTEMPTS.
THEOREM TypeCorrect == Spec => []TypeOK
<1>1. TypeInv => TypeOK
  BY DEF TypeInv
<1> QED  BY <1>1, TypeInvariance, PTL

(***************************************************************************)
(* Slots and watches.                                                      *)
(***************************************************************************)
Running == Admitted \cup {"failing", "closing", "erring"}

\* Who holds a slot, and who is watched.
HoldsInv ==
  \A t \in Tasks :
    /\ t \in running => Handler(t) \in Running
    /\ Handler(t) \in Admitted => t \in running \cup settled
    /\ Handler(t) \in {"executing", "wrapping"} => t \notin starting
    /\ t \in watched => Handler(t) \in Running

\* The limits.
CountsInv ==
  /\ IsFiniteSet(running)
  /\ \A a \in Agents : AgentRunning(a) <= AgentMaxConcurrency
  /\ Cardinality(starting) <= MaxStarts

Shrink == running' \subseteq running /\ starting' \subseteq starting

\* Every action keeps what slots and watches say of turns; and it takes no
\* slot, unless it is Admit.
LEMMA SlotStep ==
  ASSUME TypeInv, HoldsInv, [Next]_vars
  PROVE  HoldsInv' /\ (Shrink \/ \E u \in Tasks : Admit(u))
<1>1. ASSUME NEW t \in Tasks, CreateTask(t)
      PROVE  HoldsInv' /\ (Shrink \/ \E u \in Tasks : Admit(u))
  BY <1>1, ApiMoves
     DEF CreateTask, ApiStep, LarkStep, SlackStep, casVars, slots, guards, passes,
         restart, bounds, TypeInv, TypeOK, WorkerTypeOK, HoldsInv, Running,
         Admitted, Shrink
<1>2. ASSUME NEW t \in Tasks, ApiEnqueues(t)
      PROVE  HoldsInv' /\ (Shrink \/ \E u \in Tasks : Admit(u))
  BY <1>2, ApiMoves
     DEF ApiEnqueues, ApiStep, LarkStep, SlackStep, casVars, slots, guards, passes,
         restart, bounds, TypeInv, TypeOK, WorkerTypeOK, HoldsInv, Running,
         Admitted, Shrink
<1>3. ASSUME NEW t \in Tasks, ApiEnqueueThrows(t)
      PROVE  HoldsInv' /\ (Shrink \/ \E u \in Tasks : Admit(u))
  BY <1>3, ApiMoves
     DEF ApiEnqueueThrows, ApiStep, LarkStep, SlackStep, casVars, slots, guards,
         passes, restart, TypeInv, TypeOK, WorkerTypeOK, HoldsInv, Running,
         Admitted, Shrink
<1>4. ASSUME NEW t \in Tasks, Redeliver(t)
      PROVE  HoldsInv' /\ (Shrink \/ \E u \in Tasks : Admit(u))
  BY <1>4, ApiMoves
     DEF Redeliver, ApiStep, LarkStep, SlackStep, postgres, casVars, slots, guards,
         passes, restart, TypeInv, TypeOK, WorkerTypeOK, HoldsInv, Running,
         Admitted, Shrink
<1>5. ASSUME NEW t \in Tasks, NEW action \in {"confirming", "rejecting"}, FormClicked(t, action)
      PROVE  HoldsInv' /\ (Shrink \/ \E u \in Tasks : Admit(u))
  BY <1>5, FormMoves
     DEF FormClicked, FormStep, postgres, casVars, slots, guards, passes, restart,
         bounds, TypeInv, TypeOK, WorkerTypeOK, HoldsInv, Running, Admitted, Shrink
<1>6. ASSUME NEW t \in Tasks, FetchJob(t)
      PROVE  HoldsInv' /\ (Shrink \/ \E u \in Tasks : Admit(u))
  BY <1>6, TurnMoves
     DEF FetchJob, HandlerStep, Admitted, Busy, casVars, slots, guards, passes,
         restart, bounds, TypeInv, TypeOK, WorkerTypeOK, HoldsInv, Running, Shrink
<1>7. ASSUME NEW t \in Tasks, CheckQueued(t)
      PROVE  HoldsInv' /\ (Shrink \/ \E u \in Tasks : Admit(u))
  BY <1>7, TurnMoves
     DEF CheckQueued, HandlerStep, Admitted, postgres, casVars, slots, guards,
         passes, restart, bounds, TypeInv, TypeOK, WorkerTypeOK, HoldsInv, Running,
         Shrink
<1>8. ASSUME NEW t \in Tasks, OverBudget(t)
      PROVE  HoldsInv' /\ (Shrink \/ \E u \in Tasks : Admit(u))
  BY <1>8, TurnMoves
     DEF OverBudget, HandlerStep, Admitted, casVars, slots, guards, passes, restart,
         bounds, TypeInv, TypeOK, WorkerTypeOK, HoldsInv, Running, Shrink
<1>9. ASSUME NEW t \in Tasks, Admit(t)
      PROVE  HoldsInv' /\ (Shrink \/ \E u \in Tasks : Admit(u))
  BY <1>9, TurnMoves
     DEF Admit, HandlerStep, Admitted, postgres, casVars, guards, passes, restart,
         bounds, TypeInv, TypeOK, WorkerTypeOK, HoldsInv, Running, Shrink
<1>10. ASSUME NEW t \in Tasks, Deny(t)
      PROVE  HoldsInv' /\ (Shrink \/ \E u \in Tasks : Admit(u))
  BY <1>10, TurnMoves
     DEF Deny, HandlerStep, Admitted, postgres, casVars, slots, guards, passes,
         restart, bounds, TypeInv, TypeOK, WorkerTypeOK, HoldsInv, Running, Shrink
<1>11. ASSUME NEW t \in Tasks, DeferTask(t)
      PROVE  HoldsInv' /\ (Shrink \/ \E u \in Tasks : Admit(u))
  BY <1>11, TurnMoves
     DEF DeferTask, HandlerStep, Admitted, casVars, slots, guards, passes, restart,
         bounds, TypeInv, TypeOK, WorkerTypeOK, HoldsInv, Running, Shrink
<1>12. ASSUME NEW t \in Tasks, BeginTurn(t)
      PROVE  HoldsInv' /\ (Shrink \/ \E u \in Tasks : Admit(u))
  BY <1>12, TurnMoves
     DEF BeginTurn, HandlerStep, Admitted, casVars, slots, passes, restart, bounds,
         TypeInv, TypeOK, WorkerTypeOK, HoldsInv, Running, Shrink
<1>13. ASSUME NEW t \in Tasks, StartRuntime(t)
      PROVE  HoldsInv' /\ (Shrink \/ \E u \in Tasks : Admit(u))
  BY <1>13, TurnMoves
     DEF StartRuntime, HandlerStep, Admitted, postgres, casVars, guards, passes,
         restart, bounds, TypeInv, TypeOK, WorkerTypeOK, HoldsInv, Running, Shrink
<1>14. ASSUME NEW t \in Tasks, EndRuntime(t)
      PROVE  HoldsInv' /\ (Shrink \/ \E u \in Tasks : Admit(u))
  BY <1>14, TurnMoves
     DEF EndRuntime, HandlerStep, Admitted, postgres, casVars, slots, guards,
         passes, restart, bounds, TypeInv, TypeOK, WorkerTypeOK, HoldsInv, Running,
         Shrink
<1>15. ASSUME NEW t \in Tasks, WrapUp(t)
      PROVE  HoldsInv' /\ (Shrink \/ \E u \in Tasks : Admit(u))
  BY <1>15, TurnMoves
     DEF WrapUp, HandlerStep, Admitted, postgres, casVars, slots, guards, passes,
         restart, bounds, TypeInv, TypeOK, WorkerTypeOK, HoldsInv, Running, Shrink
<1>16. ASSUME NEW t \in Tasks, FenceStops(t)
      PROVE  HoldsInv' /\ (Shrink \/ \E u \in Tasks : Admit(u))
  BY <1>16, TurnMoves
     DEF FenceStops, HandlerStep, Admitted, postgres, casVars, slots, guards,
         passes, restart, bounds, TypeInv, TypeOK, WorkerTypeOK, HoldsInv, Running,
         Shrink
<1>17. ASSUME NEW t \in Tasks, Report(t)
      PROVE  HoldsInv' /\ (Shrink \/ \E u \in Tasks : Admit(u))
  BY <1>17, TurnMoves
     DEF Report, HandlerStep, Admitted, postgres, casVars, slots, guards, passes,
         restart, bounds, TypeInv, TypeOK, WorkerTypeOK, HoldsInv, Running, Shrink
<1>18. ASSUME NEW t \in Tasks, HandlerThrows(t)
      PROVE  HoldsInv' /\ (Shrink \/ \E u \in Tasks : Admit(u))
  BY <1>18, TurnMoves
     DEF HandlerThrows, HandlerStep, Admitted, Fault, postgres, casVars, slots,
         guards, passes, restart, TypeInv, TypeOK, WorkerTypeOK, HoldsInv, Running,
         Shrink
<1>19. ASSUME NEW t \in Tasks, FinallyBlock(t)
      PROVE  HoldsInv' /\ (Shrink \/ \E u \in Tasks : Admit(u))
  BY <1>19, TurnMoves
     DEF FinallyBlock, HandlerStep, Admitted, postgres, casVars, passes, restart,
         bounds, TypeInv, TypeOK, WorkerTypeOK, HoldsInv, Running, Shrink
<1>20. ASSUME NEW t \in Tasks, EndJob(t)
      PROVE  HoldsInv' /\ (Shrink \/ \E u \in Tasks : Admit(u))
  BY <1>20, TurnMoves
     DEF EndJob, HandlerStep, Admitted, casVars, slots, guards, passes, restart,
         bounds, TypeInv, TypeOK, WorkerTypeOK, HoldsInv, Running, Shrink
<1>21. ASSUME NEW t \in Tasks, EndJobUnrecorded(t)
      PROVE  HoldsInv' /\ (Shrink \/ \E u \in Tasks : Admit(u))
  BY <1>21, TurnMoves
     DEF EndJobUnrecorded, HandlerStep, Admitted, Fault, postgres, casVars, slots,
         guards, passes, restart, TypeInv, TypeOK, WorkerTypeOK, HoldsInv, Running,
         Shrink
<1>22. ASSUME NEW t \in Tasks, ExpireJob(t)
      PROVE  HoldsInv' /\ (Shrink \/ \E u \in Tasks : Admit(u))
  BY <1>22, StepsKept
     DEF ExpireJob, Busy, casVars, slots, guards, passes, restart, bounds, TypeInv,
         TypeOK, WorkerTypeOK, HoldsInv, Running, Admitted, Shrink
<1>23. ASSUME NEW t \in Tasks, CancelRuntime(t)
      PROVE  HoldsInv' /\ (Shrink \/ \E u \in Tasks : Admit(u))
  BY <1>23, StepsKept
     DEF CancelRuntime, Scannable, postgres, casVars, slots, passes, restart,
         bounds, TypeInv, TypeOK, WorkerTypeOK, HoldsInv, Running, Admitted, Shrink
<1>24. ASSUME NEW t \in Tasks, FindNoRuntime(t)
      PROVE  HoldsInv' /\ (Shrink \/ \E u \in Tasks : Admit(u))
  BY <1>24, WatchdogMoves
     DEF FindNoRuntime, WatchdogStep, Scannable, postgres, casVars, slots, guards,
         passes, restart, bounds, TypeInv, TypeOK, WorkerTypeOK, HoldsInv, Running,
         Admitted, Shrink
<1>25. ASSUME NEW t \in Tasks, SettleFence(t)
      PROVE  HoldsInv' /\ (Shrink \/ \E u \in Tasks : Admit(u))
  BY <1>25, WatchdogMoves
     DEF SettleFence, WatchdogStep, postgres, casVars, passes, restart, bounds,
         TypeInv, TypeOK, WorkerTypeOK, HoldsInv, Running, Admitted, Shrink
<1>26. ASSUME NEW t \in Tasks, ResumeSettlement(t)
      PROVE  HoldsInv' /\ (Shrink \/ \E u \in Tasks : Admit(u))
  BY <1>26, WatchdogMoves
     DEF ResumeSettlement, WatchdogStep, postgres, casVars, slots, guards, passes,
         restart, bounds, TypeInv, TypeOK, WorkerTypeOK, HoldsInv, Running,
         Admitted, Shrink
<1>27. ASSUME NEW t \in Tasks, SettlementThrows(t)
      PROVE  HoldsInv' /\ (Shrink \/ \E u \in Tasks : Admit(u))
  BY <1>27, WatchdogMoves
     DEF SettlementThrows, WatchdogStep, Fault, postgres, casVars, slots, guards,
         passes, restart, TypeInv, TypeOK, WorkerTypeOK, HoldsInv, Running,
         Admitted, Shrink
<1>28. ASSUME NEW t \in Tasks, LookAtStatus(t)
      PROVE  HoldsInv' /\ (Shrink \/ \E u \in Tasks : Admit(u))
  BY <1>28, WatchdogMoves
     DEF LookAtStatus, WatchdogStep, postgres, casVars, slots, guards, passes,
         restart, bounds, TypeInv, TypeOK, WorkerTypeOK, HoldsInv, Running,
         Admitted, Shrink
<1>29. ASSUME NEW t \in Tasks, Unwatch(t)
      PROVE  HoldsInv' /\ (Shrink \/ \E u \in Tasks : Admit(u))
  BY <1>29, WatchdogMoves
     DEF Unwatch, WatchdogStep, postgres, casVars, slots, passes, restart, bounds,
         TypeInv, TypeOK, WorkerTypeOK, HoldsInv, Running, Admitted, Shrink
<1>30. ASSUME NEW t \in Tasks, LoadTask(t)
      PROVE  HoldsInv' /\ (Shrink \/ \E u \in Tasks : Admit(u))
  BY <1>30, StepsKept
     DEF LoadTask, postgres, casVars, slots, guards, passes, restart, bounds,
         TypeInv, TypeOK, WorkerTypeOK, HoldsInv, Running, Admitted, Shrink
<1>31. ASSUME NEW t \in Tasks, RescheduleTask(t)
      PROVE  HoldsInv' /\ (Shrink \/ \E u \in Tasks : Admit(u))
  BY <1>31, StepsKept
     DEF RescheduleTask, casVars, slots, guards, passes, restart, bounds, TypeInv,
         TypeOK, WorkerTypeOK, HoldsInv, Running, Admitted, Shrink
<1>32. ASSUME NEW t \in Tasks, ReschedulerThrows(t)
      PROVE  HoldsInv' /\ (Shrink \/ \E u \in Tasks : Admit(u))
  BY <1>32, StepsKept
     DEF ReschedulerThrows, casVars, slots, guards, passes, restart, TypeInv,
         TypeOK, WorkerTypeOK, HoldsInv, Running, Admitted, Shrink
<1>33. ASSUME NEW t \in Tasks, DeleteLease(t)
      PROVE  HoldsInv' /\ (Shrink \/ \E u \in Tasks : Admit(u))
  BY <1>33, StepsKept
     DEF DeleteLease, casVars, slots, guards, passes, restart, bounds, TypeInv,
         TypeOK, WorkerTypeOK, HoldsInv, Running, Admitted, Shrink
<1>34. ASSUME NEW t \in Tasks, RequeueStale(t)
      PROVE  HoldsInv' /\ (Shrink \/ \E u \in Tasks : Admit(u))
  BY <1>34, StepsKept
     DEF RequeueStale, casVars, slots, guards, passes, bounds, TypeInv, TypeOK,
         WorkerTypeOK, HoldsInv, Running, Admitted, Shrink
<1>35. ASSUME NEW t \in Tasks, RequeueThrows(t)
      PROVE  HoldsInv' /\ (Shrink \/ \E u \in Tasks : Admit(u))
  BY <1>35, StepsKept
     DEF RequeueThrows, Fault, postgres, casVars, slots, guards, passes, TypeInv,
         TypeOK, WorkerTypeOK, HoldsInv, Running, Admitted, Shrink
<1>36. ASSUME NEW t \in Tasks, EnqueueStale(t)
      PROVE  HoldsInv' /\ (Shrink \/ \E u \in Tasks : Admit(u))
  BY <1>36, StepsKept
     DEF EnqueueStale, casVars, slots, guards, passes, bounds, TypeInv, TypeOK,
         WorkerTypeOK, HoldsInv, Running, Admitted, Shrink
<1>37. ASSUME NEW t \in Tasks, RecoveryThrows(t)
      PROVE  HoldsInv' /\ (Shrink \/ \E u \in Tasks : Admit(u))
  BY <1>37, StepsKept
     DEF RecoveryThrows, casVars, slots, guards, passes, TypeInv, TypeOK,
         WorkerTypeOK, HoldsInv, Running, Admitted, Shrink
<1>38. ASSUME NEW t \in Tasks, FailStale(t)
      PROVE  HoldsInv' /\ (Shrink \/ \E u \in Tasks : Admit(u))
  BY <1>38, StepsKept
     DEF FailStale, casVars, slots, guards, passes, bounds, TypeInv, TypeOK,
         WorkerTypeOK, HoldsInv, Running, Admitted, Shrink
<1>39. ASSUME NEW t \in Tasks, NEW w \in Writers, TransitionAction(w, t)
      PROVE  HoldsInv' /\ (Shrink \/ \E u \in Tasks : Admit(u))
  <2>1. UNCHANGED <<slots, guards>>
    BY <1>39, TransitionKeeps
  <2>2. \A u \in Tasks : Handler(u)' = Handler(u)
                         \/ /\ Handler(u) \in DOMAIN Target /\ u = t /\ w = "handler"
                            /\ Handler(u)' \in {Committed[Handler(u)], Refused[Handler(u)],
                                               Errored[Handler(u)]}
    BY <1>39, TransitionCases, TargetSteps DEF TypeInv, Handler, Writers
  <2>3. \A u \in Tasks : /\ Handler(u) \in Admitted => Handler(u)' \in Running
                         /\ Handler(u)' \in Admitted => Handler(u) \in Admitted
                         /\ Handler(u) \in Running => Handler(u)' \in Running
                         /\ Handler(u)' \in {"executing", "wrapping"} => Handler(u)' = Handler(u)
    BY <2>2, TargetSteps DEF Committed, Refused, Errored, Admitted, Running, HoldsInv,
                             TypeInv, TypeOK, StepsTypeOK, HandlerStep
  <2> QED  BY <2>1, <2>3 DEF HoldsInv, Shrink, slots, guards, passes
<1>40. ASSUME NEW due \in SUBSET lease, ListDueLeases(due)
      PROVE  HoldsInv' /\ (Shrink \/ \E u \in Tasks : Admit(u))
  BY <1>40, StepsKept
     DEF ListDueLeases, Busy, postgres, casVars, slots, guards, passes, restart,
         bounds, TypeInv, TypeOK, WorkerTypeOK, HoldsInv, Running, Admitted, Shrink
<1>41. CASE StartWorker
  BY <1>41, StepsKept
     DEF StartWorker, postgres, casVars, slots, guards, passes, bounds, TypeInv,
         TypeOK, WorkerTypeOK, HoldsInv, Running, Admitted, Shrink
<1>42. CASE Subscribe
  BY <1>42, StepsKept
     DEF Subscribe, postgres, casVars, slots, guards, passes, bounds, TypeInv,
         TypeOK, WorkerTypeOK, HoldsInv, Running, Admitted, Shrink
<1>43. CASE Shutdown
  BY <1>43, StepsKept
     DEF Shutdown, postgres, casVars, slots, guards, passes, TypeInv, TypeOK,
         WorkerTypeOK, HoldsInv, Running, Admitted, Shrink
<1>44. CASE Crash
  BY <1>44, ForgetMoves
     DEF Crash, ForgetAll, postgres, passes, TypeInv, TypeOK, WorkerTypeOK,
         HoldsInv, Running, Admitted, Shrink
<1>45. CASE Exit
  BY <1>45, ForgetMoves
     DEF Exit, ForgetAll, Busy, postgres, passes, bounds, TypeInv, TypeOK,
         WorkerTypeOK, HoldsInv, Running, Admitted, Shrink
<1>46. CASE ForcedExit
  BY <1>46, ForgetMoves
     DEF ForcedExit, ForgetAll, Busy, passes, bounds, TypeInv, TypeOK, WorkerTypeOK,
         HoldsInv, Running, Admitted, Shrink
<1>47. CASE UNCHANGED vars
  BY <1>47, StepsKept
     DEF vars, postgres, casVars, slots, guards, passes, restart, bounds, TypeInv,
         TypeOK, WorkerTypeOK, HoldsInv, Running, Admitted, Shrink
<1> QED
  BY <1>1, <1>2, <1>3, <1>4, <1>5, <1>6, <1>7, <1>8, <1>9, <1>10, <1>11, <1>12,
     <1>13, <1>14, <1>15, <1>16, <1>17, <1>18, <1>19, <1>20, <1>21, <1>22, <1>23,
     <1>24, <1>25, <1>26, <1>27, <1>28, <1>29, <1>30, <1>31, <1>32, <1>33, <1>34,
     <1>35, <1>36, <1>37, <1>38, <1>39, <1>40, <1>41, <1>42, <1>43, <1>44, <1>45,
     <1>46, <1>47
     DEF Next, TaskNext, ApiTurn, HandlerTurn, SettlementTurn, ReschedulerTurn,
         RecoveryTurn, WorkerTurn, TransitionAction, Writers

\* Giving slots back keeps the limits ...
LEMMA CountsShrink ==
  ASSUME TypeInv, CountsInv, Shrink
  PROVE  CountsInv'
<1>1. IsFiniteSet(running') /\ IsFiniteSet(starting)
  BY FS_Subset DEF CountsInv, Shrink, TypeInv, TypeOK, WorkerTypeOK
<1>2. Cardinality(starting') <= Cardinality(starting)
  BY <1>1, FS_Subset DEF Shrink
<1>3. Cardinality(starting) \in Nat /\ Cardinality(starting') \in Nat
  BY <1>1, FS_CardinalityType, FS_Subset DEF Shrink
<1>4. MaxStarts \in Nat /\ AgentMaxConcurrency \in Nat
  BY ConstantsAssumption
<1>5. Cardinality(starting') <= MaxStarts
  BY <1>2, <1>3, <1>4 DEF CountsInv
<1>6. ASSUME NEW a \in Agents
      PROVE  AgentRunning(a)' <= AgentMaxConcurrency
  <2> DEFINE before == {u \in running : AgentOf[u] = a}
             after  == {u \in running' : AgentOf[u] = a}
  <2>1. after \subseteq before /\ IsFiniteSet(before)
    BY FS_Subset DEF Shrink, CountsInv
  <2>2. Cardinality(after) <= Cardinality(before)
    BY <2>1, FS_Subset
  <2>3. Cardinality(before) \in Nat /\ Cardinality(after) \in Nat
    BY <2>1, FS_CardinalityType, FS_Subset
  <2>4. Cardinality(before) <= AgentMaxConcurrency
    BY DEF CountsInv, AgentRunning
  <2>5. Cardinality(after) <= AgentMaxConcurrency
    BY <2>2, <2>3, <2>4, <1>4
  <2> QED  BY <2>5 DEF AgentRunning
<1> QED  BY <1>1, <1>5, <1>6 DEF CountsInv

\* ... and admit takes them only below the limits.
LEMMA CountsAdmit ==
  ASSUME TypeInv, CountsInv, NEW t \in Tasks, Admit(t)
  PROVE  CountsInv'
<1>1. /\ t \notin running /\ running' = running \cup {t}
      /\ starting' = starting \cup {t}
      /\ ~(AgentRunning(AgentOf[t]) >= AgentMaxConcurrency)
      /\ ~(Cardinality(starting) >= MaxStarts)
  BY DEF Admit, AtLimit
<1>2. /\ IsFiniteSet(running) /\ IsFiniteSet(starting) /\ t \notin starting
      /\ MaxStarts \in Nat /\ AgentMaxConcurrency \in Nat
  BY <1>1, FS_Subset, ConstantsAssumption DEF CountsInv, TypeInv, TypeOK, WorkerTypeOK
<1>3. IsFiniteSet(running')
  BY <1>1, <1>2, FS_AddElement
<1>4. Cardinality(starting) \in Nat /\ Cardinality(starting') = Cardinality(starting) + 1
  BY <1>1, <1>2, FS_AddElement, FS_CardinalityType
<1>5. Cardinality(starting') <= MaxStarts
  BY <1>1, <1>2, <1>4
<1>6. ASSUME NEW a \in Agents
      PROVE  AgentRunning(a)' <= AgentMaxConcurrency
  <2> DEFINE before == {u \in running : AgentOf[u] = a}
             after  == {u \in running' : AgentOf[u] = a}
  <2>1. IsFiniteSet(before) /\ Cardinality(before) <= AgentMaxConcurrency
    BY <1>2, FS_Subset DEF CountsInv, AgentRunning
  <2>2. Cardinality(before) \in Nat
    BY <2>1, FS_CardinalityType
  <2>3. CASE AgentOf[t] # a
    <3>1. after = before
      BY <2>3, <1>1
    <3> QED  BY <3>1, <2>1 DEF AgentRunning
  <2>4. CASE AgentOf[t] = a
    <3>1. after = before \cup {t} /\ t \notin before
      BY <2>4, <1>1
    <3>2. Cardinality(after) = Cardinality(before) + 1
      BY <3>1, <2>1, FS_AddElement
    <3>3. ~(Cardinality(before) >= AgentMaxConcurrency)
      BY <2>4, <1>1 DEF AgentRunning
    <3>4. Cardinality(after) <= AgentMaxConcurrency
      BY <3>2, <3>3, <2>2, <1>2
    <3> QED  BY <3>4 DEF AgentRunning
  <2> QED  BY <2>3, <2>4
<1> QED  BY <1>3, <1>5, <1>6 DEF CountsInv

\* The inductive invariant of the admission counters and of the watchdog.
THEOREM SlotInvariance == Spec => [](HoldsInv /\ CountsInv)
<1>1. ASSUME Init PROVE HoldsInv /\ CountsInv
  <2>1. running = {} /\ starting = {} /\ watched = {}
    BY <1>1 DEF Init
  <2>2. \A t \in Tasks : Handler(t) = "idle"
    BY <1>1 DEF Init, Handler, Idle, Writers
  <2>3. \A a \in Agents : {u \in running : AgentOf[u] = a} = {}
    BY <2>1
  <2>4. IsFiniteSet({}) /\ Cardinality({}) = 0
    BY FS_EmptySet
  <2>5. CountsInv
    BY <2>1, <2>3, <2>4, ConstantsAssumption DEF CountsInv, AgentRunning
  <2> QED  BY <2>1, <2>2, <2>5 DEF HoldsInv, Admitted
<1>2. TypeInv /\ HoldsInv /\ CountsInv /\ [Next]_vars => (HoldsInv /\ CountsInv)'
  BY SlotStep, CountsShrink, CountsAdmit
<1> QED  BY <1>1, <1>2, TypeInvariance, PTL DEF Spec

\* SlotsMatchTurns: AgentAdmissionScheduler never exceeds its limits, every
\* live turn holds its slot unless the watchdog settled it, and no slot leaks.
THEOREM SlotsAccounted == Spec => []SlotsMatchTurns
<1>1. HoldsInv /\ CountsInv => SlotsMatchTurns
  BY DEF HoldsInv, CountsInv, SlotsMatchTurns, Running
<1> QED  BY <1>1, SlotInvariance, PTL

\* WatchEndsWithTurn: RuntimeWatchdog holds no entry without a live turn.
THEOREM WatchesEnd == Spec => []WatchEndsWithTurn
<1>1. TypeInv /\ HoldsInv => WatchEndsWithTurn
  BY DEF HoldsInv, TypeInv, TypeOK, WorkerTypeOK, WatchEndsWithTurn, Busy, Running, Admitted
<1> QED  BY <1>1, TypeInvariance, SlotInvariance, PTL

(***************************************************************************)
(* The lifecycle.                                                          *)
(***************************************************************************)
\* Startup recovery runs before handlers and watchdog do.
PhaseInv ==
  /\ phase \in {"down", "recovering"} =>
       \A t \in Tasks : Handler(t) = "idle" /\ Watchdog(t) = "idle"
  /\ phase # "recovering" => stale = {} /\ recovery = NoRow

\* Before the first stop, recovery finds nothing to do.
UnstoppedInv ==
  stops = 0 =>
    /\ phase # "draining" /\ stale = {} /\ recovery = NoRow
    /\ phase \in {"down", "recovering"} => \A t \in Tasks : status[t] # "running"

\* A reply was lost for certain only if a call failed; it matters to recovery
\* only if the worker stopped.
Reliable == LostReplies => faults = 0 \/ stops = 0

\* Until the Lark pipeline queued its job, or gave up, a task is its own; but a
\* pipeline that gives up cannot tell whether its job was lost or the reply.
Fresh(t) ==
  \/ Api(t) \in {"idle", "queueing", "enqueuing"}
  \/ Api(t) = "compensating" /\ (LostReplies => faults = 0)

FreshInv ==
  \A t \in Tasks : Fresh(t) =>
    /\ job[t] = "none"
    /\ t \notin lease /\ t \notin watched /\ t \notin stale
    /\ resched.task # t /\ t \notin resched.todo /\ recovery.task # t
    /\ Handler(t) = "idle" /\ Watchdog(t) = "idle" /\ Form(t) = "idle"
    /\ status[t] = "absent" <=> Api(t) = "idle"
    /\ status[t] \in {"absent", "pending", "queued"}

\* What startup recovery holds is still running, or queued by it.
RecoveryInv ==
  \A t \in Tasks :
    /\ t \in stale => status[t] = "running"
    /\ recovery.task = t => t \notin stale /\ status[t] \in {"queued", "running"}

\* A clicked card belongs to a task that waits, or is over.
FormInv ==
  \A t \in Tasks :
    Form(t) # "idle" => status[t] \in {"waiting_approval", "completed", "failed", "cancelled"}

\* The worker recovers before it subscribes, alone.
LEMMA PhaseStep ==
  ASSUME TypeInv, PhaseInv, [Next]_vars
  PROVE  PhaseInv'
<1>1. ASSUME NEW t \in Tasks, CreateTask(t)
      PROVE  PhaseInv'
  BY <1>1, ConstantsAssumption, ApiMoves
     DEF CreateTask, ApiStep, LarkStep, SlackStep, casVars, slots, guards, passes,
         restart, bounds, TypeInv, TypeOK, WorkerTypeOK, PhaseInv, NoRow
<1>2. ASSUME NEW t \in Tasks, ApiEnqueues(t)
      PROVE  PhaseInv'
  BY <1>2, ConstantsAssumption, ApiMoves
     DEF ApiEnqueues, ApiStep, LarkStep, SlackStep, Enqueue, CanEnqueue, Live,
         casVars, slots, guards, passes, restart, bounds, TypeInv, TypeOK,
         WorkerTypeOK, PhaseInv, NoRow
<1>3. ASSUME NEW t \in Tasks, ApiEnqueueThrows(t)
      PROVE  PhaseInv'
  BY <1>3, ConstantsAssumption, ApiMoves
     DEF ApiEnqueueThrows, ApiStep, LarkStep, SlackStep, EnqueueThrows, CanEnqueue,
         Live, bounds, Fault, Enqueue, casVars, slots, guards, passes, restart,
         TypeInv, TypeOK, WorkerTypeOK, PhaseInv, NoRow
<1>4. ASSUME NEW t \in Tasks, Redeliver(t)
      PROVE  PhaseInv'
  BY <1>4, ConstantsAssumption, ApiMoves
     DEF Redeliver, ApiStep, LarkStep, SlackStep, postgres, casVars, slots, guards,
         passes, restart, TypeInv, TypeOK, WorkerTypeOK, PhaseInv, NoRow
<1>5. ASSUME NEW t \in Tasks, NEW action \in {"confirming", "rejecting"}, FormClicked(t, action)
      PROVE  PhaseInv'
  BY <1>5, ConstantsAssumption, FormMoves
     DEF FormClicked, FormStep, postgres, casVars, slots, guards, passes, restart,
         bounds, TypeInv, TypeOK, WorkerTypeOK, PhaseInv, NoRow
<1>6. ASSUME NEW t \in Tasks, FetchJob(t)
      PROVE  PhaseInv'
  BY <1>6, ConstantsAssumption, TurnMoves
     DEF FetchJob, HandlerStep, Admitted, Busy, casVars, slots, guards, passes,
         restart, bounds, TypeInv, TypeOK, WorkerTypeOK, PhaseInv, NoRow
<1>7. ASSUME NEW t \in Tasks, CheckQueued(t)
      PROVE  PhaseInv'
  BY <1>7, ConstantsAssumption, TurnMoves
     DEF CheckQueued, HandlerStep, Admitted, postgres, casVars, slots, guards,
         passes, restart, bounds, TypeInv, TypeOK, WorkerTypeOK, PhaseInv, NoRow
<1>8. ASSUME NEW t \in Tasks, OverBudget(t)
      PROVE  PhaseInv'
  BY <1>8, ConstantsAssumption, TurnMoves
     DEF OverBudget, HandlerStep, Admitted, casVars, slots, guards, passes, restart,
         bounds, TypeInv, TypeOK, WorkerTypeOK, PhaseInv, NoRow
<1>9. ASSUME NEW t \in Tasks, Admit(t)
      PROVE  PhaseInv'
  BY <1>9, ConstantsAssumption, TurnMoves
     DEF Admit, HandlerStep, Admitted, postgres, casVars, guards, passes, restart,
         bounds, TypeInv, TypeOK, WorkerTypeOK, PhaseInv, NoRow
<1>10. ASSUME NEW t \in Tasks, Deny(t)
      PROVE  PhaseInv'
  BY <1>10, ConstantsAssumption, TurnMoves
     DEF Deny, HandlerStep, Admitted, postgres, casVars, slots, guards, passes,
         restart, bounds, TypeInv, TypeOK, WorkerTypeOK, PhaseInv, NoRow
<1>11. ASSUME NEW t \in Tasks, DeferTask(t)
      PROVE  PhaseInv'
  BY <1>11, ConstantsAssumption, TurnMoves
     DEF DeferTask, HandlerStep, Admitted, casVars, slots, guards, passes, restart,
         bounds, TypeInv, TypeOK, WorkerTypeOK, PhaseInv, NoRow
<1>12. ASSUME NEW t \in Tasks, BeginTurn(t)
      PROVE  PhaseInv'
  BY <1>12, ConstantsAssumption, TurnMoves
     DEF BeginTurn, HandlerStep, Admitted, casVars, slots, passes, restart, bounds,
         TypeInv, TypeOK, WorkerTypeOK, PhaseInv, NoRow
<1>13. ASSUME NEW t \in Tasks, StartRuntime(t)
      PROVE  PhaseInv'
  BY <1>13, ConstantsAssumption, TurnMoves
     DEF StartRuntime, HandlerStep, Admitted, postgres, casVars, guards, passes,
         restart, bounds, TypeInv, TypeOK, WorkerTypeOK, PhaseInv, NoRow
<1>14. ASSUME NEW t \in Tasks, EndRuntime(t)
      PROVE  PhaseInv'
  BY <1>14, ConstantsAssumption, TurnMoves
     DEF EndRuntime, HandlerStep, Admitted, postgres, casVars, slots, guards,
         passes, restart, bounds, TypeInv, TypeOK, WorkerTypeOK, PhaseInv, NoRow
<1>15. ASSUME NEW t \in Tasks, WrapUp(t)
      PROVE  PhaseInv'
  BY <1>15, ConstantsAssumption, TurnMoves
     DEF WrapUp, HandlerStep, Admitted, postgres, casVars, slots, guards, passes,
         restart, bounds, TypeInv, TypeOK, WorkerTypeOK, PhaseInv, NoRow
<1>16. ASSUME NEW t \in Tasks, FenceStops(t)
      PROVE  PhaseInv'
  BY <1>16, ConstantsAssumption, TurnMoves
     DEF FenceStops, HandlerStep, Admitted, postgres, casVars, slots, guards,
         passes, restart, bounds, TypeInv, TypeOK, WorkerTypeOK, PhaseInv, NoRow
<1>17. ASSUME NEW t \in Tasks, Report(t)
      PROVE  PhaseInv'
  BY <1>17, ConstantsAssumption, TurnMoves
     DEF Report, HandlerStep, Admitted, postgres, casVars, slots, guards, passes,
         restart, bounds, TypeInv, TypeOK, WorkerTypeOK, PhaseInv, NoRow
<1>18. ASSUME NEW t \in Tasks, HandlerThrows(t)
      PROVE  PhaseInv'
  BY <1>18, ConstantsAssumption, TurnMoves
     DEF HandlerThrows, HandlerStep, Admitted, Fault, postgres, casVars, slots,
         guards, passes, restart, TypeInv, TypeOK, WorkerTypeOK, PhaseInv, NoRow
<1>19. ASSUME NEW t \in Tasks, FinallyBlock(t)
      PROVE  PhaseInv'
  BY <1>19, ConstantsAssumption, TurnMoves
     DEF FinallyBlock, HandlerStep, Admitted, postgres, casVars, passes, restart,
         bounds, TypeInv, TypeOK, WorkerTypeOK, PhaseInv, NoRow
<1>20. ASSUME NEW t \in Tasks, EndJob(t)
      PROVE  PhaseInv'
  BY <1>20, ConstantsAssumption, TurnMoves
     DEF EndJob, HandlerStep, Admitted, casVars, slots, guards, passes, restart,
         bounds, TypeInv, TypeOK, WorkerTypeOK, PhaseInv, NoRow
<1>21. ASSUME NEW t \in Tasks, EndJobUnrecorded(t)
      PROVE  PhaseInv'
  BY <1>21, ConstantsAssumption, TurnMoves
     DEF EndJobUnrecorded, HandlerStep, Admitted, Fault, postgres, casVars, slots,
         guards, passes, restart, TypeInv, TypeOK, WorkerTypeOK, PhaseInv, NoRow
<1>22. ASSUME NEW t \in Tasks, ExpireJob(t)
      PROVE  PhaseInv'
  BY <1>22, ConstantsAssumption, StepsKept
     DEF ExpireJob, Busy, casVars, slots, guards, passes, restart, bounds, TypeInv,
         TypeOK, WorkerTypeOK, PhaseInv, NoRow
<1>23. ASSUME NEW t \in Tasks, CancelRuntime(t)
      PROVE  PhaseInv'
  BY <1>23, ConstantsAssumption, StepsKept
     DEF CancelRuntime, Scannable, postgres, casVars, slots, passes, restart,
         bounds, TypeInv, TypeOK, WorkerTypeOK, PhaseInv, NoRow
<1>24. ASSUME NEW t \in Tasks, FindNoRuntime(t)
      PROVE  PhaseInv'
  BY <1>24, ConstantsAssumption, WatchdogMoves
     DEF FindNoRuntime, WatchdogStep, Scannable, postgres, casVars, slots, guards,
         passes, restart, bounds, TypeInv, TypeOK, WorkerTypeOK, PhaseInv, NoRow
<1>25. ASSUME NEW t \in Tasks, SettleFence(t)
      PROVE  PhaseInv'
  BY <1>25, ConstantsAssumption, WatchdogMoves
     DEF SettleFence, WatchdogStep, postgres, casVars, passes, restart, bounds,
         TypeInv, TypeOK, WorkerTypeOK, PhaseInv, NoRow
<1>26. ASSUME NEW t \in Tasks, ResumeSettlement(t)
      PROVE  PhaseInv'
  BY <1>26, ConstantsAssumption, WatchdogMoves
     DEF ResumeSettlement, WatchdogStep, postgres, casVars, slots, guards, passes,
         restart, bounds, TypeInv, TypeOK, WorkerTypeOK, PhaseInv, NoRow
<1>27. ASSUME NEW t \in Tasks, SettlementThrows(t)
      PROVE  PhaseInv'
  BY <1>27, ConstantsAssumption, WatchdogMoves
     DEF SettlementThrows, WatchdogStep, Fault, postgres, casVars, slots, guards,
         passes, restart, TypeInv, TypeOK, WorkerTypeOK, PhaseInv, NoRow
<1>28. ASSUME NEW t \in Tasks, LookAtStatus(t)
      PROVE  PhaseInv'
  BY <1>28, ConstantsAssumption, WatchdogMoves
     DEF LookAtStatus, WatchdogStep, postgres, casVars, slots, guards, passes,
         restart, bounds, TypeInv, TypeOK, WorkerTypeOK, PhaseInv, NoRow
<1>29. ASSUME NEW t \in Tasks, Unwatch(t)
      PROVE  PhaseInv'
  BY <1>29, ConstantsAssumption, WatchdogMoves
     DEF Unwatch, WatchdogStep, postgres, casVars, slots, passes, restart, bounds,
         TypeInv, TypeOK, WorkerTypeOK, PhaseInv, NoRow
<1>30. ASSUME NEW t \in Tasks, LoadTask(t)
      PROVE  PhaseInv'
  BY <1>30, ConstantsAssumption, StepsKept
     DEF LoadTask, postgres, casVars, slots, guards, passes, restart, bounds,
         TypeInv, TypeOK, WorkerTypeOK, PhaseInv, NoRow
<1>31. ASSUME NEW t \in Tasks, RescheduleTask(t)
      PROVE  PhaseInv'
  BY <1>31, ConstantsAssumption, StepsKept
     DEF RescheduleTask, Enqueue, CanEnqueue, Live, casVars, slots, guards, passes,
         restart, bounds, TypeInv, TypeOK, WorkerTypeOK, PhaseInv, NoRow
<1>32. ASSUME NEW t \in Tasks, ReschedulerThrows(t)
      PROVE  PhaseInv'
  BY <1>32, ConstantsAssumption, StepsKept
     DEF ReschedulerThrows, EnqueueThrows, CanEnqueue, Live, bounds, Fault, Enqueue,
         NoPass, casVars, slots, guards, passes, restart, TypeInv, TypeOK,
         WorkerTypeOK, PhaseInv, NoRow
<1>33. ASSUME NEW t \in Tasks, DeleteLease(t)
      PROVE  PhaseInv'
  BY <1>33, ConstantsAssumption, StepsKept
     DEF DeleteLease, NextLease, NoPass, casVars, slots, guards, passes, restart,
         bounds, TypeInv, TypeOK, WorkerTypeOK, PhaseInv, NoRow
<1>34. ASSUME NEW t \in Tasks, RequeueStale(t)
      PROVE  PhaseInv'
  BY <1>34, ConstantsAssumption, StepsKept
     DEF RequeueStale, NoRow, casVars, slots, guards, passes, bounds, TypeInv,
         TypeOK, WorkerTypeOK, PhaseInv
<1>35. ASSUME NEW t \in Tasks, RequeueThrows(t)
      PROVE  PhaseInv'
  BY <1>35, ConstantsAssumption, StepsKept
     DEF RequeueThrows, NoRow, Fault, postgres, casVars, slots, guards, passes,
         TypeInv, TypeOK, WorkerTypeOK, PhaseInv
<1>36. ASSUME NEW t \in Tasks, EnqueueStale(t)
      PROVE  PhaseInv'
  BY <1>36, ConstantsAssumption, StepsKept
     DEF EnqueueStale, Enqueue, CanEnqueue, Live, NoRow, casVars, slots, guards,
         passes, bounds, TypeInv, TypeOK, WorkerTypeOK, PhaseInv
<1>37. ASSUME NEW t \in Tasks, RecoveryThrows(t)
      PROVE  PhaseInv'
  BY <1>37, ConstantsAssumption, StepsKept
     DEF RecoveryThrows, EnqueueThrows, CanEnqueue, Live, passes, bounds, Fault,
         Enqueue, casVars, slots, guards, TypeInv, TypeOK, WorkerTypeOK, PhaseInv,
         NoRow
<1>38. ASSUME NEW t \in Tasks, FailStale(t)
      PROVE  PhaseInv'
  BY <1>38, ConstantsAssumption, StepsKept
     DEF FailStale, NoRow, casVars, slots, guards, passes, bounds, TypeInv, TypeOK,
         WorkerTypeOK, PhaseInv
<1>39. ASSUME NEW t \in Tasks, NEW w \in Writers, TransitionAction(w, t)
      PROVE  PhaseInv'
  <2>1. UNCHANGED restart
    BY <1>39, TransitionKeeps
  <2>2. w \in {"handler", "watchdog"} => phase \notin {"down", "recovering"}
    BY <1>39, TransitionCases, TargetSteps DEF TypeInv, PhaseInv, Handler, Watchdog
  <2>3. w \notin {"handler", "watchdog"} =>
          \A u \in Tasks : Handler(u)' = Handler(u) /\ Watchdog(u)' = Watchdog(u)
    BY <1>39, TransitionCases DEF TypeInv, Handler, Watchdog, Writers
  <2> QED  BY <2>1, <2>2, <2>3 DEF PhaseInv, passes, restart
<1>40. ASSUME NEW due \in SUBSET lease, ListDueLeases(due)
      PROVE  PhaseInv'
  BY <1>40, StepsKept
     DEF ListDueLeases, NoPass, Busy, NextLease, postgres, casVars, slots, guards,
         passes, restart, bounds, TypeInv, TypeOK, WorkerTypeOK, PhaseInv, NoRow
<1>41. CASE StartWorker
  BY <1>41, ConstantsAssumption, StepsKept
     DEF StartWorker, postgres, casVars, slots, guards, passes, bounds, TypeInv,
         TypeOK, WorkerTypeOK, PhaseInv, NoRow
<1>42. CASE Subscribe
  BY <1>42, ConstantsAssumption, StepsKept
     DEF Subscribe, NoRow, postgres, casVars, slots, guards, passes, bounds,
         TypeInv, TypeOK, WorkerTypeOK, PhaseInv, NoRow
<1>43. CASE Shutdown
  BY <1>43, ConstantsAssumption, StepsKept
     DEF Shutdown, postgres, casVars, slots, guards, passes, TypeInv, TypeOK,
         WorkerTypeOK, PhaseInv, NoRow
<1>44. CASE Crash
  BY <1>44, ConstantsAssumption, ForgetMoves
     DEF Crash, ForgetAll, NoPass, NoRow, postgres, passes, TypeInv, TypeOK,
         WorkerTypeOK, PhaseInv, NoRow
<1>45. CASE Exit
  BY <1>45, ConstantsAssumption, ForgetMoves
     DEF Exit, ForgetAll, NoPass, NoRow, Busy, postgres, passes, bounds, TypeInv,
         TypeOK, WorkerTypeOK, PhaseInv, NoRow
<1>46. CASE ForcedExit
  BY <1>46, ConstantsAssumption, ForgetMoves
     DEF ForcedExit, ForgetAll, NoPass, NoRow, Busy, passes, bounds, TypeInv,
         TypeOK, WorkerTypeOK, PhaseInv, NoRow
<1>47. CASE UNCHANGED vars
  BY <1>47, StepsKept
     DEF vars, postgres, casVars, slots, guards, passes, restart, bounds, TypeInv,
         TypeOK, WorkerTypeOK, PhaseInv, NoRow
<1> QED
  BY <1>1, <1>2, <1>3, <1>4, <1>5, <1>6, <1>7, <1>8, <1>9, <1>10, <1>11, <1>12,
     <1>13, <1>14, <1>15, <1>16, <1>17, <1>18, <1>19, <1>20, <1>21, <1>22, <1>23,
     <1>24, <1>25, <1>26, <1>27, <1>28, <1>29, <1>30, <1>31, <1>32, <1>33, <1>34,
     <1>35, <1>36, <1>37, <1>38, <1>39, <1>40, <1>41, <1>42, <1>43, <1>44, <1>45,
     <1>46, <1>47
     DEF Next, TaskNext, ApiTurn, HandlerTurn, SettlementTurn, ReschedulerTurn,
         RecoveryTurn, WorkerTurn, TransitionAction, Writers

\* Faults and stops are counted, and only a turn makes a task running.
LEMMA UnstoppedStep ==
  ASSUME TypeInv, PhaseInv, UnstoppedInv, [Next]_vars
  PROVE  /\ UnstoppedInv'
         /\ faults \in Nat /\ faults' \in Nat /\ faults' >= faults
         /\ stops \in Nat /\ stops' \in Nat /\ stops' >= stops
<1> USE DEF postgres, passes, bounds
<1>1. TypeInv' /\ TypeOK
  BY TypeStep DEF TypeInv
<1>2. faults \in Nat /\ stops \in Nat /\ faults' \in Nat /\ stops' \in Nat
  BY <1>1, ConstantsAssumption DEF TypeInv, TypeOK, BoundsTypeOK
<1> SUFFICES UnstoppedInv' /\ faults' >= faults /\ stops' >= stops
  BY <1>2
<1>3. ASSUME UNCHANGED <<status, phase, stale, recovery>>, faults' >= faults, stops' >= stops
      PROVE  UnstoppedInv'
  BY <1>2, <1>3 DEF UnstoppedInv
<1>4. ASSUME NEW t \in Tasks, CreateTask(t)
      PROVE  UnstoppedInv' /\ faults' >= faults /\ stops' >= stops
  BY <1>1, <1>2, <1>4 DEF CreateTask, passes, restart, UnstoppedInv, TypeOK,
                          PostgresTypeOK
<1>5. ASSUME NEW t \in Tasks, NEW w \in Writers, TransitionAction(w, t)
      PROVE  UnstoppedInv' /\ faults' >= faults /\ stops' >= stops
  <2>1. faults' >= faults /\ stops' >= stops
    BY <1>2, <1>5 DEF TransitionAction, TransitionTask, ReadStatus, RefuseTransition,
         CommitTransition, RetryTransition, GiveUpTransition, FailTransition, Fault
  <2>2. UNCHANGED restart
    BY <1>5, TransitionKeeps
  <2>3. \/ UNCHANGED status
        \/ status' = [status EXCEPT ![t] = Target[at[w][t]]]
    BY <1>5, TransitionCases DEF TypeInv
  <2>4. w \in {"handler", "watchdog"} => phase \notin {"down", "recovering"}
    BY <1>5, TransitionCases, TargetSteps DEF TypeInv, PhaseInv, Handler, Watchdog
  <2>5. w \in {"api", "form"} => Target[at[w][t]] # "running"
    <3>1. /\ at[w][t] \in DOMAIN Target
          /\ w = "api" => at[w][t] \in ApiStep
          /\ w = "form" => at[w][t] \in FormStep
      BY <1>1, <1>5, TransitionCases DEF TypeInv, TypeOK, StepsTypeOK, Api, Form
    <3> QED  BY <3>1, TargetSteps DEF Target, ApiStep, LarkStep, SlackStep, FormStep
  <2> QED  BY <1>1, <1>2, <2>1, <2>2, <2>3, <2>4, <2>5
           DEF UnstoppedInv, passes, restart, Writers, TypeOK, PostgresTypeOK
<1>6. ASSUME NEW t \in Tasks,
             \/ ApiEnqueues(t) \/ ApiEnqueueThrows(t) \/ Redeliver(t)
             \/ \E action \in {"confirming", "rejecting"} : FormClicked(t, action)
             \/ FetchJob(t) \/ CheckQueued(t) \/ OverBudget(t) \/ Admit(t) \/ Deny(t)
             \/ DeferTask(t) \/ BeginTurn(t) \/ StartRuntime(t) \/ EndRuntime(t)
             \/ WrapUp(t) \/ FenceStops(t) \/ Report(t) \/ FinallyBlock(t) \/ EndJob(t)
             \/ HandlerThrows(t) \/ EndJobUnrecorded(t) \/ ExpireJob(t)
      PROVE  UnstoppedInv' /\ faults' >= faults /\ stops' >= stops
  <2>1. UNCHANGED <<status, phase, stale, recovery>> /\ faults' >= faults /\ stops' >= stops
    BY <1>2, <1>6 DEF passes, restart, Fault, EnqueueThrows, ApiEnqueues,
                      ApiEnqueueThrows, Redeliver, FormClicked, FetchJob,
                      CheckQueued, OverBudget, Admit, Deny, DeferTask, BeginTurn,
                      StartRuntime, EndRuntime, WrapUp, FenceStops, Report,
                      FinallyBlock, EndJob, HandlerThrows, EndJobUnrecorded,
                      ExpireJob
  <2> QED  BY <1>3, <2>1
<1>7. ASSUME NEW t \in Tasks,
             \/ CancelRuntime(t) \/ FindNoRuntime(t) \/ SettleFence(t)
             \/ ResumeSettlement(t) \/ SettlementThrows(t) \/ LookAtStatus(t)
             \/ Unwatch(t)
             \/ LoadTask(t) \/ RescheduleTask(t) \/ ReschedulerThrows(t)
             \/ DeleteLease(t)
      PROVE  UnstoppedInv' /\ faults' >= faults /\ stops' >= stops
  <2>1. UNCHANGED <<status, phase, stale, recovery>> /\ faults' >= faults /\ stops' >= stops
    BY <1>2, <1>7 DEF passes, restart, Fault, EnqueueThrows, CancelRuntime,
                      FindNoRuntime, SettleFence, ResumeSettlement,
                      SettlementThrows, LookAtStatus, Unwatch, LoadTask,
                      RescheduleTask, ReschedulerThrows, DeleteLease
  <2> QED  BY <1>3, <2>1
<1>8. ASSUME NEW t \in Tasks,
             \/ RequeueStale(t) \/ RequeueThrows(t) \/ EnqueueStale(t)
             \/ RecoveryThrows(t) \/ FailStale(t)
      PROVE  UnstoppedInv' /\ faults' >= faults /\ stops' >= stops
  <2>1. t \in stale \/ recovery # NoRow
    BY <1>8 DEF RequeueStale, RequeueThrows, EnqueueStale, RecoveryThrows, FailStale, NoRow
  <2>2. faults' >= faults /\ stops' >= stops
    BY <1>2, <1>8 DEF RequeueStale, RequeueThrows, EnqueueStale, RecoveryThrows, FailStale,
                      EnqueueThrows, Fault
  <2> QED  BY <1>2, <2>1, <2>2 DEF UnstoppedInv
<1>9. CASE \E due \in SUBSET lease : ListDueLeases(due)
  BY <1>2, <1>3, <1>9 DEF ListDueLeases, passes, restart
<1>10. CASE StartWorker
  BY <1>2, <1>10 DEF StartWorker, UnstoppedInv
<1>11. CASE Subscribe
  BY <1>2, <1>11 DEF Subscribe, UnstoppedInv
<1>12. CASE Crash \/ Shutdown
  BY <1>2, <1>12 DEF Crash, Shutdown, UnstoppedInv
<1>13. CASE Exit \/ ForcedExit
  BY <1>2, <1>13 DEF Exit, ForcedExit, UnstoppedInv
<1>14. CASE UNCHANGED vars
  BY <1>2, <1>3, <1>14 DEF vars, passes, restart
<1> QED
  BY <1>4, <1>5, <1>6, <1>7, <1>8, <1>9, <1>10, <1>11, <1>12, <1>13, <1>14
     DEF Next, TaskNext, ApiTurn, HandlerTurn, SettlementTurn, ReschedulerTurn,
         RecoveryTurn, WorkerTurn, TransitionAction, Writers

\* Nobody but the API acts on a task whose job was not sent.
LEMMA FreshStep ==
  ASSUME TypeInv, FreshInv, faults' = 0 => faults = 0, [Next]_vars
  PROVE  FreshInv'
<1>1. ASSUME NEW t \in Tasks, CreateTask(t)
      PROVE  FreshInv'
  BY <1>1, ConstantsAssumption, ApiMoves
     DEF CreateTask, ApiStep, LarkStep, SlackStep, casVars, slots, guards, passes,
         restart, bounds, TypeInv, TypeOK, PostgresTypeOK, WorkerTypeOK, Unborn,
         FreshInv, Fresh
<1>2. ASSUME NEW t \in Tasks, ApiEnqueues(t)
      PROVE  FreshInv'
  BY <1>2, ConstantsAssumption, ApiMoves
     DEF ApiEnqueues, ApiStep, LarkStep, SlackStep, Enqueue, CanEnqueue, Live,
         casVars, slots, guards, passes, restart, bounds, TypeInv, TypeOK,
         PostgresTypeOK, WorkerTypeOK, Unborn, FreshInv, Fresh
<1>3. ASSUME NEW t \in Tasks, ApiEnqueueThrows(t)
      PROVE  FreshInv'
  BY <1>3, ConstantsAssumption, ApiMoves
     DEF ApiEnqueueThrows, ApiStep, LarkStep, SlackStep, EnqueueThrows, CanEnqueue,
         Live, bounds, Fault, Enqueue, casVars, slots, guards, passes, restart,
         TypeInv, TypeOK, PostgresTypeOK, WorkerTypeOK, Unborn, FreshInv, Fresh
<1>4. ASSUME NEW t \in Tasks, Redeliver(t)
      PROVE  FreshInv'
  BY <1>4, ConstantsAssumption, ApiMoves
     DEF Redeliver, ApiStep, LarkStep, SlackStep, postgres, casVars, slots, guards,
         passes, restart, TypeInv, TypeOK, PostgresTypeOK, WorkerTypeOK, Unborn,
         FreshInv, Fresh
<1>5. ASSUME NEW t \in Tasks, NEW action \in {"confirming", "rejecting"}, FormClicked(t, action)
      PROVE  FreshInv'
  BY <1>5, ConstantsAssumption, FormMoves
     DEF FormClicked, FormStep, postgres, casVars, slots, guards, passes, restart,
         bounds, TypeInv, TypeOK, PostgresTypeOK, WorkerTypeOK, Unborn, FreshInv,
         Fresh
<1>6. ASSUME NEW t \in Tasks, FetchJob(t)
      PROVE  FreshInv'
  BY <1>6, ConstantsAssumption, TurnMoves
     DEF FetchJob, HandlerStep, Admitted, Busy, casVars, slots, guards, passes,
         restart, bounds, TypeInv, TypeOK, PostgresTypeOK, WorkerTypeOK, Unborn,
         FreshInv, Fresh
<1>7. ASSUME NEW t \in Tasks, CheckQueued(t)
      PROVE  FreshInv'
  BY <1>7, ConstantsAssumption, TurnMoves
     DEF CheckQueued, HandlerStep, Admitted, postgres, casVars, slots, guards,
         passes, restart, bounds, TypeInv, TypeOK, PostgresTypeOK, WorkerTypeOK,
         Unborn, FreshInv, Fresh
<1>8. ASSUME NEW t \in Tasks, OverBudget(t)
      PROVE  FreshInv'
  BY <1>8, ConstantsAssumption, TurnMoves
     DEF OverBudget, HandlerStep, Admitted, casVars, slots, guards, passes, restart,
         bounds, TypeInv, TypeOK, PostgresTypeOK, WorkerTypeOK, Unborn, FreshInv,
         Fresh
<1>9. ASSUME NEW t \in Tasks, Admit(t)
      PROVE  FreshInv'
  BY <1>9, ConstantsAssumption, TurnMoves
     DEF Admit, HandlerStep, Admitted, postgres, casVars, guards, passes, restart,
         bounds, TypeInv, TypeOK, PostgresTypeOK, WorkerTypeOK, Unborn, FreshInv,
         Fresh
<1>10. ASSUME NEW t \in Tasks, Deny(t)
      PROVE  FreshInv'
  BY <1>10, ConstantsAssumption, TurnMoves
     DEF Deny, HandlerStep, Admitted, postgres, casVars, slots, guards, passes,
         restart, bounds, TypeInv, TypeOK, PostgresTypeOK, WorkerTypeOK, Unborn,
         FreshInv, Fresh
<1>11. ASSUME NEW t \in Tasks, DeferTask(t)
      PROVE  FreshInv'
  BY <1>11, ConstantsAssumption, TurnMoves
     DEF DeferTask, HandlerStep, Admitted, casVars, slots, guards, passes, restart,
         bounds, TypeInv, TypeOK, PostgresTypeOK, WorkerTypeOK, Unborn, FreshInv,
         Fresh
<1>12. ASSUME NEW t \in Tasks, BeginTurn(t)
      PROVE  FreshInv'
  BY <1>12, ConstantsAssumption, TurnMoves
     DEF BeginTurn, HandlerStep, Admitted, casVars, slots, passes, restart, bounds,
         TypeInv, TypeOK, PostgresTypeOK, WorkerTypeOK, Unborn, FreshInv, Fresh
<1>13. ASSUME NEW t \in Tasks, StartRuntime(t)
      PROVE  FreshInv'
  BY <1>13, ConstantsAssumption, TurnMoves
     DEF StartRuntime, HandlerStep, Admitted, postgres, casVars, guards, passes,
         restart, bounds, TypeInv, TypeOK, PostgresTypeOK, WorkerTypeOK, Unborn,
         FreshInv, Fresh
<1>14. ASSUME NEW t \in Tasks, EndRuntime(t)
      PROVE  FreshInv'
  BY <1>14, ConstantsAssumption, TurnMoves
     DEF EndRuntime, HandlerStep, Admitted, postgres, casVars, slots, guards,
         passes, restart, bounds, TypeInv, TypeOK, PostgresTypeOK, WorkerTypeOK,
         Unborn, FreshInv, Fresh
<1>15. ASSUME NEW t \in Tasks, WrapUp(t)
      PROVE  FreshInv'
  BY <1>15, ConstantsAssumption, TurnMoves
     DEF WrapUp, HandlerStep, Admitted, postgres, casVars, slots, guards, passes,
         restart, bounds, TypeInv, TypeOK, PostgresTypeOK, WorkerTypeOK, Unborn,
         FreshInv, Fresh
<1>16. ASSUME NEW t \in Tasks, FenceStops(t)
      PROVE  FreshInv'
  BY <1>16, ConstantsAssumption, TurnMoves
     DEF FenceStops, HandlerStep, Admitted, postgres, casVars, slots, guards,
         passes, restart, bounds, TypeInv, TypeOK, PostgresTypeOK, WorkerTypeOK,
         Unborn, FreshInv, Fresh
<1>17. ASSUME NEW t \in Tasks, Report(t)
      PROVE  FreshInv'
  BY <1>17, ConstantsAssumption, TurnMoves
     DEF Report, HandlerStep, Admitted, postgres, casVars, slots, guards, passes,
         restart, bounds, TypeInv, TypeOK, PostgresTypeOK, WorkerTypeOK, Unborn,
         FreshInv, Fresh
<1>18. ASSUME NEW t \in Tasks, HandlerThrows(t)
      PROVE  FreshInv'
  BY <1>18, ConstantsAssumption, TurnMoves
     DEF HandlerThrows, HandlerStep, Admitted, Fault, postgres, casVars, slots,
         guards, passes, restart, TypeInv, TypeOK, PostgresTypeOK, WorkerTypeOK,
         Unborn, FreshInv, Fresh
<1>19. ASSUME NEW t \in Tasks, FinallyBlock(t)
      PROVE  FreshInv'
  BY <1>19, ConstantsAssumption, TurnMoves
     DEF FinallyBlock, HandlerStep, Admitted, postgres, casVars, passes, restart,
         bounds, TypeInv, TypeOK, PostgresTypeOK, WorkerTypeOK, Unborn, FreshInv,
         Fresh
<1>20. ASSUME NEW t \in Tasks, EndJob(t)
      PROVE  FreshInv'
  BY <1>20, ConstantsAssumption, TurnMoves
     DEF EndJob, HandlerStep, Admitted, casVars, slots, guards, passes, restart,
         bounds, TypeInv, TypeOK, PostgresTypeOK, WorkerTypeOK, Unborn, FreshInv,
         Fresh
<1>21. ASSUME NEW t \in Tasks, EndJobUnrecorded(t)
      PROVE  FreshInv'
  BY <1>21, ConstantsAssumption, TurnMoves
     DEF EndJobUnrecorded, HandlerStep, Admitted, Fault, postgres, casVars, slots,
         guards, passes, restart, TypeInv, TypeOK, PostgresTypeOK, WorkerTypeOK,
         Unborn, FreshInv, Fresh
<1>22. ASSUME NEW t \in Tasks, ExpireJob(t)
      PROVE  FreshInv'
  BY <1>22, ConstantsAssumption, StepsKept
     DEF ExpireJob, Busy, casVars, slots, guards, passes, restart, bounds, TypeInv,
         TypeOK, PostgresTypeOK, WorkerTypeOK, Unborn, FreshInv, Fresh
<1>23. ASSUME NEW t \in Tasks, CancelRuntime(t)
      PROVE  FreshInv'
  BY <1>23, ConstantsAssumption, StepsKept
     DEF CancelRuntime, Scannable, postgres, casVars, slots, passes, restart,
         bounds, TypeInv, TypeOK, PostgresTypeOK, WorkerTypeOK, Unborn, FreshInv,
         Fresh
<1>24. ASSUME NEW t \in Tasks, FindNoRuntime(t)
      PROVE  FreshInv'
  BY <1>24, ConstantsAssumption, WatchdogMoves
     DEF FindNoRuntime, WatchdogStep, Scannable, postgres, casVars, slots, guards,
         passes, restart, bounds, TypeInv, TypeOK, PostgresTypeOK, WorkerTypeOK,
         Unborn, FreshInv, Fresh
<1>25. ASSUME NEW t \in Tasks, SettleFence(t)
      PROVE  FreshInv'
  BY <1>25, ConstantsAssumption, WatchdogMoves
     DEF SettleFence, WatchdogStep, postgres, casVars, passes, restart, bounds,
         TypeInv, TypeOK, PostgresTypeOK, WorkerTypeOK, Unborn, FreshInv, Fresh
<1>26. ASSUME NEW t \in Tasks, ResumeSettlement(t)
      PROVE  FreshInv'
  BY <1>26, ConstantsAssumption, WatchdogMoves
     DEF ResumeSettlement, WatchdogStep, postgres, casVars, slots, guards, passes,
         restart, bounds, TypeInv, TypeOK, PostgresTypeOK, WorkerTypeOK, Unborn,
         FreshInv, Fresh
<1>27. ASSUME NEW t \in Tasks, SettlementThrows(t)
      PROVE  FreshInv'
  BY <1>27, ConstantsAssumption, WatchdogMoves
     DEF SettlementThrows, WatchdogStep, Fault, postgres, casVars, slots, guards,
         passes, restart, TypeInv, TypeOK, PostgresTypeOK, WorkerTypeOK, Unborn,
         FreshInv, Fresh
<1>28. ASSUME NEW t \in Tasks, LookAtStatus(t)
      PROVE  FreshInv'
  BY <1>28, ConstantsAssumption, WatchdogMoves
     DEF LookAtStatus, WatchdogStep, postgres, casVars, slots, guards, passes,
         restart, bounds, TypeInv, TypeOK, PostgresTypeOK, WorkerTypeOK, Unborn,
         FreshInv, Fresh
<1>29. ASSUME NEW t \in Tasks, Unwatch(t)
      PROVE  FreshInv'
  BY <1>29, ConstantsAssumption, WatchdogMoves
     DEF Unwatch, WatchdogStep, postgres, casVars, slots, passes, restart, bounds,
         TypeInv, TypeOK, PostgresTypeOK, WorkerTypeOK, Unborn, FreshInv, Fresh
<1>30. ASSUME NEW t \in Tasks, LoadTask(t)
      PROVE  FreshInv'
  BY <1>30, ConstantsAssumption, StepsKept
     DEF LoadTask, postgres, casVars, slots, guards, passes, restart, bounds,
         TypeInv, TypeOK, PostgresTypeOK, WorkerTypeOK, Unborn, FreshInv, Fresh
<1>31. ASSUME NEW t \in Tasks, RescheduleTask(t)
      PROVE  FreshInv'
  BY <1>31, ConstantsAssumption, StepsKept
     DEF RescheduleTask, Enqueue, CanEnqueue, Live, casVars, slots, guards, passes,
         restart, bounds, TypeInv, TypeOK, PostgresTypeOK, WorkerTypeOK, Unborn,
         FreshInv, Fresh
<1>32. ASSUME NEW t \in Tasks, ReschedulerThrows(t)
      PROVE  FreshInv'
  BY <1>32, ConstantsAssumption, StepsKept
     DEF ReschedulerThrows, EnqueueThrows, CanEnqueue, Live, bounds, Fault, Enqueue,
         NoPass, casVars, slots, guards, passes, restart, TypeInv, TypeOK,
         PostgresTypeOK, WorkerTypeOK, Unborn, FreshInv, Fresh
<1>33. ASSUME NEW t \in Tasks, DeleteLease(t)
      PROVE  FreshInv'
  BY <1>33, ConstantsAssumption, StepsKept
     DEF DeleteLease, NextLease, NoPass, casVars, slots, guards, passes, restart,
         bounds, TypeInv, TypeOK, PostgresTypeOK, WorkerTypeOK, Unborn, FreshInv,
         Fresh
<1>34. ASSUME NEW t \in Tasks, RequeueStale(t)
      PROVE  FreshInv'
  BY <1>34, ConstantsAssumption, StepsKept
     DEF RequeueStale, NoRow, casVars, slots, guards, passes, bounds, TypeInv,
         TypeOK, PostgresTypeOK, WorkerTypeOK, Unborn, FreshInv, Fresh
<1>35. ASSUME NEW t \in Tasks, RequeueThrows(t)
      PROVE  FreshInv'
  BY <1>35, ConstantsAssumption, StepsKept
     DEF RequeueThrows, NoRow, Fault, postgres, casVars, slots, guards, passes,
         TypeInv, TypeOK, PostgresTypeOK, WorkerTypeOK, Unborn, FreshInv, Fresh
<1>36. ASSUME NEW t \in Tasks, EnqueueStale(t)
      PROVE  FreshInv'
  BY <1>36, ConstantsAssumption, StepsKept
     DEF EnqueueStale, Enqueue, CanEnqueue, Live, NoRow, casVars, slots, guards,
         passes, bounds, TypeInv, TypeOK, PostgresTypeOK, WorkerTypeOK, Unborn,
         FreshInv, Fresh
<1>37. ASSUME NEW t \in Tasks, RecoveryThrows(t)
      PROVE  FreshInv'
  BY <1>37, ConstantsAssumption, StepsKept
     DEF RecoveryThrows, EnqueueThrows, CanEnqueue, Live, passes, bounds, Fault,
         Enqueue, casVars, slots, guards, TypeInv, TypeOK, PostgresTypeOK,
         WorkerTypeOK, Unborn, FreshInv, Fresh
<1>38. ASSUME NEW t \in Tasks, FailStale(t)
      PROVE  FreshInv'
  BY <1>38, ConstantsAssumption, StepsKept
     DEF FailStale, NoRow, casVars, slots, guards, passes, bounds, TypeInv, TypeOK,
         PostgresTypeOK, WorkerTypeOK, Unborn, FreshInv, Fresh
<1>39. ASSUME NEW t \in Tasks, NEW w \in Writers, TransitionAction(w, t)
      PROVE  FreshInv'
  <2>1. /\ UNCHANGED <<job, rows, lease, slots, guards, passes, restart>>
        /\ StepsTypeOK'
        /\ at[w][t] \in DOMAIN Target
        /\ \A v \in Writers, u \in Tasks : v # w \/ u # t => at'[v][u] = at[v][u]
        /\ \A u \in Tasks : u # t => status'[u] = status[u]
        /\ \/ at'[w][t] = at[w][t] /\ UNCHANGED status
           \/ /\ at'[w][t] \in {Refused[at[w][t]], Errored[at[w][t]]}
              /\ UNCHANGED status
           \/ /\ at'[w][t] = Committed[at[w][t]]
              /\ status'[t] = Target[at[w][t]]
    BY <1>39, TransitionKeeps, TransitionCases DEF TypeInv, TypeOK, PostgresTypeOK
  <2>2. Fresh(t)' => w = "api" /\ Fresh(t) /\ Api(t) # "idle" /\ Api(t)' # "idle"
                      /\ status'[t] # "absent"
                      /\ status'[t] \in {status[t], "queued"}
    <3>1. CASE w # "api"
      <4>1. Api(t)' = Api(t)
        BY <3>1, <2>1 DEF Api, Writers
      <4>2. ~Fresh(t)
        BY <3>1, <2>1, TargetSteps DEF FreshInv, Handler, Watchdog, Form, Writers
      <4> QED  BY <4>1, <4>2 DEF Fresh
    <3>2. CASE w = "api"
      <4>1. Api(t) \in {"queueing", "requeueing", "compensating"}
        BY <3>2, <2>1, TargetSteps DEF TypeInv, TypeOK, StepsTypeOK, Api, ApiStep, LarkStep,
                                       SlackStep
      <4>2. \/ Api(t)' = Api(t) /\ status'[t] = status[t]
            \/ /\ Api(t)' \in {Refused[Api(t)], Errored[Api(t)]}
               /\ status'[t] = status[t]
            \/ /\ Api(t)' = Committed[Api(t)]
               /\ status'[t] = Target[Api(t)]
        BY <3>2, <2>1 DEF Api
      <4>3. Fresh(t)' =>
              /\ \/ Api(t) = "queueing"
                 \/ Api(t) = "compensating" /\ Api(t)' = "compensating"
              /\ status'[t] = status[t] \/ status'[t] = "queued"
        BY <4>1, <4>2, TargetSteps DEF Fresh, Refused, Errored, Committed, Target
      <4>4. Fresh(t)' => Api(t)' # "idle"
        BY <4>1, <4>2, TargetSteps DEF Refused, Errored, Committed
      <4>5. Fresh(t)' => Fresh(t)
        BY <4>3 DEF Fresh
      <4> QED  BY <3>2, <4>3, <4>4, <4>5 DEF Fresh, FreshInv
    <3> QED  BY <3>1, <3>2
  <2>3. ASSUME NEW u \in Tasks, u # t \/ w = "api"
        PROVE  Handler(u)' = Handler(u) /\ Watchdog(u)' = Watchdog(u) /\ Form(u)' = Form(u)
    BY <2>1, <2>3 DEF Handler, Watchdog, Form, Writers
  <2>4. \A u \in Tasks : u # t => Api(u)' = Api(u)
    BY <2>1 DEF Api, Writers
  <2> QED  BY <2>1, <2>2, <2>3, <2>4 DEF FreshInv, Fresh, guards, passes, restart
<1>40. ASSUME NEW due \in SUBSET lease, ListDueLeases(due)
      PROVE  FreshInv'
  BY <1>40, StepsKept
     DEF ListDueLeases, NoPass, Busy, NextLease, postgres, casVars, slots, guards,
         passes, restart, bounds, TypeInv, TypeOK, PostgresTypeOK, WorkerTypeOK,
         Unborn, FreshInv, Fresh
<1>41. CASE StartWorker
  BY <1>41, ConstantsAssumption, StepsKept
     DEF StartWorker, postgres, casVars, slots, guards, passes, bounds, TypeInv,
         TypeOK, PostgresTypeOK, WorkerTypeOK, Unborn, FreshInv, Fresh
<1>42. CASE Subscribe
  BY <1>42, ConstantsAssumption, StepsKept
     DEF Subscribe, NoRow, postgres, casVars, slots, guards, passes, bounds,
         TypeInv, TypeOK, PostgresTypeOK, WorkerTypeOK, Unborn, FreshInv, Fresh
<1>43. CASE Shutdown
  BY <1>43, ConstantsAssumption, StepsKept
     DEF Shutdown, postgres, casVars, slots, guards, passes, TypeInv, TypeOK,
         PostgresTypeOK, WorkerTypeOK, Unborn, FreshInv, Fresh
<1>44. CASE Crash
  BY <1>44, ConstantsAssumption, ForgetMoves
     DEF Crash, ForgetAll, NoPass, NoRow, postgres, passes, TypeInv, TypeOK,
         PostgresTypeOK, WorkerTypeOK, Unborn, FreshInv, Fresh
<1>45. CASE Exit
  BY <1>45, ConstantsAssumption, ForgetMoves
     DEF Exit, ForgetAll, NoPass, NoRow, Busy, postgres, passes, bounds, TypeInv,
         TypeOK, PostgresTypeOK, WorkerTypeOK, Unborn, FreshInv, Fresh
<1>46. CASE ForcedExit
  BY <1>46, ConstantsAssumption, ForgetMoves
     DEF ForcedExit, ForgetAll, NoPass, NoRow, Busy, passes, bounds, TypeInv,
         TypeOK, PostgresTypeOK, WorkerTypeOK, Unborn, FreshInv, Fresh
<1>47. CASE UNCHANGED vars
  BY <1>47, StepsKept
     DEF vars, postgres, casVars, slots, guards, passes, restart, bounds, TypeInv,
         TypeOK, PostgresTypeOK, WorkerTypeOK, Unborn, FreshInv, Fresh
<1> QED
  BY <1>1, <1>2, <1>3, <1>4, <1>5, <1>6, <1>7, <1>8, <1>9, <1>10, <1>11, <1>12,
     <1>13, <1>14, <1>15, <1>16, <1>17, <1>18, <1>19, <1>20, <1>21, <1>22, <1>23,
     <1>24, <1>25, <1>26, <1>27, <1>28, <1>29, <1>30, <1>31, <1>32, <1>33, <1>34,
     <1>35, <1>36, <1>37, <1>38, <1>39, <1>40, <1>41, <1>42, <1>43, <1>44, <1>45,
     <1>46, <1>47
     DEF Next, TaskNext, ApiTurn, HandlerTurn, SettlementTurn, ReschedulerTurn,
         RecoveryTurn, WorkerTurn, TransitionAction, Writers

\* A status being written was read, and may be left for the target.
LEMMA SeenStep ==
  ASSUME TypeInv, SeenInv, [Next]_vars
  PROVE  SeenInv'
<1>1. ASSUME NEW t \in Tasks, CreateTask(t)
      PROVE  SeenInv'
  BY <1>1, TargetSteps, ApiMoves
     DEF CreateTask, ApiStep, LarkStep, SlackStep, casVars, slots, guards, passes,
         restart, bounds, TypeInv, TypeOK, Unborn
<1>2. ASSUME NEW t \in Tasks, ApiEnqueues(t)
      PROVE  SeenInv'
  BY <1>2, TargetSteps, ApiMoves
     DEF ApiEnqueues, ApiStep, LarkStep, SlackStep, Enqueue, CanEnqueue, Live,
         casVars, slots, guards, passes, restart, bounds, TypeInv, TypeOK, Unborn
<1>3. ASSUME NEW t \in Tasks, ApiEnqueueThrows(t)
      PROVE  SeenInv'
  BY <1>3, TargetSteps, ApiMoves
     DEF ApiEnqueueThrows, ApiStep, LarkStep, SlackStep, EnqueueThrows, CanEnqueue,
         Live, bounds, Fault, Enqueue, casVars, slots, guards, passes, restart,
         TypeInv, TypeOK, Unborn
<1>4. ASSUME NEW t \in Tasks, Redeliver(t)
      PROVE  SeenInv'
  BY <1>4, TargetSteps, ApiMoves
     DEF Redeliver, ApiStep, LarkStep, SlackStep, postgres, casVars, slots, guards,
         passes, restart, TypeInv, TypeOK, Unborn
<1>5. ASSUME NEW t \in Tasks, NEW action \in {"confirming", "rejecting"}, FormClicked(t, action)
      PROVE  SeenInv'
  BY <1>5, TargetSteps, FormMoves
     DEF FormClicked, FormStep, postgres, casVars, slots, guards, passes, restart,
         bounds, TypeInv, TypeOK, Unborn
<1>6. ASSUME NEW t \in Tasks, FetchJob(t)
      PROVE  SeenInv'
  BY <1>6, TargetSteps, TurnMoves
     DEF FetchJob, HandlerStep, Admitted, Busy, casVars, slots, guards, passes,
         restart, bounds, TypeInv, TypeOK, Unborn
<1>7. ASSUME NEW t \in Tasks, CheckQueued(t)
      PROVE  SeenInv'
  BY <1>7, TargetSteps, TurnMoves
     DEF CheckQueued, HandlerStep, Admitted, postgres, casVars, slots, guards,
         passes, restart, bounds, TypeInv, TypeOK, Unborn
<1>8. ASSUME NEW t \in Tasks, OverBudget(t)
      PROVE  SeenInv'
  BY <1>8, TargetSteps, TurnMoves
     DEF OverBudget, HandlerStep, Admitted, casVars, slots, guards, passes, restart,
         bounds, TypeInv, TypeOK, Unborn
<1>9. ASSUME NEW t \in Tasks, Admit(t)
      PROVE  SeenInv'
  BY <1>9, TargetSteps, TurnMoves
     DEF Admit, HandlerStep, Admitted, postgres, casVars, guards, passes, restart,
         bounds, TypeInv, TypeOK, Unborn
<1>10. ASSUME NEW t \in Tasks, Deny(t)
      PROVE  SeenInv'
  BY <1>10, TargetSteps, TurnMoves
     DEF Deny, HandlerStep, Admitted, postgres, casVars, slots, guards, passes,
         restart, bounds, TypeInv, TypeOK, Unborn
<1>11. ASSUME NEW t \in Tasks, DeferTask(t)
      PROVE  SeenInv'
  BY <1>11, TargetSteps, TurnMoves
     DEF DeferTask, HandlerStep, Admitted, casVars, slots, guards, passes, restart,
         bounds, TypeInv, TypeOK, Unborn
<1>12. ASSUME NEW t \in Tasks, BeginTurn(t)
      PROVE  SeenInv'
  BY <1>12, TargetSteps, TurnMoves
     DEF BeginTurn, HandlerStep, Admitted, casVars, slots, passes, restart, bounds,
         TypeInv, TypeOK, Unborn
<1>13. ASSUME NEW t \in Tasks, StartRuntime(t)
      PROVE  SeenInv'
  BY <1>13, TargetSteps, TurnMoves
     DEF StartRuntime, HandlerStep, Admitted, postgres, casVars, guards, passes,
         restart, bounds, TypeInv, TypeOK, Unborn
<1>14. ASSUME NEW t \in Tasks, EndRuntime(t)
      PROVE  SeenInv'
  BY <1>14, TargetSteps, TurnMoves
     DEF EndRuntime, HandlerStep, Admitted, postgres, casVars, slots, guards,
         passes, restart, bounds, TypeInv, TypeOK, Unborn
<1>15. ASSUME NEW t \in Tasks, WrapUp(t)
      PROVE  SeenInv'
  BY <1>15, TargetSteps, TurnMoves
     DEF WrapUp, HandlerStep, Admitted, postgres, casVars, slots, guards, passes,
         restart, bounds, TypeInv, TypeOK, Unborn
<1>16. ASSUME NEW t \in Tasks, FenceStops(t)
      PROVE  SeenInv'
  BY <1>16, TargetSteps, TurnMoves
     DEF FenceStops, HandlerStep, Admitted, postgres, casVars, slots, guards,
         passes, restart, bounds, TypeInv, TypeOK, Unborn
<1>17. ASSUME NEW t \in Tasks, Report(t)
      PROVE  SeenInv'
  BY <1>17, TargetSteps, TurnMoves
     DEF Report, HandlerStep, Admitted, postgres, casVars, slots, guards, passes,
         restart, bounds, TypeInv, TypeOK, Unborn
<1>18. ASSUME NEW t \in Tasks, HandlerThrows(t)
      PROVE  SeenInv'
  BY <1>18, TargetSteps, TurnMoves
     DEF HandlerThrows, HandlerStep, Admitted, Fault, postgres, casVars, slots,
         guards, passes, restart, TypeInv, TypeOK, Unborn
<1>19. ASSUME NEW t \in Tasks, FinallyBlock(t)
      PROVE  SeenInv'
  BY <1>19, TargetSteps, TurnMoves
     DEF FinallyBlock, HandlerStep, Admitted, postgres, casVars, passes, restart,
         bounds, TypeInv, TypeOK, Unborn
<1>20. ASSUME NEW t \in Tasks, EndJob(t)
      PROVE  SeenInv'
  BY <1>20, TargetSteps, TurnMoves
     DEF EndJob, HandlerStep, Admitted, casVars, slots, guards, passes, restart,
         bounds, TypeInv, TypeOK, Unborn
<1>21. ASSUME NEW t \in Tasks, EndJobUnrecorded(t)
      PROVE  SeenInv'
  BY <1>21, TargetSteps, TurnMoves
     DEF EndJobUnrecorded, HandlerStep, Admitted, Fault, postgres, casVars, slots,
         guards, passes, restart, TypeInv, TypeOK, Unborn
<1>22. ASSUME NEW t \in Tasks, ExpireJob(t)
      PROVE  SeenInv'
  BY <1>22, TargetSteps, StepsKept
     DEF ExpireJob, Busy, casVars, slots, guards, passes, restart, bounds, TypeInv,
         TypeOK, Unborn
<1>23. ASSUME NEW t \in Tasks, CancelRuntime(t)
      PROVE  SeenInv'
  BY <1>23, TargetSteps, StepsKept
     DEF CancelRuntime, Scannable, postgres, casVars, slots, passes, restart,
         bounds, TypeInv, TypeOK, Unborn
<1>24. ASSUME NEW t \in Tasks, FindNoRuntime(t)
      PROVE  SeenInv'
  BY <1>24, TargetSteps, WatchdogMoves
     DEF FindNoRuntime, WatchdogStep, Scannable, postgres, casVars, slots, guards,
         passes, restart, bounds, TypeInv, TypeOK, Unborn
<1>25. ASSUME NEW t \in Tasks, SettleFence(t)
      PROVE  SeenInv'
  BY <1>25, TargetSteps, WatchdogMoves
     DEF SettleFence, WatchdogStep, postgres, casVars, passes, restart, bounds,
         TypeInv, TypeOK, Unborn
<1>26. ASSUME NEW t \in Tasks, ResumeSettlement(t)
      PROVE  SeenInv'
  BY <1>26, TargetSteps, WatchdogMoves
     DEF ResumeSettlement, WatchdogStep, postgres, casVars, slots, guards, passes,
         restart, bounds, TypeInv, TypeOK, Unborn
<1>27. ASSUME NEW t \in Tasks, SettlementThrows(t)
      PROVE  SeenInv'
  BY <1>27, TargetSteps, WatchdogMoves
     DEF SettlementThrows, WatchdogStep, Fault, postgres, casVars, slots, guards,
         passes, restart, TypeInv, TypeOK, Unborn
<1>28. ASSUME NEW t \in Tasks, LookAtStatus(t)
      PROVE  SeenInv'
  BY <1>28, TargetSteps, WatchdogMoves
     DEF LookAtStatus, WatchdogStep, postgres, casVars, slots, guards, passes,
         restart, bounds, TypeInv, TypeOK, Unborn
<1>29. ASSUME NEW t \in Tasks, Unwatch(t)
      PROVE  SeenInv'
  BY <1>29, TargetSteps, WatchdogMoves
     DEF Unwatch, WatchdogStep, postgres, casVars, slots, passes, restart, bounds,
         TypeInv, TypeOK, Unborn
<1>30. ASSUME NEW t \in Tasks, LoadTask(t)
      PROVE  SeenInv'
  BY <1>30, TargetSteps, StepsKept
     DEF LoadTask, postgres, casVars, slots, guards, passes, restart, bounds,
         TypeInv, TypeOK, Unborn
<1>31. ASSUME NEW t \in Tasks, RescheduleTask(t)
      PROVE  SeenInv'
  BY <1>31, TargetSteps, StepsKept
     DEF RescheduleTask, Enqueue, CanEnqueue, Live, casVars, slots, guards, passes,
         restart, bounds, TypeInv, TypeOK, Unborn
<1>32. ASSUME NEW t \in Tasks, ReschedulerThrows(t)
      PROVE  SeenInv'
  BY <1>32, TargetSteps, StepsKept
     DEF ReschedulerThrows, EnqueueThrows, CanEnqueue, Live, bounds, Fault, Enqueue,
         NoPass, casVars, slots, guards, passes, restart, TypeInv, TypeOK, Unborn
<1>33. ASSUME NEW t \in Tasks, DeleteLease(t)
      PROVE  SeenInv'
  BY <1>33, TargetSteps, StepsKept
     DEF DeleteLease, NextLease, NoPass, casVars, slots, guards, passes, restart,
         bounds, TypeInv, TypeOK, Unborn
<1>34. ASSUME NEW t \in Tasks, RequeueStale(t)
      PROVE  SeenInv'
  BY <1>34, TargetSteps, StepsKept
     DEF RequeueStale, NoRow, casVars, slots, guards, passes, bounds, TypeInv,
         TypeOK, Unborn
<1>35. ASSUME NEW t \in Tasks, RequeueThrows(t)
      PROVE  SeenInv'
  BY <1>35, TargetSteps, StepsKept
     DEF RequeueThrows, NoRow, Fault, postgres, casVars, slots, guards, passes,
         TypeInv, TypeOK, Unborn
<1>36. ASSUME NEW t \in Tasks, EnqueueStale(t)
      PROVE  SeenInv'
  BY <1>36, TargetSteps, StepsKept
     DEF EnqueueStale, Enqueue, CanEnqueue, Live, NoRow, casVars, slots, guards,
         passes, bounds, TypeInv, TypeOK, Unborn
<1>37. ASSUME NEW t \in Tasks, RecoveryThrows(t)
      PROVE  SeenInv'
  BY <1>37, TargetSteps, StepsKept
     DEF RecoveryThrows, EnqueueThrows, CanEnqueue, Live, passes, bounds, Fault,
         Enqueue, casVars, slots, guards, TypeInv, TypeOK, Unborn
<1>38. ASSUME NEW t \in Tasks, FailStale(t)
      PROVE  SeenInv'
  BY <1>38, TargetSteps, StepsKept
     DEF FailStale, NoRow, casVars, slots, guards, passes, bounds, TypeInv, TypeOK,
         Unborn
<1>39. ASSUME NEW t \in Tasks, NEW w \in Writers, TransitionAction(w, t)
      PROVE  SeenInv'
  BY <1>39, TransitionCases DEF TypeInv, SeenInv
<1>40. ASSUME NEW due \in SUBSET lease, ListDueLeases(due)
      PROVE  SeenInv'
  BY <1>40, StepsKept
     DEF ListDueLeases, NoPass, Busy, NextLease, postgres, casVars, slots, guards,
         passes, restart, bounds, TypeInv, TypeOK, Unborn
<1>41. CASE StartWorker
  BY <1>41, TargetSteps, StepsKept
     DEF StartWorker, postgres, casVars, slots, guards, passes, bounds, TypeInv,
         TypeOK, Unborn
<1>42. CASE Subscribe
  BY <1>42, TargetSteps, StepsKept
     DEF Subscribe, NoRow, postgres, casVars, slots, guards, passes, bounds,
         TypeInv, TypeOK, Unborn
<1>43. CASE Shutdown
  BY <1>43, TargetSteps, StepsKept
     DEF Shutdown, postgres, casVars, slots, guards, passes, TypeInv, TypeOK, Unborn
<1>44. CASE Crash
  BY <1>44, TargetSteps, ForgetMoves
     DEF Crash, ForgetAll, NoPass, NoRow, postgres, passes, TypeInv, TypeOK, Unborn
<1>45. CASE Exit
  BY <1>45, TargetSteps, ForgetMoves
     DEF Exit, ForgetAll, NoPass, NoRow, Busy, postgres, passes, bounds, TypeInv,
         TypeOK, Unborn
<1>46. CASE ForcedExit
  BY <1>46, TargetSteps, ForgetMoves
     DEF ForcedExit, ForgetAll, NoPass, NoRow, Busy, passes, bounds, TypeInv,
         TypeOK, Unborn
<1>47. CASE UNCHANGED vars
  BY <1>47, StepsKept
     DEF vars, postgres, casVars, slots, guards, passes, restart, bounds, TypeInv,
         TypeOK, Unborn
<1> QED
  BY <1>1, <1>2, <1>3, <1>4, <1>5, <1>6, <1>7, <1>8, <1>9, <1>10, <1>11, <1>12,
     <1>13, <1>14, <1>15, <1>16, <1>17, <1>18, <1>19, <1>20, <1>21, <1>22, <1>23,
     <1>24, <1>25, <1>26, <1>27, <1>28, <1>29, <1>30, <1>31, <1>32, <1>33, <1>34,
     <1>35, <1>36, <1>37, <1>38, <1>39, <1>40, <1>41, <1>42, <1>43, <1>44, <1>45,
     <1>46, <1>47
     DEF Next, TaskNext, ApiTurn, HandlerTurn, SettlementTurn, ReschedulerTurn,
         RecoveryTurn, WorkerTurn, TransitionAction, Writers

\* Which statuses a transition of this system can leave.
LEMMA Before ==
  ASSUME NEW from \in Status, NEW step \in DOMAIN Target, Lifecycle!CanTransition(from, Target[step])
  PROVE  /\ Target[step] = "queued" => from \in {"pending", "waiting_delegation"}
         /\ from \in {"waiting_approval", "completed", "failed", "cancelled"} =>
              Target[step] \in {"completed", "failed", "cancelled"}
BY TargetSteps, Statuses DEF Target, Lifecycle!CanTransition, Lifecycle!Successors

WriteInv == PhaseInv /\ UnstoppedInv /\ FreshInv /\ SeenInv

\* No writer takes a task away from startup recovery, which checks nothing,
\* and none takes it back from its end.
LEMMA RecoveryStep ==
  ASSUME Reliable, TypeInv, WriteInv, RecoveryInv, FormInv, [Next]_vars
  PROVE  RecoveryInv' /\ FormInv'
<1>1. ASSUME NEW t \in Tasks, CreateTask(t)
      PROVE  RecoveryInv' /\ FormInv'
  BY <1>1, ConstantsAssumption, ApiMoves
     DEF CreateTask, ApiStep, LarkStep, SlackStep, casVars, slots, guards, passes,
         restart, bounds, TypeInv, TypeOK, PostgresTypeOK, WorkerTypeOK, Unborn,
         WriteInv, PhaseInv, FreshInv, Fresh, RecoveryInv, FormInv, NoRow
<1>2. ASSUME NEW t \in Tasks, ApiEnqueues(t)
      PROVE  RecoveryInv' /\ FormInv'
  BY <1>2, ConstantsAssumption, ApiMoves
     DEF ApiEnqueues, ApiStep, LarkStep, SlackStep, Enqueue, CanEnqueue, Live,
         casVars, slots, guards, passes, restart, bounds, TypeInv, TypeOK,
         PostgresTypeOK, WorkerTypeOK, Unborn, WriteInv, PhaseInv, FreshInv, Fresh,
         RecoveryInv, FormInv, NoRow
<1>3. ASSUME NEW t \in Tasks, ApiEnqueueThrows(t)
      PROVE  RecoveryInv' /\ FormInv'
  BY <1>3, ConstantsAssumption, ApiMoves
     DEF ApiEnqueueThrows, ApiStep, LarkStep, SlackStep, EnqueueThrows, CanEnqueue,
         Live, bounds, Fault, Enqueue, casVars, slots, guards, passes, restart,
         TypeInv, TypeOK, PostgresTypeOK, WorkerTypeOK, Unborn, WriteInv, PhaseInv,
         FreshInv, Fresh, RecoveryInv, FormInv, NoRow
<1>4. ASSUME NEW t \in Tasks, Redeliver(t)
      PROVE  RecoveryInv' /\ FormInv'
  BY <1>4, ConstantsAssumption, ApiMoves
     DEF Redeliver, ApiStep, LarkStep, SlackStep, postgres, casVars, slots, guards,
         passes, restart, TypeInv, TypeOK, PostgresTypeOK, WorkerTypeOK, Unborn,
         WriteInv, PhaseInv, FreshInv, Fresh, RecoveryInv, FormInv, NoRow
<1>5. ASSUME NEW t \in Tasks, NEW action \in {"confirming", "rejecting"}, FormClicked(t, action)
      PROVE  RecoveryInv' /\ FormInv'
  BY <1>5, ConstantsAssumption, FormMoves
     DEF FormClicked, FormStep, postgres, casVars, slots, guards, passes, restart,
         bounds, TypeInv, TypeOK, PostgresTypeOK, WorkerTypeOK, Unborn, WriteInv,
         PhaseInv, FreshInv, Fresh, RecoveryInv, FormInv, NoRow
<1>6. ASSUME NEW t \in Tasks, FetchJob(t)
      PROVE  RecoveryInv' /\ FormInv'
  BY <1>6, ConstantsAssumption, TurnMoves
     DEF FetchJob, HandlerStep, Admitted, Busy, casVars, slots, guards, passes,
         restart, bounds, TypeInv, TypeOK, PostgresTypeOK, WorkerTypeOK, Unborn,
         WriteInv, PhaseInv, FreshInv, Fresh, RecoveryInv, FormInv, NoRow
<1>7. ASSUME NEW t \in Tasks, CheckQueued(t)
      PROVE  RecoveryInv' /\ FormInv'
  BY <1>7, ConstantsAssumption, TurnMoves
     DEF CheckQueued, HandlerStep, Admitted, postgres, casVars, slots, guards,
         passes, restart, bounds, TypeInv, TypeOK, PostgresTypeOK, WorkerTypeOK,
         Unborn, WriteInv, PhaseInv, FreshInv, Fresh, RecoveryInv, FormInv, NoRow
<1>8. ASSUME NEW t \in Tasks, OverBudget(t)
      PROVE  RecoveryInv' /\ FormInv'
  BY <1>8, ConstantsAssumption, TurnMoves
     DEF OverBudget, HandlerStep, Admitted, casVars, slots, guards, passes, restart,
         bounds, TypeInv, TypeOK, PostgresTypeOK, WorkerTypeOK, Unborn, WriteInv,
         PhaseInv, FreshInv, Fresh, RecoveryInv, FormInv, NoRow
<1>9. ASSUME NEW t \in Tasks, Admit(t)
      PROVE  RecoveryInv' /\ FormInv'
  BY <1>9, ConstantsAssumption, TurnMoves
     DEF Admit, HandlerStep, Admitted, postgres, casVars, guards, passes, restart,
         bounds, TypeInv, TypeOK, PostgresTypeOK, WorkerTypeOK, Unborn, WriteInv,
         PhaseInv, FreshInv, Fresh, RecoveryInv, FormInv, NoRow
<1>10. ASSUME NEW t \in Tasks, Deny(t)
      PROVE  RecoveryInv' /\ FormInv'
  BY <1>10, ConstantsAssumption, TurnMoves
     DEF Deny, HandlerStep, Admitted, postgres, casVars, slots, guards, passes,
         restart, bounds, TypeInv, TypeOK, PostgresTypeOK, WorkerTypeOK, Unborn,
         WriteInv, PhaseInv, FreshInv, Fresh, RecoveryInv, FormInv, NoRow
<1>11. ASSUME NEW t \in Tasks, DeferTask(t)
      PROVE  RecoveryInv' /\ FormInv'
  BY <1>11, ConstantsAssumption, TurnMoves
     DEF DeferTask, HandlerStep, Admitted, casVars, slots, guards, passes, restart,
         bounds, TypeInv, TypeOK, PostgresTypeOK, WorkerTypeOK, Unborn, WriteInv,
         PhaseInv, FreshInv, Fresh, RecoveryInv, FormInv, NoRow
<1>12. ASSUME NEW t \in Tasks, BeginTurn(t)
      PROVE  RecoveryInv' /\ FormInv'
  BY <1>12, ConstantsAssumption, TurnMoves
     DEF BeginTurn, HandlerStep, Admitted, casVars, slots, passes, restart, bounds,
         TypeInv, TypeOK, PostgresTypeOK, WorkerTypeOK, Unborn, WriteInv, PhaseInv,
         FreshInv, Fresh, RecoveryInv, FormInv, NoRow
<1>13. ASSUME NEW t \in Tasks, StartRuntime(t)
      PROVE  RecoveryInv' /\ FormInv'
  BY <1>13, ConstantsAssumption, TurnMoves
     DEF StartRuntime, HandlerStep, Admitted, postgres, casVars, guards, passes,
         restart, bounds, TypeInv, TypeOK, PostgresTypeOK, WorkerTypeOK, Unborn,
         WriteInv, PhaseInv, FreshInv, Fresh, RecoveryInv, FormInv, NoRow
<1>14. ASSUME NEW t \in Tasks, EndRuntime(t)
      PROVE  RecoveryInv' /\ FormInv'
  BY <1>14, ConstantsAssumption, TurnMoves
     DEF EndRuntime, HandlerStep, Admitted, postgres, casVars, slots, guards,
         passes, restart, bounds, TypeInv, TypeOK, PostgresTypeOK, WorkerTypeOK,
         Unborn, WriteInv, PhaseInv, FreshInv, Fresh, RecoveryInv, FormInv, NoRow
<1>15. ASSUME NEW t \in Tasks, WrapUp(t)
      PROVE  RecoveryInv' /\ FormInv'
  BY <1>15, ConstantsAssumption, TurnMoves
     DEF WrapUp, HandlerStep, Admitted, postgres, casVars, slots, guards, passes,
         restart, bounds, TypeInv, TypeOK, PostgresTypeOK, WorkerTypeOK, Unborn,
         WriteInv, PhaseInv, FreshInv, Fresh, RecoveryInv, FormInv, NoRow
<1>16. ASSUME NEW t \in Tasks, FenceStops(t)
      PROVE  RecoveryInv' /\ FormInv'
  BY <1>16, ConstantsAssumption, TurnMoves
     DEF FenceStops, HandlerStep, Admitted, postgres, casVars, slots, guards,
         passes, restart, bounds, TypeInv, TypeOK, PostgresTypeOK, WorkerTypeOK,
         Unborn, WriteInv, PhaseInv, FreshInv, Fresh, RecoveryInv, FormInv, NoRow
<1>17. ASSUME NEW t \in Tasks, Report(t)
      PROVE  RecoveryInv' /\ FormInv'
  BY <1>17, ConstantsAssumption, TurnMoves
     DEF Report, HandlerStep, Admitted, postgres, casVars, slots, guards, passes,
         restart, bounds, TypeInv, TypeOK, PostgresTypeOK, WorkerTypeOK, Unborn,
         WriteInv, PhaseInv, FreshInv, Fresh, RecoveryInv, FormInv, NoRow
<1>18. ASSUME NEW t \in Tasks, HandlerThrows(t)
      PROVE  RecoveryInv' /\ FormInv'
  BY <1>18, ConstantsAssumption, TurnMoves
     DEF HandlerThrows, HandlerStep, Admitted, Fault, postgres, casVars, slots,
         guards, passes, restart, TypeInv, TypeOK, PostgresTypeOK, WorkerTypeOK,
         Unborn, WriteInv, PhaseInv, FreshInv, Fresh, RecoveryInv, FormInv, NoRow
<1>19. ASSUME NEW t \in Tasks, FinallyBlock(t)
      PROVE  RecoveryInv' /\ FormInv'
  BY <1>19, ConstantsAssumption, TurnMoves
     DEF FinallyBlock, HandlerStep, Admitted, postgres, casVars, passes, restart,
         bounds, TypeInv, TypeOK, PostgresTypeOK, WorkerTypeOK, Unborn, WriteInv,
         PhaseInv, FreshInv, Fresh, RecoveryInv, FormInv, NoRow
<1>20. ASSUME NEW t \in Tasks, EndJob(t)
      PROVE  RecoveryInv' /\ FormInv'
  BY <1>20, ConstantsAssumption, TurnMoves
     DEF EndJob, HandlerStep, Admitted, casVars, slots, guards, passes, restart,
         bounds, TypeInv, TypeOK, PostgresTypeOK, WorkerTypeOK, Unborn, WriteInv,
         PhaseInv, FreshInv, Fresh, RecoveryInv, FormInv, NoRow
<1>21. ASSUME NEW t \in Tasks, EndJobUnrecorded(t)
      PROVE  RecoveryInv' /\ FormInv'
  BY <1>21, ConstantsAssumption, TurnMoves
     DEF EndJobUnrecorded, HandlerStep, Admitted, Fault, postgres, casVars, slots,
         guards, passes, restart, TypeInv, TypeOK, PostgresTypeOK, WorkerTypeOK,
         Unborn, WriteInv, PhaseInv, FreshInv, Fresh, RecoveryInv, FormInv, NoRow
<1>22. ASSUME NEW t \in Tasks, ExpireJob(t)
      PROVE  RecoveryInv' /\ FormInv'
  BY <1>22, ConstantsAssumption, StepsKept
     DEF ExpireJob, Busy, casVars, slots, guards, passes, restart, bounds, TypeInv,
         TypeOK, PostgresTypeOK, WorkerTypeOK, Unborn, WriteInv, PhaseInv, FreshInv,
         Fresh, RecoveryInv, FormInv, NoRow
<1>23. ASSUME NEW t \in Tasks, CancelRuntime(t)
      PROVE  RecoveryInv' /\ FormInv'
  BY <1>23, ConstantsAssumption, StepsKept
     DEF CancelRuntime, Scannable, postgres, casVars, slots, passes, restart,
         bounds, TypeInv, TypeOK, PostgresTypeOK, WorkerTypeOK, Unborn, WriteInv,
         PhaseInv, FreshInv, Fresh, RecoveryInv, FormInv, NoRow
<1>24. ASSUME NEW t \in Tasks, FindNoRuntime(t)
      PROVE  RecoveryInv' /\ FormInv'
  BY <1>24, ConstantsAssumption, WatchdogMoves
     DEF FindNoRuntime, WatchdogStep, Scannable, postgres, casVars, slots, guards,
         passes, restart, bounds, TypeInv, TypeOK, PostgresTypeOK, WorkerTypeOK,
         Unborn, WriteInv, PhaseInv, FreshInv, Fresh, RecoveryInv, FormInv, NoRow
<1>25. ASSUME NEW t \in Tasks, SettleFence(t)
      PROVE  RecoveryInv' /\ FormInv'
  BY <1>25, ConstantsAssumption, WatchdogMoves
     DEF SettleFence, WatchdogStep, postgres, casVars, passes, restart, bounds,
         TypeInv, TypeOK, PostgresTypeOK, WorkerTypeOK, Unborn, WriteInv, PhaseInv,
         FreshInv, Fresh, RecoveryInv, FormInv, NoRow
<1>26. ASSUME NEW t \in Tasks, ResumeSettlement(t)
      PROVE  RecoveryInv' /\ FormInv'
  BY <1>26, ConstantsAssumption, WatchdogMoves
     DEF ResumeSettlement, WatchdogStep, postgres, casVars, slots, guards, passes,
         restart, bounds, TypeInv, TypeOK, PostgresTypeOK, WorkerTypeOK, Unborn,
         WriteInv, PhaseInv, FreshInv, Fresh, RecoveryInv, FormInv, NoRow
<1>27. ASSUME NEW t \in Tasks, SettlementThrows(t)
      PROVE  RecoveryInv' /\ FormInv'
  BY <1>27, ConstantsAssumption, WatchdogMoves
     DEF SettlementThrows, WatchdogStep, Fault, postgres, casVars, slots, guards,
         passes, restart, TypeInv, TypeOK, PostgresTypeOK, WorkerTypeOK, Unborn,
         WriteInv, PhaseInv, FreshInv, Fresh, RecoveryInv, FormInv, NoRow
<1>28. ASSUME NEW t \in Tasks, LookAtStatus(t)
      PROVE  RecoveryInv' /\ FormInv'
  BY <1>28, ConstantsAssumption, WatchdogMoves
     DEF LookAtStatus, WatchdogStep, postgres, casVars, slots, guards, passes,
         restart, bounds, TypeInv, TypeOK, PostgresTypeOK, WorkerTypeOK, Unborn,
         WriteInv, PhaseInv, FreshInv, Fresh, RecoveryInv, FormInv, NoRow
<1>29. ASSUME NEW t \in Tasks, Unwatch(t)
      PROVE  RecoveryInv' /\ FormInv'
  BY <1>29, ConstantsAssumption, WatchdogMoves
     DEF Unwatch, WatchdogStep, postgres, casVars, slots, passes, restart, bounds,
         TypeInv, TypeOK, PostgresTypeOK, WorkerTypeOK, Unborn, WriteInv, PhaseInv,
         FreshInv, Fresh, RecoveryInv, FormInv, NoRow
<1>30. ASSUME NEW t \in Tasks, LoadTask(t)
      PROVE  RecoveryInv' /\ FormInv'
  BY <1>30, ConstantsAssumption, StepsKept
     DEF LoadTask, postgres, casVars, slots, guards, passes, restart, bounds,
         TypeInv, TypeOK, PostgresTypeOK, WorkerTypeOK, Unborn, WriteInv, PhaseInv,
         FreshInv, Fresh, RecoveryInv, FormInv, NoRow
<1>31. ASSUME NEW t \in Tasks, RescheduleTask(t)
      PROVE  RecoveryInv' /\ FormInv'
  BY <1>31, ConstantsAssumption, StepsKept
     DEF RescheduleTask, Enqueue, CanEnqueue, Live, casVars, slots, guards, passes,
         restart, bounds, TypeInv, TypeOK, PostgresTypeOK, WorkerTypeOK, Unborn,
         WriteInv, PhaseInv, FreshInv, Fresh, RecoveryInv, FormInv, NoRow
<1>32. ASSUME NEW t \in Tasks, ReschedulerThrows(t)
      PROVE  RecoveryInv' /\ FormInv'
  BY <1>32, ConstantsAssumption, StepsKept
     DEF ReschedulerThrows, EnqueueThrows, CanEnqueue, Live, bounds, Fault, Enqueue,
         NoPass, casVars, slots, guards, passes, restart, TypeInv, TypeOK,
         PostgresTypeOK, WorkerTypeOK, Unborn, WriteInv, PhaseInv, FreshInv, Fresh,
         RecoveryInv, FormInv, NoRow
<1>33. ASSUME NEW t \in Tasks, DeleteLease(t)
      PROVE  RecoveryInv' /\ FormInv'
  BY <1>33, ConstantsAssumption, StepsKept
     DEF DeleteLease, NextLease, NoPass, casVars, slots, guards, passes, restart,
         bounds, TypeInv, TypeOK, PostgresTypeOK, WorkerTypeOK, Unborn, WriteInv,
         PhaseInv, FreshInv, Fresh, RecoveryInv, FormInv, NoRow
<1>34. ASSUME NEW t \in Tasks, RequeueStale(t)
      PROVE  RecoveryInv' /\ FormInv'
  BY <1>34, ConstantsAssumption, StepsKept
     DEF RequeueStale, NoRow, casVars, slots, guards, passes, bounds, TypeInv,
         TypeOK, PostgresTypeOK, WorkerTypeOK, Unborn, WriteInv, PhaseInv, FreshInv,
         Fresh, RecoveryInv, FormInv
<1>35. ASSUME NEW t \in Tasks, RequeueThrows(t)
      PROVE  RecoveryInv' /\ FormInv'
  BY <1>35, ConstantsAssumption, StepsKept
     DEF RequeueThrows, NoRow, Fault, postgres, casVars, slots, guards, passes,
         TypeInv, TypeOK, PostgresTypeOK, WorkerTypeOK, Unborn, WriteInv, PhaseInv,
         FreshInv, Fresh, RecoveryInv, FormInv
<1>36. ASSUME NEW t \in Tasks, EnqueueStale(t)
      PROVE  RecoveryInv' /\ FormInv'
  BY <1>36, ConstantsAssumption, StepsKept
     DEF EnqueueStale, Enqueue, CanEnqueue, Live, NoRow, casVars, slots, guards,
         passes, bounds, TypeInv, TypeOK, PostgresTypeOK, WorkerTypeOK, Unborn,
         WriteInv, PhaseInv, FreshInv, Fresh, RecoveryInv, FormInv
<1>37. ASSUME NEW t \in Tasks, RecoveryThrows(t)
      PROVE  RecoveryInv' /\ FormInv'
  BY <1>37, ConstantsAssumption, StepsKept
     DEF RecoveryThrows, EnqueueThrows, CanEnqueue, Live, passes, bounds, Fault,
         Enqueue, casVars, slots, guards, TypeInv, TypeOK, PostgresTypeOK,
         WorkerTypeOK, Unborn, WriteInv, PhaseInv, FreshInv, Fresh, RecoveryInv,
         FormInv, NoRow
<1>38. ASSUME NEW t \in Tasks, FailStale(t)
      PROVE  RecoveryInv' /\ FormInv'
  BY <1>38, ConstantsAssumption, StepsKept
     DEF FailStale, NoRow, casVars, slots, guards, passes, bounds, TypeInv, TypeOK,
         PostgresTypeOK, WorkerTypeOK, Unborn, WriteInv, PhaseInv, FreshInv, Fresh,
         RecoveryInv, FormInv
<1>39. ASSUME NEW t \in Tasks, NEW w \in Writers, TransitionAction(w, t)
      PROVE  RecoveryInv' /\ FormInv'
  <2>1. /\ UNCHANGED <<job, rows, lease, slots, guards, passes, restart>>
        /\ at[w][t] \in DOMAIN Target
        /\ \A v \in Writers, u \in Tasks : v # w \/ u # t => at'[v][u] = at[v][u]
        /\ \/ at'[w][t] = at[w][t] /\ UNCHANGED status
           \/ /\ at'[w][t] \in {Refused[at[w][t]], Errored[at[w][t]]}
              /\ UNCHANGED status
           \/ /\ at'[w][t] = Committed[at[w][t]]
              /\ seen[w][t] = status[t]
              /\ status' = [status EXCEPT ![t] = Target[at[w][t]]]
    BY <1>39, TransitionKeeps, TransitionCases DEF TypeInv, TypeOK
  <2>2. UNCHANGED <<stale, recovery>>
    BY <2>1 DEF passes, restart
  <2>3. ASSUME NEW u \in Tasks, Form(u)' # "idle"
        PROVE  Form(u) # "idle"
    BY <2>1, <2>3, TargetSteps DEF Form, Writers
  <2>4. CASE UNCHANGED status
    BY <2>2, <2>3, <2>4 DEF RecoveryInv, FormInv
  <2>5. CASE /\ at'[w][t] = Committed[at[w][t]]
             /\ seen[w][t] = status[t]
             /\ status' = [status EXCEPT ![t] = Target[at[w][t]]]
    <3>1. /\ status[t] \in Status /\ Lifecycle!CanTransition(status[t], Target[at[w][t]])
          /\ \A u \in Tasks : status'[u] = IF u = t THEN Target[at[w][t]] ELSE status[u]
      BY <2>5, Statuses DEF TypeInv, TypeOK, PostgresTypeOK, WriteInv, SeenInv, NoStatus
    <3>2. t \notin stale /\ recovery.task # t
      <4> SUFFICES ASSUME t \in stale \/ recovery.task = t  PROVE FALSE
        OBVIOUS
      <4>1. status[t] \in {"queued", "running"}
        BY DEF RecoveryInv
      <4>2. w # "form"
        BY <4>1, <2>1, TargetSteps DEF FormInv, Form
      <4>3. phase = "recovering"
        BY ConstantsAssumption DEF WriteInv, PhaseInv, NoRow
      <4>4. w = "api"
        BY <4>2, <4>3, <2>1, TargetSteps DEF WriteInv, PhaseInv, Handler, Watchdog, Writers
      <4>5. ~Fresh(t)
        BY DEF WriteInv, FreshInv
      <4>6. LostReplies => faults = 0
        BY ConstantsAssumption DEF Reliable, WriteInv, UnstoppedInv, NoRow
      <4>7. at[w][t] = "requeueing"
        BY <4>4, <4>5, <4>6, <2>1, TargetSteps
           DEF Fresh, TypeInv, TypeOK, StepsTypeOK, Api, ApiStep, LarkStep, SlackStep
      <4>8. status[t] \in {"pending", "waiting_delegation"}
        BY <4>7, <3>1, Before DEF Target
      <4> QED  BY <4>1, <4>8
    <3>3. RecoveryInv'
      BY <3>1, <3>2, <2>2 DEF RecoveryInv
    <3>4. FormInv'
      BY <3>1, <2>1, <2>3, Before DEF FormInv
    <3> QED  BY <3>3, <3>4
  <2> QED  BY <2>1, <2>4, <2>5
<1>40. ASSUME NEW due \in SUBSET lease, ListDueLeases(due)
      PROVE  RecoveryInv' /\ FormInv'
  BY <1>40, StepsKept
     DEF ListDueLeases, NoPass, Busy, NextLease, postgres, casVars, slots, guards,
         passes, restart, bounds, TypeInv, TypeOK, PostgresTypeOK, WorkerTypeOK,
         Unborn, WriteInv, PhaseInv, FreshInv, Fresh, RecoveryInv, FormInv, NoRow
<1>41. CASE StartWorker
  BY <1>41, ConstantsAssumption, StepsKept
     DEF StartWorker, postgres, casVars, slots, guards, passes, bounds, TypeInv,
         TypeOK, PostgresTypeOK, WorkerTypeOK, Unborn, WriteInv, PhaseInv, FreshInv,
         Fresh, RecoveryInv, FormInv, NoRow
<1>42. CASE Subscribe
  BY <1>42, ConstantsAssumption, StepsKept
     DEF Subscribe, NoRow, postgres, casVars, slots, guards, passes, bounds,
         TypeInv, TypeOK, PostgresTypeOK, WorkerTypeOK, Unborn, WriteInv, PhaseInv,
         FreshInv, Fresh, RecoveryInv, FormInv, NoRow
<1>43. CASE Shutdown
  BY <1>43, ConstantsAssumption, StepsKept
     DEF Shutdown, postgres, casVars, slots, guards, passes, TypeInv, TypeOK,
         PostgresTypeOK, WorkerTypeOK, Unborn, WriteInv, PhaseInv, FreshInv, Fresh,
         RecoveryInv, FormInv, NoRow
<1>44. CASE Crash
  BY <1>44, ConstantsAssumption, ForgetMoves
     DEF Crash, ForgetAll, NoPass, NoRow, postgres, passes, TypeInv, TypeOK,
         PostgresTypeOK, WorkerTypeOK, Unborn, WriteInv, PhaseInv, FreshInv, Fresh,
         RecoveryInv, FormInv, NoRow
<1>45. CASE Exit
  BY <1>45, ConstantsAssumption, ForgetMoves
     DEF Exit, ForgetAll, NoPass, NoRow, Busy, postgres, passes, bounds, TypeInv,
         TypeOK, PostgresTypeOK, WorkerTypeOK, Unborn, WriteInv, PhaseInv, FreshInv,
         Fresh, RecoveryInv, FormInv, NoRow
<1>46. CASE ForcedExit
  BY <1>46, ConstantsAssumption, ForgetMoves
     DEF ForcedExit, ForgetAll, NoPass, NoRow, Busy, passes, bounds, TypeInv,
         TypeOK, PostgresTypeOK, WorkerTypeOK, Unborn, WriteInv, PhaseInv, FreshInv,
         Fresh, RecoveryInv, FormInv, NoRow
<1>47. CASE UNCHANGED vars
  BY <1>47, StepsKept
     DEF vars, postgres, casVars, slots, guards, passes, restart, bounds, TypeInv,
         TypeOK, PostgresTypeOK, WorkerTypeOK, Unborn, WriteInv, PhaseInv, FreshInv,
         Fresh, RecoveryInv, FormInv, NoRow
<1> QED
  BY <1>1, <1>2, <1>3, <1>4, <1>5, <1>6, <1>7, <1>8, <1>9, <1>10, <1>11, <1>12,
     <1>13, <1>14, <1>15, <1>16, <1>17, <1>18, <1>19, <1>20, <1>21, <1>22, <1>23,
     <1>24, <1>25, <1>26, <1>27, <1>28, <1>29, <1>30, <1>31, <1>32, <1>33, <1>34,
     <1>35, <1>36, <1>37, <1>38, <1>39, <1>40, <1>41, <1>42, <1>43, <1>44, <1>45,
     <1>46, <1>47
     DEF Next, TaskNext, ApiTurn, HandlerTurn, SettlementTurn, ReschedulerTurn,
         RecoveryTurn, WorkerTurn, TransitionAction, Writers

WritesInv == WriteInv /\ (Reliable => RecoveryInv /\ FormInv)

\* The inductive invariant behind the refinement.
LEMMA WritesInvariance ==
  Spec => []WritesInv
<1>1. ASSUME Init PROVE WritesInv
  <2>1. \A t \in Tasks : Api(t) = "idle" /\ Handler(t) = "idle" /\ Watchdog(t) = "idle"
                         /\ Form(t) = "idle"
    BY <1>1 DEF Init, Idle, Api, Handler, Watchdog, Form, Writers
  <2>2. /\ status = [t \in Tasks |-> "absent"] /\ job = [t \in Tasks |-> "none"]
        /\ lease = {} /\ watched = {} /\ phase = "down" /\ stale = {}
        /\ recovery = NoRow /\ resched = NoPass
        /\ seen = [w \in Writers |-> [t \in Tasks |-> NoStatus]]
    BY <1>1 DEF Init
  <2>3. PhaseInv /\ UnstoppedInv /\ FreshInv
    BY <2>1, <2>2, ConstantsAssumption
       DEF PhaseInv, UnstoppedInv, FreshInv, NoRow, NoPass, Fresh
  <2>4. SeenInv
    BY <2>2 DEF SeenInv
  <2> QED  BY <2>1, <2>2, <2>3, <2>4, ConstantsAssumption
           DEF WritesInv, WriteInv, RecoveryInv, FormInv, NoRow
<1>2. ASSUME TypeInv, WritesInv, [Next]_vars
      PROVE  WritesInv'
  <2>1. /\ PhaseInv' /\ UnstoppedInv'
        /\ faults' = 0 => faults = 0
        /\ stops' = 0 => stops = 0
    BY <1>2, PhaseStep, UnstoppedStep DEF WritesInv, WriteInv
  <2>2. FreshInv' /\ SeenInv'
    BY <1>2, <2>1, FreshStep, SeenStep DEF WritesInv, WriteInv
  <2>3. ASSUME Reliable' PROVE RecoveryInv' /\ FormInv'
    <3>1. Reliable
      BY <2>1, <2>3 DEF Reliable
    <3> QED  BY <1>2, <3>1, RecoveryStep DEF WritesInv
  <2> QED  BY <2>1, <2>2, <2>3 DEF WritesInv, WriteInv
<1> QED  BY <1>1, <1>2, TypeInvariance, PTL DEF Spec

\* The statuses implement TaskLifecycle (ImplementsLifecycle): every write of
\* task-lifecycle.ts is a transition of the state machine, and the unchecked
\* writes of startup-recovery.ts only touch tasks left running or re-queued.
\* With replies lost the API may fail a task behind recovery's back, so lost
\* replies and stops are not both allowed.
THEOREM Refinement ==
  ASSUME LostReplies => MaxFaults = 0 \/ MaxStops = 0
  PROVE  Spec => ImplementsLifecycle
<1>1. Init => Lifecycle!Init
  BY DEF Init, Lifecycle!Init
<1>2. ASSUME TypeInv, WritesInv, [Next]_vars
      PROVE  [Lifecycle!Next]_status
  <2> USE DEF postgres, passes, bounds
  <2>0. RecoveryInv
    BY <1>2, ConstantsAssumption DEF WritesInv, Reliable, TypeInv, TypeOK, BoundsTypeOK
  <2>1. ASSUME NEW t \in Tasks, CreateTask(t)
        PROVE  Lifecycle!Transition(t)
    <3>1. status' = [status EXCEPT ![t] = "pending"] /\ status[t] = "absent"
      BY <2>1 DEF CreateTask
    <3>2. "pending" \in Lifecycle!Successors[status[t]]
      BY <3>1 DEF Lifecycle!Successors
    <3> QED  BY <3>1, <3>2 DEF Lifecycle!Transition
  <2>2. ASSUME NEW t \in Tasks, NEW w \in Writers, TransitionAction(w, t)
        PROVE  Lifecycle!Transition(t) \/ UNCHANGED status
    <3>1. CASE UNCHANGED status
      BY <3>1
    <3>2. CASE /\ seen[w][t] = status[t]
               /\ status' = [status EXCEPT ![t] = Target[at[w][t]]]
      <4>1. seen[w][t] # NoStatus
        BY <1>2, <3>2, Statuses DEF TypeInv, TypeOK, PostgresTypeOK, NoStatus
      <4>2. Lifecycle!CanTransition(status[t], Target[at[w][t]])
        BY <1>2, <3>2, <4>1 DEF WritesInv, WriteInv, SeenInv
      <4> QED  BY <3>2, <4>2 DEF Lifecycle!CanTransition, Lifecycle!Transition
    <3> QED  BY <1>2, <2>2, <3>1, <3>2, TransitionCases DEF TypeInv
  <2>3. ASSUME NEW t \in Tasks, RequeueStale(t)
        PROVE  Lifecycle!Recover(t)
    BY <2>0, <2>3 DEF RequeueStale, RecoveryInv, Lifecycle!Recover
  <2>4. ASSUME NEW t \in Tasks, FailStale(t)
        PROVE  Lifecycle!Transition(t)
    <3>1. status' = [status EXCEPT ![t] = "failed"] /\ recovery.task = t
      BY <2>4 DEF FailStale
    <3>2. status[t] \in {"queued", "running"}
      BY <2>0, <3>1 DEF RecoveryInv
    <3>3. "failed" \in Lifecycle!Successors[status[t]]
      BY <3>2 DEF Lifecycle!Successors
    <3> QED  BY <3>1, <3>3 DEF Lifecycle!Transition
  <2>5. ASSUME NEW t \in Tasks,
               \/ ApiEnqueues(t) \/ ApiEnqueueThrows(t) \/ Redeliver(t)
               \/ \E action \in {"confirming", "rejecting"} : FormClicked(t, action)
        PROVE  UNCHANGED status
    BY <2>5 DEF ApiEnqueues, ApiEnqueueThrows, Redeliver, FormClicked
  <2>6. ASSUME NEW t \in Tasks,
               \/ FetchJob(t) \/ CheckQueued(t) \/ OverBudget(t) \/ Admit(t) \/ Deny(t)
               \/ DeferTask(t) \/ BeginTurn(t) \/ StartRuntime(t) \/ EndRuntime(t)
               \/ WrapUp(t) \/ FenceStops(t) \/ Report(t) \/ FinallyBlock(t) \/ EndJob(t)
               \/ HandlerThrows(t) \/ EndJobUnrecorded(t) \/ ExpireJob(t)
        PROVE  UNCHANGED status
    BY <2>6 DEF FetchJob, CheckQueued, OverBudget, Admit, Deny, DeferTask, BeginTurn,
                StartRuntime, EndRuntime, WrapUp, FenceStops, Report, FinallyBlock, EndJob,
                HandlerThrows, EndJobUnrecorded, ExpireJob
  <2>7. ASSUME NEW t \in Tasks,
               \/ CancelRuntime(t) \/ FindNoRuntime(t) \/ SettleFence(t)
               \/ ResumeSettlement(t) \/ SettlementThrows(t) \/ LookAtStatus(t)
               \/ Unwatch(t)
        PROVE  UNCHANGED status
    BY <2>7 DEF CancelRuntime, FindNoRuntime, SettleFence, ResumeSettlement,
                SettlementThrows, LookAtStatus, Unwatch
  <2>8. ASSUME NEW t \in Tasks,
               \/ LoadTask(t) \/ RescheduleTask(t) \/ ReschedulerThrows(t)
               \/ DeleteLease(t) \/ RequeueThrows(t) \/ EnqueueStale(t)
               \/ RecoveryThrows(t)
        PROVE  UNCHANGED status
    BY <2>8 DEF LoadTask, RescheduleTask, ReschedulerThrows, DeleteLease, RequeueThrows,
                EnqueueStale, RecoveryThrows
  <2>9. CASE \/ \E due \in SUBSET lease : ListDueLeases(due)
             \/ StartWorker \/ Subscribe \/ Exit
             \/ Crash \/ Shutdown \/ ForcedExit
             \/ UNCHANGED vars
    BY <2>9 DEF ListDueLeases, StartWorker, Subscribe, Exit, Crash, Shutdown, ForcedExit, vars
  <2> QED
    BY <1>2, <2>1, <2>2, <2>3, <2>4, <2>5, <2>6, <2>7, <2>8, <2>9
       DEF Next, TaskNext, ApiTurn, HandlerTurn, SettlementTurn, ReschedulerTurn,
           RecoveryTurn, WorkerTurn, TransitionAction, Writers, Lifecycle!Next
<1> QED
  BY <1>1, <1>2, TypeInvariance, WritesInvariance, PTL
     DEF Spec, ImplementsLifecycle, Lifecycle!Spec

(***************************************************************************)
(* What executes.                                                          *)
(***************************************************************************)
\* The watchdog has nothing of the task ...
Untouched(t) ==
  /\ Watchdog(t) = "idle"
  /\ t \notin watched /\ t \notin settled /\ t \notin unwritten

\* ... or it has decided its outcome.
Overruled(t) ==
  Watchdog(t) \in {"settling", "overruling", "unwatching"} \/ t \in unwritten

Accounted(t) ==
  /\ status[t] # "waiting_delegation"
  /\ \A w \in Writers : seen[w][t] # "waiting_delegation"
  /\ status[t] \in {"absent", "pending"} =>
       /\ Untouched(t) /\ Handler(t) = "idle" /\ job[t] = "none"
       /\ Api(t) \in {"idle", "queueing", "requeueing"}
       /\ t \notin lease /\ t \notin resched.todo /\ resched.task # t
  /\ status[t] = "queued" => Untouched(t) \/ Handler(t) \in {"toRunning", "toConfirm"}
  /\ Handler(t) \in {"admit", "admitted"} => status[t] = "queued"
  /\ Handler(t) \in {"toRunning", "toConfirm"} => status[t] \in {"queued", "failed"}
  /\ Handler(t) \in {"toRunning", "toConfirm", "launching", "executing", "wrapping"} =>
       t \in settled \/ (t \in watched /\ ~Overruled(t))
  /\ Handler(t) \in {"launching", "executing", "wrapping"} =>
       t \in settled \/ status[t] = "running"

AllAccounted ==
  /\ phase \in {"down", "recovering"} => watched = {} /\ settled = {} /\ unwritten = {}
  /\ \A t \in Tasks : Accounted(t)

\* The watchdog takes nothing from a queued task, so the guard of the handler
\* still holds when the turn begins; and it fails a task only behind the fence.
AccountInv == faults = 0 => AllAccounted

\* Why transitionTask ends, as long as no call failed.
LEMMA TransitionEnds ==
  ASSUME TypeInv, SeenInv, NEW w \in Writers, NEW t \in Tasks,
         TransitionAction(w, t), faults' = 0
  PROVE  /\ faults = 0
         /\ \/ at'[w][t] = at[w][t] /\ UNCHANGED status
            \/ /\ at'[w][t] = Refused[at[w][t]] /\ UNCHANGED status
               /\ ~Lifecycle!CanTransition(status[t], Target[at[w][t]])
            \/ /\ at'[w][t] = Errored[at[w][t]] /\ UNCHANGED status
               /\ seen[w][t] \notin {NoStatus, status[t]}
               /\ Lifecycle!CanTransition(seen[w][t], Target[at[w][t]])
            \/ /\ at'[w][t] = Committed[at[w][t]]
               /\ status' = [status EXCEPT ![t] = Target[at[w][t]]]
               /\ Lifecycle!CanTransition(status[t], Target[at[w][t]])
<1>1. TypeOK /\ StepsTypeOK /\ CasTypeOK /\ faults \in Nat /\ status \in [Tasks -> Status]
  BY ConstantsAssumption DEF TypeInv, TypeOK, BoundsTypeOK, PostgresTypeOK
<1>2. ~FailTransition(w, t)
  BY <1>1 DEF FailTransition, Fault
<1>3. CASE ReadStatus(w, t) \/ RetryTransition(w, t)
  BY <1>3 DEF ReadStatus, RetryTransition, postgres, passes, bounds
<1>4. CASE RefuseTransition(w, t)
  <2>1. LeaveTransition(w, t, Refused) /\ Transitioning(w, t)
    BY <1>4 DEF RefuseTransition
  <2> QED  BY <1>1, <1>4, <2>1, LeaveMoves DEF RefuseTransition, passes, bounds
<1>5. CASE GiveUpTransition(w, t)
  <2>1. LeaveTransition(w, t, Errored) /\ Transitioning(w, t)
    BY <1>5 DEF GiveUpTransition
  <2> QED  BY <1>1, <1>5, <2>1, LeaveMoves DEF GiveUpTransition, SeenInv, passes,
                                               bounds
<1>6. CASE CommitTransition(w, t)
  <2>1. LeaveTransition(w, t, Committed) /\ Transitioning(w, t)
    BY <1>6 DEF CommitTransition
  <2>2. Lifecycle!CanTransition(status[t], Target[at[w][t]])
    BY <1>6 DEF CommitTransition, SeenInv
  <2> QED  BY <1>1, <1>6, <2>1, <2>2, LeaveMoves DEF CommitTransition, passes,
                                                     bounds
<1> QED  BY <1>2, <1>3, <1>4, <1>5, <1>6 DEF TransitionAction, TransitionTask

\* What it leaves the task in, for each party.
LEMMA AccountTransition ==
  ASSUME TypeInv, WritesInv, AccountInv, NEW w \in Writers, NEW t \in Tasks,
         TransitionAction(w, t)
  PROVE  AccountInv'
<1> SUFFICES ASSUME faults' = 0  PROVE AllAccounted'
  BY DEF AccountInv
<1>1. /\ AllAccounted /\ faults = 0
      /\ UNCHANGED <<job, lease, resched, phase, watched, settled, unwritten>>
  BY TransitionKeeps, TransitionEnds DEF AccountInv, WritesInv, WriteInv, guards,
                                         passes, restart
<1>2. /\ at[w][t] \in DOMAIN Target
      /\ \A v \in Writers, u \in Tasks :
           v # w \/ u # t => at'[v][u] = at[v][u] /\ seen'[v][u] = seen[v][u]
      /\ seen'[w][t] \in {NoStatus, status[t]} \/ UNCHANGED seen
      /\ \A u \in Tasks : u # t => status'[u] = status[u]
  BY TransitionCases DEF TypeInv, TypeOK, PostgresTypeOK
<1>3. \A u \in Tasks : /\ w # "api" \/ u # t => Api(u)' = Api(u)
                       /\ w # "handler" \/ u # t => Handler(u)' = Handler(u)
                       /\ w # "watchdog" \/ u # t => Watchdog(u)' = Watchdog(u)
                       /\ w # "form" \/ u # t => Form(u)' = Form(u)
  BY <1>2 DEF Api, Handler, Watchdog, Form, Writers
<1>4. \A u \in Tasks : u # t => Accounted(u)'
  BY <1>1, <1>2, <1>3 DEF AllAccounted, Accounted, Untouched, Overruled
<1> SUFFICES Accounted(t)'
  BY <1>1, <1>4 DEF AllAccounted
<1>5. \A v \in Writers : seen'[v][t] # "waiting_delegation"
  BY <1>1, <1>2 DEF AllAccounted, Accounted, NoStatus
<1>6. Accounted(t) /\ status[t] \in Status
  BY <1>1 DEF AllAccounted, TypeInv, TypeOK, PostgresTypeOK
<1> DEFINE from == status[t]
           to   == status'[t]
           step == at[w][t]
<1>7. \/ at'[w][t] = step /\ to = from
      \/ /\ at'[w][t] = Refused[step] /\ to = from
         /\ ~Lifecycle!CanTransition(from, Target[step])
      \/ /\ at'[w][t] = Errored[step] /\ to = from
         /\ seen[w][t] \notin {NoStatus, from, "waiting_delegation"}
         /\ seen[w][t] \in Status
         /\ Lifecycle!CanTransition(seen[w][t], Target[step])
      \/ /\ at'[w][t] = Committed[step] /\ to = Target[step]
         /\ Lifecycle!CanTransition(from, Target[step])
  BY <1>6, TransitionEnds
     DEF Accounted, TypeInv, TypeOK, PostgresTypeOK, CasTypeOK, WritesInv, WriteInv
<1>8. CASE w = "api"
  <2>1. /\ Api(t) = step /\ Api(t)' = at'[w][t]
        /\ step \in {"queueing", "requeueing", "compensating"}
    BY <1>2, <1>8, TargetSteps
       DEF Api, TypeInv, TypeOK, StepsTypeOK, ApiStep, LarkStep, SlackStep
  <2>2. from # "absent"
    BY <2>1 DEF TypeInv, Unborn
  <2>3. CASE step = "compensating"
    <3>1. Handler(t) = "idle" /\ Watchdog(t) = "idle" /\ t \notin watched
      BY <1>1, <2>1, <2>3 DEF WritesInv, WriteInv, FreshInv, Fresh
    <3>2. from \notin {"absent", "pending"}
      BY <1>6, <2>1, <2>3 DEF Accounted
    <3>3. to \in {from, "failed"}
      BY <1>7, <2>3 DEF Target
    <3> QED  BY <1>1, <1>3, <1>5, <1>6, <1>8, <3>1, <3>2, <3>3
             DEF Accounted, Untouched, Overruled
  <2>4. CASE step # "compensating"
    <3>1. Target[step] = "queued" /\ Committed[step] \in {"enqueuing", "reenqueuing"}
      BY <2>1, <2>4 DEF Target, Committed
    <3>2. Lifecycle!CanTransition(from, "queued") <=> from = "pending"
      BY <1>6, Statuses DEF Accounted, Lifecycle!CanTransition, Lifecycle!Successors
    <3>3. seen[w][t] \in Status \ {"waiting_delegation", "pending"} =>
            ~Lifecycle!CanTransition(seen[w][t], "queued")
      BY Statuses DEF Lifecycle!CanTransition, Lifecycle!Successors
    <3>4. \/ Api(t)' = Api(t) /\ to = from
          \/ to = from /\ from # "pending"
          \/ from = "pending" /\ to = "queued"
      BY <1>7, <2>1, <3>1, <3>2, <3>3
    <3> QED  BY <1>1, <1>3, <1>5, <1>6, <1>8, <2>2, <3>4
             DEF Accounted, Untouched, Overruled
  <2> QED  BY <2>3, <2>4
<1>9. CASE w = "handler"
  <2>1. /\ Handler(t) = step /\ Handler(t)' = at'[w][t]
        /\ step \in {"toRunning", "toConfirm", "asking", "succeeding", "conceding", "failing"}
    BY <1>2, <1>9, TargetSteps
       DEF Handler, TypeInv, TypeOK, StepsTypeOK, HandlerStep, Admitted
  <2>2. from \notin {"absent", "pending"}
    BY <1>6, <2>1 DEF Accounted
  <2>3. CASE step \in {"toRunning", "toConfirm"}
    <3>1. Target[step] = "running" /\ Refused[step] = "failing" /\ Errored[step] = "failing"
          /\ Committed[step] \in {"launching", "asking"}
      BY <2>3 DEF Target, Committed, Refused, Errored
    <3>2. Lifecycle!CanTransition(from, "running") <=> from = "queued"
      BY <1>6, Statuses DEF Lifecycle!CanTransition, Lifecycle!Successors
    <3>3. seen[w][t] \in Status \ {"queued"} => ~Lifecycle!CanTransition(seen[w][t], "running")
      BY Statuses DEF Lifecycle!CanTransition, Lifecycle!Successors
    <3>4. \/ Handler(t)' = Handler(t) /\ to = from
          \/ Handler(t)' = "failing" /\ to = from /\ from # "queued"
          \/ Handler(t)' \in {"launching", "asking"} /\ to = "running"
      BY <1>7, <2>1, <3>1, <3>2, <3>3
    <3> QED  BY <1>1, <1>3, <1>5, <1>6, <1>9, <2>1, <2>2, <2>3, <3>4
             DEF Accounted, Untouched, Overruled
  <2>4. CASE step \notin {"toRunning", "toConfirm"}
    <3>1. /\ Target[step] \in {"waiting_approval", "completed", "failed"}
          /\ {Refused[step], Errored[step], Committed[step]} \subseteq
               {"failing", "closing", "reporting", "erring"}
      BY <2>1, <2>4 DEF Target, Committed, Refused, Errored
    <3>2. /\ Handler(t)' \in {Handler(t), "failing", "closing", "reporting", "erring"}
          /\ to \in {from, "waiting_approval", "completed", "failed"}
      BY <1>7, <2>1, <3>1
    <3> QED  BY <1>1, <1>3, <1>5, <1>6, <1>9, <2>1, <2>2, <2>4, <3>2
             DEF Accounted, Untouched, Overruled
  <2> QED  BY <2>3, <2>4
<1>10. CASE w = "watchdog"
  <2>1. Watchdog(t) = "overruling" /\ step = "overruling" /\ Watchdog(t)' = at'[w][t]
    BY <1>2, <1>10, TargetSteps
       DEF Watchdog, TypeInv, TypeOK, StepsTypeOK, WatchdogStep
  <2>2. to \in {from, "failed"}
    BY <1>7, <2>1 DEF Target
  <2>3. ~Untouched(t) /\ Overruled(t)
    BY <2>1 DEF Untouched, Overruled
  <2> QED  BY <1>1, <1>3, <1>5, <1>6, <1>10, <2>2, <2>3 DEF Accounted
<1>11. CASE w = "form"
  <2>1. Form(t) = step /\ step \in {"confirming", "rejecting"}
    BY <1>2, <1>11, TargetSteps DEF Form, TypeInv, TypeOK, StepsTypeOK, FormStep
  <2>2. from \in {"waiting_approval", "completed", "failed", "cancelled"}
    BY <1>1, <2>1 DEF WritesInv, FormInv, Reliable
  <2>3. to = from \/ (from = "waiting_approval" /\ to \in {"completed", "cancelled"})
    BY <1>7, <2>1, <2>2
       DEF Target, Lifecycle!CanTransition, Lifecycle!Successors
  <2> QED  BY <1>1, <1>3, <1>5, <1>6, <1>11, <2>2, <2>3
           DEF Accounted, Untouched, Overruled
<1> QED  BY <1>8, <1>9, <1>10, <1>11 DEF Writers

\* A process that ends leaves a queued task to nobody.
LEMMA AccountForget ==
  ASSUME TypeInv, AllAccounted, ForgetAll, UNCHANGED <<status, lease>>,
         \A t \in Tasks : job'[t] = job[t] \/ job[t] = "active"
  PROVE  AllAccounted'
<1>1. /\ watched' = {} /\ settled' = {} /\ unwritten' = {}
      /\ resched'.task = NoTask /\ resched'.todo = {}
  BY DEF ForgetAll, NoPass
<1>2. \A u \in Tasks : /\ Handler(u)' = "idle" /\ Watchdog(u)' = "idle"
                       /\ Api(u)' = Api(u)
  BY ForgetMoves DEF TypeInv, TypeOK
<1>3. \A w \in Writers, t \in Tasks : seen'[w][t] \in {NoStatus, seen[w][t]}
  BY DEF ForgetAll
<1>4. ASSUME NEW t \in Tasks
      PROVE  Accounted(t)'
  BY <1>1, <1>2, <1>3, ConstantsAssumption
     DEF AllAccounted, Accounted, Untouched, NoStatus
<1> QED  BY <1>1, <1>4 DEF AllAccounted

\* Every action keeps the accounts.
LEMMA AccountStep ==
  ASSUME TypeInv, WritesInv, AccountInv, [Next]_vars
  PROVE  AccountInv'
<1>1. ASSUME NEW t \in Tasks, CreateTask(t)
      PROVE  AccountInv'
  BY <1>1, ConstantsAssumption, ApiMoves
     DEF CreateTask, ApiStep, LarkStep, SlackStep, casVars, slots, guards, passes,
         restart, bounds, TypeInv, TypeOK, PostgresTypeOK, WorkerTypeOK,
         BoundsTypeOK, Unborn, WritesInv, WriteInv, PhaseInv, FreshInv, Fresh,
         RecoveryInv, FormInv, Reliable, AccountInv, AllAccounted, Accounted,
         Untouched, Overruled
<1>2. ASSUME NEW t \in Tasks, ApiEnqueues(t)
      PROVE  AccountInv'
  BY <1>2, ConstantsAssumption, ApiMoves
     DEF ApiEnqueues, ApiStep, LarkStep, SlackStep, Enqueue, CanEnqueue, Live,
         casVars, slots, guards, passes, restart, bounds, TypeInv, TypeOK,
         PostgresTypeOK, WorkerTypeOK, BoundsTypeOK, Unborn, WritesInv, WriteInv,
         PhaseInv, FreshInv, Fresh, RecoveryInv, FormInv, Reliable, AccountInv,
         AllAccounted, Accounted, Untouched, Overruled
<1>3. ASSUME NEW t \in Tasks, ApiEnqueueThrows(t)
      PROVE  AccountInv'
  BY <1>3, ConstantsAssumption, ApiMoves
     DEF ApiEnqueueThrows, ApiStep, LarkStep, SlackStep, EnqueueThrows, CanEnqueue,
         Live, bounds, Fault, Enqueue, casVars, slots, guards, passes, restart,
         TypeInv, TypeOK, PostgresTypeOK, WorkerTypeOK, BoundsTypeOK, Unborn,
         WritesInv, WriteInv, PhaseInv, FreshInv, Fresh, RecoveryInv, FormInv,
         Reliable, AccountInv, AllAccounted, Accounted, Untouched, Overruled
<1>4. ASSUME NEW t \in Tasks, Redeliver(t)
      PROVE  AccountInv'
  BY <1>4, ConstantsAssumption, ApiMoves
     DEF Redeliver, ApiStep, LarkStep, SlackStep, postgres, casVars, slots, guards,
         passes, restart, TypeInv, TypeOK, PostgresTypeOK, WorkerTypeOK,
         BoundsTypeOK, Unborn, WritesInv, WriteInv, PhaseInv, FreshInv, Fresh,
         RecoveryInv, FormInv, Reliable, AccountInv, AllAccounted, Accounted,
         Untouched, Overruled
<1>5. ASSUME NEW t \in Tasks, NEW action \in {"confirming", "rejecting"}, FormClicked(t, action)
      PROVE  AccountInv'
  BY <1>5, ConstantsAssumption, FormMoves
     DEF FormClicked, FormStep, postgres, casVars, slots, guards, passes, restart,
         bounds, TypeInv, TypeOK, PostgresTypeOK, WorkerTypeOK, BoundsTypeOK,
         Unborn, WritesInv, WriteInv, PhaseInv, FreshInv, Fresh, RecoveryInv,
         FormInv, Reliable, AccountInv, AllAccounted, Accounted, Untouched,
         Overruled
<1>6. ASSUME NEW t \in Tasks, FetchJob(t)
      PROVE  AccountInv'
  BY <1>6, ConstantsAssumption, TurnMoves
     DEF FetchJob, HandlerStep, Admitted, Busy, casVars, slots, guards, passes,
         restart, bounds, TypeInv, TypeOK, PostgresTypeOK, WorkerTypeOK,
         BoundsTypeOK, Unborn, WritesInv, WriteInv, PhaseInv, FreshInv, Fresh,
         RecoveryInv, FormInv, Reliable, AccountInv, AllAccounted, Accounted,
         Untouched, Overruled
<1>7. ASSUME NEW t \in Tasks, CheckQueued(t)
      PROVE  AccountInv'
  BY <1>7, ConstantsAssumption, TurnMoves
     DEF CheckQueued, HandlerStep, Admitted, postgres, casVars, slots, guards,
         passes, restart, bounds, TypeInv, TypeOK, PostgresTypeOK, WorkerTypeOK,
         BoundsTypeOK, Unborn, WritesInv, WriteInv, PhaseInv, FreshInv, Fresh,
         RecoveryInv, FormInv, Reliable, AccountInv, AllAccounted, Accounted,
         Untouched, Overruled
<1>8. ASSUME NEW t \in Tasks, OverBudget(t)
      PROVE  AccountInv'
  BY <1>8, ConstantsAssumption, TurnMoves
     DEF OverBudget, HandlerStep, Admitted, casVars, slots, guards, passes, restart,
         bounds, TypeInv, TypeOK, PostgresTypeOK, WorkerTypeOK, BoundsTypeOK,
         Unborn, WritesInv, WriteInv, PhaseInv, FreshInv, Fresh, RecoveryInv,
         FormInv, Reliable, AccountInv, AllAccounted, Accounted, Untouched,
         Overruled
<1>9. ASSUME NEW t \in Tasks, Admit(t)
      PROVE  AccountInv'
  BY <1>9, ConstantsAssumption, TurnMoves
     DEF Admit, HandlerStep, Admitted, postgres, casVars, guards, passes, restart,
         bounds, TypeInv, TypeOK, PostgresTypeOK, WorkerTypeOK, BoundsTypeOK,
         Unborn, WritesInv, WriteInv, PhaseInv, FreshInv, Fresh, RecoveryInv,
         FormInv, Reliable, AccountInv, AllAccounted, Accounted, Untouched,
         Overruled
<1>10. ASSUME NEW t \in Tasks, Deny(t)
      PROVE  AccountInv'
  BY <1>10, ConstantsAssumption, TurnMoves
     DEF Deny, HandlerStep, Admitted, postgres, casVars, slots, guards, passes,
         restart, bounds, TypeInv, TypeOK, PostgresTypeOK, WorkerTypeOK,
         BoundsTypeOK, Unborn, WritesInv, WriteInv, PhaseInv, FreshInv, Fresh,
         RecoveryInv, FormInv, Reliable, AccountInv, AllAccounted, Accounted,
         Untouched, Overruled
<1>11. ASSUME NEW t \in Tasks, DeferTask(t)
      PROVE  AccountInv'
  BY <1>11, ConstantsAssumption, TurnMoves
     DEF DeferTask, HandlerStep, Admitted, casVars, slots, guards, passes, restart,
         bounds, TypeInv, TypeOK, PostgresTypeOK, WorkerTypeOK, BoundsTypeOK,
         Unborn, WritesInv, WriteInv, PhaseInv, FreshInv, Fresh, RecoveryInv,
         FormInv, Reliable, AccountInv, AllAccounted, Accounted, Untouched,
         Overruled
<1>12. ASSUME NEW t \in Tasks, BeginTurn(t)
      PROVE  AccountInv'
  BY <1>12, ConstantsAssumption, TurnMoves
     DEF BeginTurn, HandlerStep, Admitted, casVars, slots, passes, restart, bounds,
         TypeInv, TypeOK, PostgresTypeOK, WorkerTypeOK, BoundsTypeOK, Unborn,
         WritesInv, WriteInv, PhaseInv, FreshInv, Fresh, RecoveryInv, FormInv,
         Reliable, AccountInv, AllAccounted, Accounted, Untouched, Overruled
<1>13. ASSUME NEW t \in Tasks, StartRuntime(t)
      PROVE  AccountInv'
  BY <1>13, ConstantsAssumption, TurnMoves
     DEF StartRuntime, HandlerStep, Admitted, postgres, casVars, guards, passes,
         restart, bounds, TypeInv, TypeOK, PostgresTypeOK, WorkerTypeOK,
         BoundsTypeOK, Unborn, WritesInv, WriteInv, PhaseInv, FreshInv, Fresh,
         RecoveryInv, FormInv, Reliable, AccountInv, AllAccounted, Accounted,
         Untouched, Overruled
<1>14. ASSUME NEW t \in Tasks, EndRuntime(t)
      PROVE  AccountInv'
  BY <1>14, ConstantsAssumption, TurnMoves
     DEF EndRuntime, HandlerStep, Admitted, postgres, casVars, slots, guards,
         passes, restart, bounds, TypeInv, TypeOK, PostgresTypeOK, WorkerTypeOK,
         BoundsTypeOK, Unborn, WritesInv, WriteInv, PhaseInv, FreshInv, Fresh,
         RecoveryInv, FormInv, Reliable, AccountInv, AllAccounted, Accounted,
         Untouched, Overruled
<1>15. ASSUME NEW t \in Tasks, WrapUp(t)
      PROVE  AccountInv'
  BY <1>15, ConstantsAssumption, TurnMoves
     DEF WrapUp, HandlerStep, Admitted, postgres, casVars, slots, guards, passes,
         restart, bounds, TypeInv, TypeOK, PostgresTypeOK, WorkerTypeOK,
         BoundsTypeOK, Unborn, WritesInv, WriteInv, PhaseInv, FreshInv, Fresh,
         RecoveryInv, FormInv, Reliable, AccountInv, AllAccounted, Accounted,
         Untouched, Overruled
<1>16. ASSUME NEW t \in Tasks, FenceStops(t)
      PROVE  AccountInv'
  BY <1>16, ConstantsAssumption, TurnMoves
     DEF FenceStops, HandlerStep, Admitted, postgres, casVars, slots, guards,
         passes, restart, bounds, TypeInv, TypeOK, PostgresTypeOK, WorkerTypeOK,
         BoundsTypeOK, Unborn, WritesInv, WriteInv, PhaseInv, FreshInv, Fresh,
         RecoveryInv, FormInv, Reliable, AccountInv, AllAccounted, Accounted,
         Untouched, Overruled
<1>17. ASSUME NEW t \in Tasks, Report(t)
      PROVE  AccountInv'
  BY <1>17, ConstantsAssumption, TurnMoves
     DEF Report, HandlerStep, Admitted, postgres, casVars, slots, guards, passes,
         restart, bounds, TypeInv, TypeOK, PostgresTypeOK, WorkerTypeOK,
         BoundsTypeOK, Unborn, WritesInv, WriteInv, PhaseInv, FreshInv, Fresh,
         RecoveryInv, FormInv, Reliable, AccountInv, AllAccounted, Accounted,
         Untouched, Overruled
<1>18. ASSUME NEW t \in Tasks, HandlerThrows(t)
      PROVE  AccountInv'
  BY <1>18, ConstantsAssumption, TurnMoves
     DEF HandlerThrows, HandlerStep, Admitted, Fault, postgres, casVars, slots,
         guards, passes, restart, TypeInv, TypeOK, PostgresTypeOK, WorkerTypeOK,
         BoundsTypeOK, Unborn, WritesInv, WriteInv, PhaseInv, FreshInv, Fresh,
         RecoveryInv, FormInv, Reliable, AccountInv, AllAccounted, Accounted,
         Untouched, Overruled
<1>19. ASSUME NEW t \in Tasks, FinallyBlock(t)
      PROVE  AccountInv'
  BY <1>19, ConstantsAssumption, TurnMoves
     DEF FinallyBlock, HandlerStep, Admitted, postgres, casVars, passes, restart,
         bounds, TypeInv, TypeOK, PostgresTypeOK, WorkerTypeOK, BoundsTypeOK,
         Unborn, WritesInv, WriteInv, PhaseInv, FreshInv, Fresh, RecoveryInv,
         FormInv, Reliable, AccountInv, AllAccounted, Accounted, Untouched,
         Overruled
<1>20. ASSUME NEW t \in Tasks, EndJob(t)
      PROVE  AccountInv'
  BY <1>20, ConstantsAssumption, TurnMoves
     DEF EndJob, HandlerStep, Admitted, casVars, slots, guards, passes, restart,
         bounds, TypeInv, TypeOK, PostgresTypeOK, WorkerTypeOK, BoundsTypeOK,
         Unborn, WritesInv, WriteInv, PhaseInv, FreshInv, Fresh, RecoveryInv,
         FormInv, Reliable, AccountInv, AllAccounted, Accounted, Untouched,
         Overruled
<1>21. ASSUME NEW t \in Tasks, EndJobUnrecorded(t)
      PROVE  AccountInv'
  BY <1>21, ConstantsAssumption, TurnMoves
     DEF EndJobUnrecorded, HandlerStep, Admitted, Fault, postgres, casVars, slots,
         guards, passes, restart, TypeInv, TypeOK, PostgresTypeOK, WorkerTypeOK,
         BoundsTypeOK, Unborn, WritesInv, WriteInv, PhaseInv, FreshInv, Fresh,
         RecoveryInv, FormInv, Reliable, AccountInv, AllAccounted, Accounted,
         Untouched, Overruled
<1>22. ASSUME NEW t \in Tasks, ExpireJob(t)
      PROVE  AccountInv'
  BY <1>22, ConstantsAssumption, StepsKept
     DEF ExpireJob, Busy, casVars, slots, guards, passes, restart, bounds, TypeInv,
         TypeOK, PostgresTypeOK, WorkerTypeOK, BoundsTypeOK, Unborn, WritesInv,
         WriteInv, PhaseInv, FreshInv, Fresh, RecoveryInv, FormInv, Reliable,
         AccountInv, AllAccounted, Accounted, Untouched, Overruled
<1>23. ASSUME NEW t \in Tasks, CancelRuntime(t)
      PROVE  AccountInv'
  BY <1>23, ConstantsAssumption, StepsKept
     DEF CancelRuntime, Scannable, postgres, casVars, slots, passes, restart,
         bounds, TypeInv, TypeOK, PostgresTypeOK, WorkerTypeOK, BoundsTypeOK,
         Unborn, WritesInv, WriteInv, PhaseInv, FreshInv, Fresh, RecoveryInv,
         FormInv, Reliable, AccountInv, AllAccounted, Accounted, Untouched,
         Overruled
<1>24. ASSUME NEW t \in Tasks, FindNoRuntime(t)
      PROVE  AccountInv'
  BY <1>24, ConstantsAssumption, WatchdogMoves
     DEF FindNoRuntime, WatchdogStep, Scannable, postgres, casVars, slots, guards,
         passes, restart, bounds, TypeInv, TypeOK, PostgresTypeOK, WorkerTypeOK,
         BoundsTypeOK, Unborn, WritesInv, WriteInv, PhaseInv, FreshInv, Fresh,
         RecoveryInv, FormInv, Reliable, AccountInv, AllAccounted, Accounted,
         Untouched, Overruled
<1>25. ASSUME NEW t \in Tasks, SettleFence(t)
      PROVE  AccountInv'
  BY <1>25, ConstantsAssumption, WatchdogMoves
     DEF SettleFence, WatchdogStep, postgres, casVars, passes, restart, bounds,
         TypeInv, TypeOK, PostgresTypeOK, WorkerTypeOK, BoundsTypeOK, Unborn,
         WritesInv, WriteInv, PhaseInv, FreshInv, Fresh, RecoveryInv, FormInv,
         Reliable, AccountInv, AllAccounted, Accounted, Untouched, Overruled
<1>26. ASSUME NEW t \in Tasks, ResumeSettlement(t)
      PROVE  AccountInv'
  BY <1>26, ConstantsAssumption, WatchdogMoves
     DEF ResumeSettlement, WatchdogStep, postgres, casVars, slots, guards, passes,
         restart, bounds, TypeInv, TypeOK, PostgresTypeOK, WorkerTypeOK,
         BoundsTypeOK, Unborn, WritesInv, WriteInv, PhaseInv, FreshInv, Fresh,
         RecoveryInv, FormInv, Reliable, AccountInv, AllAccounted, Accounted,
         Untouched, Overruled
<1>27. ASSUME NEW t \in Tasks, SettlementThrows(t)
      PROVE  AccountInv'
  BY <1>27, ConstantsAssumption, WatchdogMoves
     DEF SettlementThrows, WatchdogStep, Fault, postgres, casVars, slots, guards,
         passes, restart, TypeInv, TypeOK, PostgresTypeOK, WorkerTypeOK,
         BoundsTypeOK, Unborn, WritesInv, WriteInv, PhaseInv, FreshInv, Fresh,
         RecoveryInv, FormInv, Reliable, AccountInv, AllAccounted, Accounted,
         Untouched, Overruled
<1>28. ASSUME NEW t \in Tasks, LookAtStatus(t)
      PROVE  AccountInv'
  BY <1>28, ConstantsAssumption, WatchdogMoves
     DEF LookAtStatus, WatchdogStep, postgres, casVars, slots, guards, passes,
         restart, bounds, TypeInv, TypeOK, PostgresTypeOK, WorkerTypeOK,
         BoundsTypeOK, Unborn, WritesInv, WriteInv, PhaseInv, FreshInv, Fresh,
         RecoveryInv, FormInv, Reliable, AccountInv, AllAccounted, Accounted,
         Untouched, Overruled
<1>29. ASSUME NEW t \in Tasks, Unwatch(t)
      PROVE  AccountInv'
  BY <1>29, ConstantsAssumption, WatchdogMoves
     DEF Unwatch, WatchdogStep, postgres, casVars, slots, passes, restart, bounds,
         TypeInv, TypeOK, PostgresTypeOK, WorkerTypeOK, BoundsTypeOK, Unborn,
         WritesInv, WriteInv, PhaseInv, FreshInv, Fresh, RecoveryInv, FormInv,
         Reliable, AccountInv, AllAccounted, Accounted, Untouched, Overruled
<1>30. ASSUME NEW t \in Tasks, LoadTask(t)
      PROVE  AccountInv'
  BY <1>30, ConstantsAssumption, StepsKept
     DEF LoadTask, postgres, casVars, slots, guards, passes, restart, bounds,
         TypeInv, TypeOK, PostgresTypeOK, WorkerTypeOK, BoundsTypeOK, Unborn,
         WritesInv, WriteInv, PhaseInv, FreshInv, Fresh, RecoveryInv, FormInv,
         Reliable, AccountInv, AllAccounted, Accounted, Untouched, Overruled
<1>31. ASSUME NEW t \in Tasks, RescheduleTask(t)
      PROVE  AccountInv'
  BY <1>31, ConstantsAssumption, StepsKept
     DEF RescheduleTask, Enqueue, CanEnqueue, Live, casVars, slots, guards, passes,
         restart, bounds, TypeInv, TypeOK, PostgresTypeOK, WorkerTypeOK,
         BoundsTypeOK, Unborn, WritesInv, WriteInv, PhaseInv, FreshInv, Fresh,
         RecoveryInv, FormInv, Reliable, AccountInv, AllAccounted, Accounted,
         Untouched, Overruled
<1>32. ASSUME NEW t \in Tasks, ReschedulerThrows(t)
      PROVE  AccountInv'
  BY <1>32, ConstantsAssumption, StepsKept
     DEF ReschedulerThrows, EnqueueThrows, CanEnqueue, Live, bounds, Fault, Enqueue,
         NoPass, casVars, slots, guards, passes, restart, TypeInv, TypeOK,
         PostgresTypeOK, WorkerTypeOK, BoundsTypeOK, Unborn, WritesInv, WriteInv,
         PhaseInv, FreshInv, Fresh, RecoveryInv, FormInv, Reliable, AccountInv,
         AllAccounted, Accounted, Untouched, Overruled
<1>33. ASSUME NEW t \in Tasks, DeleteLease(t)
      PROVE  AccountInv'
  BY <1>33, ConstantsAssumption, StepsKept
     DEF DeleteLease, NextLease, NoPass, casVars, slots, guards, passes, restart,
         bounds, TypeInv, TypeOK, PostgresTypeOK, WorkerTypeOK, BoundsTypeOK,
         Unborn, WritesInv, WriteInv, PhaseInv, FreshInv, Fresh, RecoveryInv,
         FormInv, Reliable, AccountInv, AllAccounted, Accounted, Untouched,
         Overruled
<1>34. ASSUME NEW t \in Tasks, RequeueStale(t)
      PROVE  AccountInv'
  BY <1>34, ConstantsAssumption, StepsKept
     DEF RequeueStale, NoRow, casVars, slots, guards, passes, bounds, TypeInv,
         TypeOK, PostgresTypeOK, WorkerTypeOK, BoundsTypeOK, Unborn, WritesInv,
         WriteInv, PhaseInv, FreshInv, Fresh, RecoveryInv, FormInv, Reliable,
         AccountInv, AllAccounted, Accounted, Untouched, Overruled
<1>35. ASSUME NEW t \in Tasks, RequeueThrows(t)
      PROVE  AccountInv'
  BY <1>35, ConstantsAssumption, StepsKept
     DEF RequeueThrows, NoRow, Fault, postgres, casVars, slots, guards, passes,
         TypeInv, TypeOK, PostgresTypeOK, WorkerTypeOK, BoundsTypeOK, Unborn,
         WritesInv, WriteInv, PhaseInv, FreshInv, Fresh, RecoveryInv, FormInv,
         Reliable, AccountInv, AllAccounted, Accounted, Untouched, Overruled
<1>36. ASSUME NEW t \in Tasks, EnqueueStale(t)
      PROVE  AccountInv'
  BY <1>36, ConstantsAssumption, StepsKept
     DEF EnqueueStale, Enqueue, CanEnqueue, Live, NoRow, casVars, slots, guards,
         passes, bounds, TypeInv, TypeOK, PostgresTypeOK, WorkerTypeOK,
         BoundsTypeOK, Unborn, WritesInv, WriteInv, PhaseInv, FreshInv, Fresh,
         RecoveryInv, FormInv, Reliable, AccountInv, AllAccounted, Accounted,
         Untouched, Overruled
<1>37. ASSUME NEW t \in Tasks, RecoveryThrows(t)
      PROVE  AccountInv'
  BY <1>37, ConstantsAssumption, StepsKept
     DEF RecoveryThrows, EnqueueThrows, CanEnqueue, Live, passes, bounds, Fault,
         Enqueue, casVars, slots, guards, TypeInv, TypeOK, PostgresTypeOK,
         WorkerTypeOK, BoundsTypeOK, Unborn, WritesInv, WriteInv, PhaseInv,
         FreshInv, Fresh, RecoveryInv, FormInv, Reliable, AccountInv, AllAccounted,
         Accounted, Untouched, Overruled
<1>38. ASSUME NEW t \in Tasks, FailStale(t)
      PROVE  AccountInv'
  BY <1>38, ConstantsAssumption, StepsKept
     DEF FailStale, NoRow, casVars, slots, guards, passes, bounds, TypeInv, TypeOK,
         PostgresTypeOK, WorkerTypeOK, BoundsTypeOK, Unborn, WritesInv, WriteInv,
         PhaseInv, FreshInv, Fresh, RecoveryInv, FormInv, Reliable, AccountInv,
         AllAccounted, Accounted, Untouched, Overruled
<1>39. ASSUME NEW t \in Tasks, NEW w \in Writers, TransitionAction(w, t)
      PROVE  AccountInv'
  BY <1>39, AccountTransition
<1>40. ASSUME NEW due \in SUBSET lease, ListDueLeases(due)
      PROVE  AccountInv'
  BY <1>40, StepsKept
     DEF ListDueLeases, NoPass, Busy, NextLease, postgres, casVars, slots, guards,
         passes, restart, bounds, TypeInv, TypeOK, PostgresTypeOK, WorkerTypeOK,
         BoundsTypeOK, Unborn, WritesInv, WriteInv, PhaseInv, FreshInv, Fresh,
         RecoveryInv, FormInv, Reliable, AccountInv, AllAccounted, Accounted,
         Untouched, Overruled
<1>41. CASE StartWorker
  BY <1>41, ConstantsAssumption, StepsKept
     DEF StartWorker, postgres, casVars, slots, guards, passes, bounds, TypeInv,
         TypeOK, PostgresTypeOK, WorkerTypeOK, BoundsTypeOK, Unborn, WritesInv,
         WriteInv, PhaseInv, FreshInv, Fresh, RecoveryInv, FormInv, Reliable,
         AccountInv, AllAccounted, Accounted, Untouched, Overruled
<1>42. CASE Subscribe
  BY <1>42, ConstantsAssumption, StepsKept
     DEF Subscribe, NoRow, postgres, casVars, slots, guards, passes, bounds,
         TypeInv, TypeOK, PostgresTypeOK, WorkerTypeOK, BoundsTypeOK, Unborn,
         WritesInv, WriteInv, PhaseInv, FreshInv, Fresh, RecoveryInv, FormInv,
         Reliable, AccountInv, AllAccounted, Accounted, Untouched, Overruled
<1>43. CASE Shutdown
  BY <1>43, ConstantsAssumption, StepsKept
     DEF Shutdown, postgres, casVars, slots, guards, passes, TypeInv, TypeOK,
         PostgresTypeOK, WorkerTypeOK, BoundsTypeOK, Unborn, WritesInv, WriteInv,
         PhaseInv, FreshInv, Fresh, RecoveryInv, FormInv, Reliable, AccountInv,
         AllAccounted, Accounted, Untouched, Overruled
<1>44. CASE Crash
  BY <1>44, AccountForget DEF Crash, postgres, passes, bounds, TypeInv, TypeOK,
                              PostgresTypeOK, AccountInv
<1>45. CASE Exit
  BY <1>45, AccountForget DEF Exit, postgres, passes, bounds, TypeInv, TypeOK,
                              PostgresTypeOK, AccountInv
<1>46. CASE ForcedExit
  BY <1>46, AccountForget DEF ForcedExit, postgres, passes, bounds, TypeInv, TypeOK,
                              PostgresTypeOK, AccountInv
<1>47. CASE UNCHANGED vars
  BY <1>47, StepsKept
     DEF vars, postgres, casVars, slots, guards, passes, restart, bounds, TypeInv,
         TypeOK, PostgresTypeOK, WorkerTypeOK, BoundsTypeOK, Unborn, WritesInv,
         WriteInv, PhaseInv, FreshInv, Fresh, RecoveryInv, FormInv, Reliable,
         AccountInv, AllAccounted, Accounted, Untouched, Overruled
<1> QED
  BY <1>1, <1>2, <1>3, <1>4, <1>5, <1>6, <1>7, <1>8, <1>9, <1>10, <1>11, <1>12,
     <1>13, <1>14, <1>15, <1>16, <1>17, <1>18, <1>19, <1>20, <1>21, <1>22, <1>23,
     <1>24, <1>25, <1>26, <1>27, <1>28, <1>29, <1>30, <1>31, <1>32, <1>33, <1>34,
     <1>35, <1>36, <1>37, <1>38, <1>39, <1>40, <1>41, <1>42, <1>43, <1>44, <1>45,
     <1>46, <1>47
     DEF Next, TaskNext, ApiTurn, HandlerTurn, SettlementTurn, ReschedulerTurn,
         RecoveryTurn, WorkerTurn, TransitionAction, Writers

\* The inductive invariant of what executes.
LEMMA AccountInvariance ==
  Spec => []AccountInv
<1>1. ASSUME Init PROVE AccountInv
  <2>1. \A t \in Tasks : Api(t) = "idle" /\ Handler(t) = "idle" /\ Watchdog(t) = "idle"
    BY <1>1 DEF Init, Idle, Api, Handler, Watchdog, Writers
  <2>2. /\ status = [t \in Tasks |-> "absent"] /\ job = [t \in Tasks |-> "none"]
        /\ lease = {} /\ watched = {} /\ settled = {} /\ unwritten = {}
        /\ resched = NoPass
        /\ seen = [w \in Writers |-> [t \in Tasks |-> NoStatus]]
    BY <1>1 DEF Init
  <2>3. \A w \in Writers, t \in Tasks : seen[w][t] # "waiting_delegation"
    BY <2>2 DEF NoStatus
  <2> QED  BY <2>1, <2>2, <2>3, ConstantsAssumption
           DEF AccountInv, AllAccounted, Accounted, Untouched, NoPass
<1>2. TypeInv /\ WritesInv /\ AccountInv /\ [Next]_vars => AccountInv'
  BY AccountStep
<1> QED  BY <1>1, <1>2, TypeInvariance, WritesInvariance, PTL DEF Spec

\* ExecutingIsAccountedFor: as long as no call failed, a runtime executes only
\* for a task whose row says running and that the watchdog watches, or behind
\* the fence that will stop it, whatever stops and restarts the worker.
THEOREM RuntimesAccountedFor ==
  Spec => []ExecutingIsAccountedFor
<1>1. AccountInv => ExecutingIsAccountedFor
  BY DEF AccountInv, AllAccounted, Accounted, ExecutingIsAccountedFor
<1> QED  BY <1>1, AccountInvariance, PTL

(***************************************************************************)
(* Nobody is left behind.                                                  *)
(***************************************************************************)
\* Turns that will end the task, run it, or leave it a lease.
Carrying == {"guard", "admit", "deferring", "admitted", "toRunning", "toConfirm", "failing"}

Carried(t) ==
  \/ job[t] = "created"
  \/ Handler(t) \in Carrying
  \/ t \in lease /\ ~(resched.task = t /\ resched.step = "deleting")
  \/ t \in overtaken

Unfinished(t) == status[t] \in {"queued", "running"}

\* A queued task is carried, and a running one has its turn or its settlement.
\* A lease that a pass is about to delete carries nobody; so the pass either made
\* a job, or left one that is not fetched yet, or the turn has not deferred yet.
Kept(t) ==
  /\ job[t] = "none" => rows[t] = 0
  /\ job[t] = "active" => Busy(t)
  /\ status[t] = "queued" =>
       /\ Carried(t) \/ (Api(t) \in {"enqueuing", "reenqueuing"} /\ job[t] = "none")
       /\ Handler(t) \in Carrying \cup {"idle", "closing", "ending"}
  /\ status[t] = "running" =>
       Handler(t) \in (Admitted \ {"reporting"}) \cup {"failing"} \/ t \in unwritten
  /\ Unfinished(t) => /\ t \in settled => t \in unwritten
                      /\ Watchdog(t) # "unwatching"
                      /\ seen["handler"][t] \in {NoStatus, status[t]}

AllKept ==
  /\ phase # "draining" /\ stale = {} /\ recovery = NoRow
  /\ phase \in {"down", "recovering"} => \A t \in Tasks : status[t] # "running"
  /\ \A t \in Tasks : Kept(t)

KeptInv == faults = 0 /\ stops = 0 => AllKept

\* transitionTask moves a task from one that carries it to the next.
LEMMA KeptTransition ==
  ASSUME TypeInv, WritesInv, AccountInv, KeptInv, NEW w \in Writers, NEW t \in Tasks,
         TransitionAction(w, t)
  PROVE  KeptInv'
<1> SUFFICES ASSUME faults' = 0, stops' = 0  PROVE AllKept'
  BY DEF KeptInv
<1>1. /\ AllKept /\ AllAccounted /\ faults = 0
      /\ UNCHANGED <<job, rows, lease, resched, overtaken, phase, stale, recovery, settled,
                  unwritten>>
  BY TransitionKeeps, TransitionEnds
     DEF KeptInv, AccountInv, WritesInv, WriteInv, guards, passes, restart
<1>2. /\ at[w][t] \in DOMAIN Target
      /\ \A v \in Writers, u \in Tasks :
           v # w \/ u # t => at'[v][u] = at[v][u] /\ seen'[v][u] = seen[v][u]
      /\ \/ seen'[w][t] = NoStatus
         \/ seen'[w][t] = status[t] /\ UNCHANGED status
      /\ \A u \in Tasks : u # t => status'[u] = status[u]
  BY TransitionCases DEF TypeInv, TypeOK, PostgresTypeOK
<1>3. \A u \in Tasks : /\ w # "api" \/ u # t => Api(u)' = Api(u)
                       /\ w # "handler" \/ u # t => Handler(u)' = Handler(u)
                       /\ w # "watchdog" \/ u # t => Watchdog(u)' = Watchdog(u)
                       /\ w # "form" \/ u # t => Form(u)' = Form(u)
                       /\ w # "handler" \/ u # t => seen'["handler"][u] = seen["handler"][u]
  BY <1>2 DEF Api, Handler, Watchdog, Form, Writers
<1>4. \A u \in Tasks : u # t => Kept(u)'
  BY <1>1, <1>2, <1>3 DEF AllKept, Kept, Carried, Unfinished, Busy
<1>5. Kept(t) /\ Accounted(t) /\ status[t] \in Status
  BY <1>1 DEF AllKept, AllAccounted, TypeInv, TypeOK, PostgresTypeOK
<1> DEFINE from == status[t]
           to   == status'[t]
           step == at[w][t]
<1>6. \/ at'[w][t] = step /\ to = from
      \/ /\ at'[w][t] = Refused[step] /\ to = from
         /\ ~Lifecycle!CanTransition(from, Target[step])
      \/ /\ at'[w][t] = Errored[step] /\ to = from
         /\ seen[w][t] \notin {NoStatus, from, "waiting_delegation"}
         /\ seen[w][t] \in Status
         /\ Lifecycle!CanTransition(seen[w][t], Target[step])
      \/ /\ at'[w][t] = Committed[step] /\ to = Target[step]
         /\ seen'[w][t] = NoStatus
         /\ Lifecycle!CanTransition(from, Target[step])
  BY <1>5, TransitionEnds, TransitionCases
     DEF Accounted, TypeInv, TypeOK, PostgresTypeOK, CasTypeOK, WritesInv, WriteInv
<1>7. to = "running" => from = "running" \/ w = "handler"
  <2>1. step \in {"toRunning", "toConfirm"} => w = "handler"
    BY <1>2 DEF TypeInv, TypeOK, StepsTypeOK, Api, Watchdog, Form, Writers, ApiStep,
                LarkStep, SlackStep, WatchdogStep, FormStep
  <2>2. Target[step] = "running" => step \in {"toRunning", "toConfirm"}
    BY <1>2, TargetSteps DEF Target
  <2> QED  BY <1>6, <2>1, <2>2
<1>8. phase \in {"down", "recovering"} => \A u \in Tasks : status'[u] # "running"
  <2>1. w = "handler" => Handler(t) # "idle"
    BY <1>2, TargetSteps DEF Handler
  <2> QED  BY <1>1, <1>2, <1>7, <2>1 DEF AllKept, WritesInv, WriteInv, PhaseInv
<1> SUFFICES Kept(t)'
  BY <1>1, <1>4, <1>8 DEF AllKept
<1>9. w = "handler" => seen'["handler"][t] \in {NoStatus, to}
  BY <1>2
<1>10. CASE w = "api"
  <2>1. /\ Api(t) = step /\ Api(t)' = at'[w][t]
        /\ step \in {"queueing", "requeueing", "compensating"}
    BY <1>2, <1>10, TargetSteps
       DEF Api, TypeInv, TypeOK, StepsTypeOK, ApiStep, LarkStep, SlackStep
  <2>2. CASE step = "compensating"
    <3>1. to \in {from, "failed"}
      BY <1>6, <2>2 DEF Target
    <3> QED  BY <1>1, <1>3, <1>5, <1>10, <2>1, <2>2, <3>1
             DEF Kept, Carried, Unfinished, Busy
  <2>3. CASE step # "compensating"
    <3>1. Target[step] = "queued" /\ Committed[step] \in {"enqueuing", "reenqueuing"}
      BY <2>1, <2>3 DEF Target, Committed
    <3>2. Lifecycle!CanTransition(from, "queued") <=> from = "pending"
      BY <1>5, Statuses DEF Accounted, Lifecycle!CanTransition, Lifecycle!Successors
    <3>3. to = from \/ (from = "pending" /\ to = "queued"
                        /\ Api(t)' \in {"enqueuing", "reenqueuing"})
      BY <1>6, <2>1, <3>1, <3>2
    <3>4. CASE to = from
      BY <1>1, <1>3, <1>5, <1>10, <2>1, <3>4
         DEF Kept, Carried, Unfinished, Busy
    <3>5. CASE from = "pending" /\ to = "queued" /\ Api(t)' \in {"enqueuing", "reenqueuing"}
      <4>1. /\ Untouched(t) /\ Handler(t) = "idle" /\ job[t] = "none"
        BY <1>5, <3>5 DEF Accounted
      <4>2. seen["handler"][t] = NoStatus
        BY <4>1, TargetSteps DEF TypeInv, TypeOK, CasTypeOK, Transitioning, Handler, Writers
      <4> QED  BY <1>1, <1>3, <1>5, <1>10, <3>5, <4>1, <4>2
               DEF Kept, Carried, Unfinished, Busy, Untouched
    <3> QED  BY <3>3, <3>4, <3>5
  <2> QED  BY <2>2, <2>3
<1>11. CASE w = "handler"
  <2>1. /\ Handler(t) = step /\ Handler(t)' = at'[w][t]
        /\ step \in {"toRunning", "toConfirm", "asking", "succeeding", "conceding", "failing"}
    BY <1>2, <1>11, TargetSteps
       DEF Handler, TypeInv, TypeOK, StepsTypeOK, HandlerStep, Admitted
  <2>2. CASE step \in {"toRunning", "toConfirm"}
    <3>1. Target[step] = "running" /\ Refused[step] = "failing" /\ Errored[step] = "failing"
          /\ Committed[step] \in {"launching", "asking"}
      BY <2>2 DEF Target, Committed, Refused, Errored
    <3>2. Lifecycle!CanTransition(from, "running") <=> from = "queued"
      BY <1>5, Statuses DEF Lifecycle!CanTransition, Lifecycle!Successors
    <3>3. \/ Handler(t)' = Handler(t) /\ to = from
          \/ Handler(t)' = "failing" /\ to = from
          \/ Handler(t)' \in {"launching", "asking"} /\ from = "queued" /\ to = "running"
      BY <1>6, <2>1, <3>1, <3>2
    <3> QED  BY <1>1, <1>3, <1>5, <1>9, <1>11, <2>1, <2>2, <3>3
             DEF Kept, Carried, Carrying, Unfinished, Busy, Admitted
  <2>3. CASE step \in {"asking", "succeeding", "conceding"}
    <3>1. /\ Target[step] \in {"waiting_approval", "completed", "failed"}
          /\ Refused[step] = "failing" /\ Errored[step] = "failing"
          /\ Committed[step] \in {"closing", "reporting"}
      BY <2>3 DEF Target, Committed, Refused, Errored
    <3>2. \/ Handler(t)' \in {Handler(t), "failing"} /\ to = from
          \/ /\ Handler(t)' \in {"closing", "reporting"}
             /\ to \in {"waiting_approval", "completed", "failed"}
      BY <1>6, <2>1, <3>1
    <3> QED  BY <1>1, <1>3, <1>5, <1>9, <1>11, <2>1, <2>3, <3>2
             DEF Kept, Carried, Carrying, Unfinished, Busy, Admitted
  <2>4. CASE step = "failing"
    <3>1. /\ Target[step] = "failed" /\ Refused[step] = "erring"
          /\ Errored[step] = "erring" /\ Committed[step] = "closing"
      BY <2>4 DEF Target, Committed, Refused, Errored
    <3>2. Unfinished(t) => Lifecycle!CanTransition(from, "failed")
      BY DEF Unfinished, Lifecycle!CanTransition, Lifecycle!Successors
    <3>3. \/ Handler(t)' = Handler(t) /\ to = from
          \/ Handler(t)' = "erring" /\ to = from /\ ~Unfinished(t)
          \/ Handler(t)' = "closing" /\ to = "failed"
      BY <1>5, <1>6, <1>11, <2>1, <3>1, <3>2 DEF Kept
    <3> QED  BY <1>1, <1>3, <1>5, <1>9, <1>11, <2>1, <2>4, <3>3
             DEF Kept, Carried, Carrying, Unfinished, Busy
  <2> QED  BY <2>1, <2>2, <2>3, <2>4
<1>12. CASE w = "watchdog"
  <2>1. Watchdog(t) = "overruling" /\ step = "overruling" /\ Watchdog(t)' = at'[w][t]
    BY <1>2, <1>12, TargetSteps
       DEF Watchdog, TypeInv, TypeOK, StepsTypeOK, WatchdogStep
  <2>2. \/ Watchdog(t)' \in {"overruling", "idle"} /\ to = from
        \/ to = "failed"
    BY <1>6, <2>1 DEF Target, Refused, Errored
  <2> QED  BY <1>1, <1>3, <1>5, <1>12, <2>2
           DEF Kept, Carried, Unfinished, Busy
<1>13. CASE w = "form"
  <2>1. Form(t) = step /\ step \in {"confirming", "rejecting"}
    BY <1>2, <1>13, TargetSteps DEF Form, TypeInv, TypeOK, StepsTypeOK, FormStep
  <2>2. from \in {"waiting_approval", "completed", "failed", "cancelled"}
    BY <1>1, <2>1 DEF WritesInv, FormInv, Reliable
  <2>3. to \in {from, "completed", "cancelled"}
    BY <1>6, <2>1 DEF Target
  <2> QED  BY <1>1, <1>3, <1>5, <1>13, <2>2, <2>3
           DEF Kept, Carried, Unfinished, Busy
<1> QED  BY <1>10, <1>11, <1>12, <1>13 DEF Writers

\* Every action leaves an unfinished task to someone.
LEMMA KeptStep ==
  ASSUME TypeInv, WritesInv, AccountInv, KeptInv, [Next]_vars
  PROVE  KeptInv'
<1>1. ASSUME NEW t \in Tasks, CreateTask(t)
      PROVE  KeptInv'
  BY <1>1, ConstantsAssumption, ApiMoves
     DEF CreateTask, ApiStep, LarkStep, SlackStep, casVars, slots, guards, passes,
         restart, bounds, TypeInv, TypeOK, PostgresTypeOK, WorkerTypeOK,
         BoundsTypeOK, Unborn, WritesInv, WriteInv, PhaseInv, FreshInv, Fresh,
         AccountInv, AllAccounted, Accounted, Untouched, KeptInv, AllKept, Kept,
         Carried, Carrying, Unfinished, Busy
<1>2. ASSUME NEW t \in Tasks, ApiEnqueues(t)
      PROVE  KeptInv'
  BY <1>2, ConstantsAssumption, ApiMoves
     DEF ApiEnqueues, ApiStep, LarkStep, SlackStep, Enqueue, CanEnqueue, Live,
         casVars, slots, guards, passes, restart, bounds, TypeInv, TypeOK,
         PostgresTypeOK, WorkerTypeOK, BoundsTypeOK, Unborn, WritesInv, WriteInv,
         PhaseInv, FreshInv, Fresh, AccountInv, AllAccounted, Accounted, Untouched,
         KeptInv, AllKept, Kept, Carried, Carrying, Unfinished, Busy
<1>3. ASSUME NEW t \in Tasks, ApiEnqueueThrows(t)
      PROVE  KeptInv'
  BY <1>3, ConstantsAssumption, ApiMoves
     DEF ApiEnqueueThrows, ApiStep, LarkStep, SlackStep, EnqueueThrows, CanEnqueue,
         Live, bounds, Fault, Enqueue, casVars, slots, guards, passes, restart,
         TypeInv, TypeOK, PostgresTypeOK, WorkerTypeOK, BoundsTypeOK, Unborn,
         WritesInv, WriteInv, PhaseInv, FreshInv, Fresh, AccountInv, AllAccounted,
         Accounted, Untouched, KeptInv, AllKept, Kept, Carried, Carrying, Unfinished, Busy
<1>4. ASSUME NEW t \in Tasks, Redeliver(t)
      PROVE  KeptInv'
  BY <1>4, ConstantsAssumption, ApiMoves
     DEF Redeliver, ApiStep, LarkStep, SlackStep, postgres, casVars, slots, guards,
         passes, restart, TypeInv, TypeOK, PostgresTypeOK, WorkerTypeOK,
         BoundsTypeOK, Unborn, WritesInv, WriteInv, PhaseInv, FreshInv, Fresh,
         AccountInv, AllAccounted, Accounted, Untouched, KeptInv, AllKept, Kept,
         Carried, Carrying, Unfinished, Busy
<1>5. ASSUME NEW t \in Tasks, NEW action \in {"confirming", "rejecting"}, FormClicked(t, action)
      PROVE  KeptInv'
  BY <1>5, ConstantsAssumption, FormMoves
     DEF FormClicked, FormStep, postgres, casVars, slots, guards, passes, restart,
         bounds, TypeInv, TypeOK, PostgresTypeOK, WorkerTypeOK, BoundsTypeOK,
         Unborn, WritesInv, WriteInv, PhaseInv, FreshInv, Fresh, AccountInv,
         AllAccounted, Accounted, Untouched, KeptInv, AllKept, Kept, Carried,
         Carrying, Unfinished, Busy
<1>6. ASSUME NEW t \in Tasks, FetchJob(t)
      PROVE  KeptInv'
  BY <1>6, ConstantsAssumption, TurnMoves
     DEF FetchJob, HandlerStep, Admitted, Busy, casVars, slots, guards, passes,
         restart, bounds, TypeInv, TypeOK, PostgresTypeOK, WorkerTypeOK,
         BoundsTypeOK, Unborn, WritesInv, WriteInv, PhaseInv, FreshInv, Fresh,
         AccountInv, AllAccounted, Accounted, Untouched, KeptInv, AllKept, Kept,
         Carried, Carrying, Unfinished
<1>7. ASSUME NEW t \in Tasks, CheckQueued(t)
      PROVE  KeptInv'
  BY <1>7, ConstantsAssumption, TurnMoves
     DEF CheckQueued, HandlerStep, Admitted, postgres, casVars, slots, guards,
         passes, restart, bounds, TypeInv, TypeOK, PostgresTypeOK, WorkerTypeOK,
         BoundsTypeOK, Unborn, WritesInv, WriteInv, PhaseInv, FreshInv, Fresh,
         AccountInv, AllAccounted, Accounted, Untouched, KeptInv, AllKept, Kept,
         Carried, Carrying, Unfinished, Busy
<1>8. ASSUME NEW t \in Tasks, OverBudget(t)
      PROVE  KeptInv'
  BY <1>8, ConstantsAssumption, TurnMoves
     DEF OverBudget, HandlerStep, Admitted, casVars, slots, guards, passes, restart,
         bounds, TypeInv, TypeOK, PostgresTypeOK, WorkerTypeOK, BoundsTypeOK,
         Unborn, WritesInv, WriteInv, PhaseInv, FreshInv, Fresh, AccountInv,
         AllAccounted, Accounted, Untouched, KeptInv, AllKept, Kept, Carried,
         Carrying, Unfinished, Busy
<1>9. ASSUME NEW t \in Tasks, Admit(t)
      PROVE  KeptInv'
  BY <1>9, ConstantsAssumption, TurnMoves
     DEF Admit, HandlerStep, Admitted, postgres, casVars, guards, passes, restart,
         bounds, TypeInv, TypeOK, PostgresTypeOK, WorkerTypeOK, BoundsTypeOK,
         Unborn, WritesInv, WriteInv, PhaseInv, FreshInv, Fresh, AccountInv,
         AllAccounted, Accounted, Untouched, KeptInv, AllKept, Kept, Carried,
         Carrying, Unfinished, Busy
<1>10. ASSUME NEW t \in Tasks, Deny(t)
      PROVE  KeptInv'
  BY <1>10, ConstantsAssumption, TurnMoves
     DEF Deny, HandlerStep, Admitted, postgres, casVars, slots, guards, passes,
         restart, bounds, TypeInv, TypeOK, PostgresTypeOK, WorkerTypeOK,
         BoundsTypeOK, Unborn, WritesInv, WriteInv, PhaseInv, FreshInv, Fresh,
         AccountInv, AllAccounted, Accounted, Untouched, KeptInv, AllKept, Kept,
         Carried, Carrying, Unfinished, Busy
<1>11. ASSUME NEW t \in Tasks, DeferTask(t)
      PROVE  KeptInv'
  BY <1>11, ConstantsAssumption, TurnMoves
     DEF DeferTask, HandlerStep, Admitted, casVars, slots, guards, passes, restart,
         bounds, TypeInv, TypeOK, PostgresTypeOK, WorkerTypeOK, BoundsTypeOK,
         Unborn, WritesInv, WriteInv, PhaseInv, FreshInv, Fresh, AccountInv,
         AllAccounted, Accounted, Untouched, KeptInv, AllKept, Kept, Carried,
         Carrying, Unfinished, Busy
<1>12. ASSUME NEW t \in Tasks, BeginTurn(t)
      PROVE  KeptInv'
  BY <1>12, ConstantsAssumption, TurnMoves
     DEF BeginTurn, HandlerStep, Admitted, casVars, slots, passes, restart, bounds,
         TypeInv, TypeOK, PostgresTypeOK, WorkerTypeOK, BoundsTypeOK, Unborn,
         WritesInv, WriteInv, PhaseInv, FreshInv, Fresh, AccountInv, AllAccounted,
         Accounted, Untouched, KeptInv, AllKept, Kept, Carried, Carrying, Unfinished, Busy
<1>13. ASSUME NEW t \in Tasks, StartRuntime(t)
      PROVE  KeptInv'
  BY <1>13, ConstantsAssumption, TurnMoves
     DEF StartRuntime, HandlerStep, Admitted, postgres, casVars, guards, passes,
         restart, bounds, TypeInv, TypeOK, PostgresTypeOK, WorkerTypeOK,
         BoundsTypeOK, Unborn, WritesInv, WriteInv, PhaseInv, FreshInv, Fresh,
         AccountInv, AllAccounted, Accounted, Untouched, KeptInv, AllKept, Kept,
         Carried, Carrying, Unfinished, Busy
<1>14. ASSUME NEW t \in Tasks, EndRuntime(t)
      PROVE  KeptInv'
  BY <1>14, ConstantsAssumption, TurnMoves
     DEF EndRuntime, HandlerStep, Admitted, postgres, casVars, slots, guards,
         passes, restart, bounds, TypeInv, TypeOK, PostgresTypeOK, WorkerTypeOK,
         BoundsTypeOK, Unborn, WritesInv, WriteInv, PhaseInv, FreshInv, Fresh,
         AccountInv, AllAccounted, Accounted, Untouched, KeptInv, AllKept, Kept,
         Carried, Carrying, Unfinished, Busy
<1>15. ASSUME NEW t \in Tasks, WrapUp(t)
      PROVE  KeptInv'
  BY <1>15, ConstantsAssumption, TurnMoves
     DEF WrapUp, HandlerStep, Admitted, postgres, casVars, slots, guards, passes,
         restart, bounds, TypeInv, TypeOK, PostgresTypeOK, WorkerTypeOK,
         BoundsTypeOK, Unborn, WritesInv, WriteInv, PhaseInv, FreshInv, Fresh,
         AccountInv, AllAccounted, Accounted, Untouched, KeptInv, AllKept, Kept,
         Carried, Carrying, Unfinished, Busy
<1>16. ASSUME NEW t \in Tasks, FenceStops(t)
      PROVE  KeptInv'
  BY <1>16, ConstantsAssumption, TurnMoves
     DEF FenceStops, HandlerStep, Admitted, postgres, casVars, slots, guards,
         passes, restart, bounds, TypeInv, TypeOK, PostgresTypeOK, WorkerTypeOK,
         BoundsTypeOK, Unborn, WritesInv, WriteInv, PhaseInv, FreshInv, Fresh,
         AccountInv, AllAccounted, Accounted, Untouched, KeptInv, AllKept, Kept,
         Carried, Carrying, Unfinished, Busy
<1>17. ASSUME NEW t \in Tasks, Report(t)
      PROVE  KeptInv'
  BY <1>17, ConstantsAssumption, TurnMoves
     DEF Report, HandlerStep, Admitted, postgres, casVars, slots, guards, passes,
         restart, bounds, TypeInv, TypeOK, PostgresTypeOK, WorkerTypeOK,
         BoundsTypeOK, Unborn, WritesInv, WriteInv, PhaseInv, FreshInv, Fresh,
         AccountInv, AllAccounted, Accounted, Untouched, KeptInv, AllKept, Kept,
         Carried, Carrying, Unfinished, Busy
<1>18. ASSUME NEW t \in Tasks, HandlerThrows(t)
      PROVE  KeptInv'
  BY <1>18, ConstantsAssumption, TurnMoves
     DEF HandlerThrows, HandlerStep, Admitted, Fault, postgres, casVars, slots,
         guards, passes, restart, TypeInv, TypeOK, PostgresTypeOK, WorkerTypeOK,
         BoundsTypeOK, Unborn, WritesInv, WriteInv, PhaseInv, FreshInv, Fresh,
         AccountInv, AllAccounted, Accounted, Untouched, KeptInv, AllKept, Kept,
         Carried, Carrying, Unfinished, Busy
<1>19. ASSUME NEW t \in Tasks, FinallyBlock(t)
      PROVE  KeptInv'
  BY <1>19, ConstantsAssumption, TurnMoves
     DEF FinallyBlock, HandlerStep, Admitted, postgres, casVars, passes, restart,
         bounds, TypeInv, TypeOK, PostgresTypeOK, WorkerTypeOK, BoundsTypeOK,
         Unborn, WritesInv, WriteInv, PhaseInv, FreshInv, Fresh, AccountInv,
         AllAccounted, Accounted, Untouched, KeptInv, AllKept, Kept, Carried,
         Carrying, Unfinished, Busy
<1>20. ASSUME NEW t \in Tasks, EndJob(t)
      PROVE  KeptInv'
  <2>1. /\ \A u \in Tasks : u # t => job'[u] = job[u]
        /\ job'[t] # "active"
        /\ job[t] # "active" => job'[t] = job[t]
        /\ job[t] = "active" => job'[t] # "none" /\ job'[t] # "created"
    BY <1>20 DEF EndJob, TypeInv, TypeOK, PostgresTypeOK
  <2>2. /\ \A u \in Tasks : /\ Handler(u)' = IF u = t THEN "idle" ELSE Handler(u)
                            /\ Api(u)' = Api(u) /\ Watchdog(u)' = Watchdog(u)
        /\ Handler(t) \in {"ending", "throwing"}
        /\ UNCHANGED <<status, rows, lease, seen, phase, stale, recovery, resched, overtaken,
                       settled, unwritten, faults, stops>>
    BY <1>20, TurnMoves
       DEF EndJob, HandlerStep, casVars, guards, passes, restart, bounds, TypeInv,
           TypeOK
  <2>3. AllKept => \A u \in Tasks : Kept(u)'
    BY <2>1, <2>2 DEF AllKept, Kept, Carried, Carrying, Unfinished, Busy, Admitted
  <2> QED  BY <2>2, <2>3 DEF KeptInv, AllKept
<1>21. ASSUME NEW t \in Tasks, EndJobUnrecorded(t)
      PROVE  KeptInv'
  BY <1>21, ConstantsAssumption, TurnMoves
     DEF EndJobUnrecorded, HandlerStep, Admitted, Fault, postgres, casVars, slots,
         guards, passes, restart, TypeInv, TypeOK, PostgresTypeOK, WorkerTypeOK,
         BoundsTypeOK, Unborn, WritesInv, WriteInv, PhaseInv, FreshInv, Fresh,
         AccountInv, AllAccounted, Accounted, Untouched, KeptInv, AllKept, Kept,
         Carried, Carrying, Unfinished, Busy
<1>22. ASSUME NEW t \in Tasks, ExpireJob(t)
      PROVE  KeptInv'
  BY <1>22, ConstantsAssumption, StepsKept
     DEF ExpireJob, Busy, casVars, slots, guards, passes, restart, bounds, TypeInv,
         TypeOK, PostgresTypeOK, WorkerTypeOK, BoundsTypeOK, Unborn, WritesInv,
         WriteInv, PhaseInv, FreshInv, Fresh, AccountInv, AllAccounted, Accounted,
         Untouched, KeptInv, AllKept, Kept, Carried, Carrying, Unfinished
<1>23. ASSUME NEW t \in Tasks, CancelRuntime(t)
      PROVE  KeptInv'
  BY <1>23, ConstantsAssumption, StepsKept
     DEF CancelRuntime, Scannable, postgres, casVars, slots, passes, restart,
         bounds, TypeInv, TypeOK, PostgresTypeOK, WorkerTypeOK, BoundsTypeOK,
         Unborn, WritesInv, WriteInv, PhaseInv, FreshInv, Fresh, AccountInv,
         AllAccounted, Accounted, Untouched, KeptInv, AllKept, Kept, Carried,
         Carrying, Unfinished, Busy
<1>24. ASSUME NEW t \in Tasks, FindNoRuntime(t)
      PROVE  KeptInv'
  BY <1>24, ConstantsAssumption, WatchdogMoves
     DEF FindNoRuntime, WatchdogStep, Scannable, postgres, casVars, slots, guards,
         passes, restart, bounds, TypeInv, TypeOK, PostgresTypeOK, WorkerTypeOK,
         BoundsTypeOK, Unborn, WritesInv, WriteInv, PhaseInv, FreshInv, Fresh,
         AccountInv, AllAccounted, Accounted, Untouched, KeptInv, AllKept, Kept,
         Carried, Carrying, Unfinished, Busy
<1>25. ASSUME NEW t \in Tasks, SettleFence(t)
      PROVE  KeptInv'
  BY <1>25, ConstantsAssumption, WatchdogMoves
     DEF SettleFence, WatchdogStep, postgres, casVars, passes, restart, bounds,
         TypeInv, TypeOK, PostgresTypeOK, WorkerTypeOK, BoundsTypeOK, Unborn,
         WritesInv, WriteInv, PhaseInv, FreshInv, Fresh, AccountInv, AllAccounted,
         Accounted, Untouched, KeptInv, AllKept, Kept, Carried, Carrying, Unfinished, Busy
<1>26. ASSUME NEW t \in Tasks, ResumeSettlement(t)
      PROVE  KeptInv'
  BY <1>26, ConstantsAssumption, WatchdogMoves
     DEF ResumeSettlement, WatchdogStep, postgres, casVars, slots, guards, passes,
         restart, bounds, TypeInv, TypeOK, PostgresTypeOK, WorkerTypeOK,
         BoundsTypeOK, Unborn, WritesInv, WriteInv, PhaseInv, FreshInv, Fresh,
         AccountInv, AllAccounted, Accounted, Untouched, KeptInv, AllKept, Kept,
         Carried, Carrying, Unfinished, Busy
<1>27. ASSUME NEW t \in Tasks, SettlementThrows(t)
      PROVE  KeptInv'
  BY <1>27, ConstantsAssumption, WatchdogMoves
     DEF SettlementThrows, WatchdogStep, Fault, postgres, casVars, slots, guards,
         passes, restart, TypeInv, TypeOK, PostgresTypeOK, WorkerTypeOK,
         BoundsTypeOK, Unborn, WritesInv, WriteInv, PhaseInv, FreshInv, Fresh,
         AccountInv, AllAccounted, Accounted, Untouched, KeptInv, AllKept, Kept,
         Carried, Carrying, Unfinished, Busy
<1>28. ASSUME NEW t \in Tasks, LookAtStatus(t)
      PROVE  KeptInv'
  BY <1>28, ConstantsAssumption, WatchdogMoves
     DEF LookAtStatus, WatchdogStep, postgres, casVars, slots, guards, passes,
         restart, bounds, TypeInv, TypeOK, PostgresTypeOK, WorkerTypeOK,
         BoundsTypeOK, Unborn, WritesInv, WriteInv, PhaseInv, FreshInv, Fresh,
         AccountInv, AllAccounted, Accounted, Untouched, KeptInv, AllKept, Kept,
         Carried, Carrying, Unfinished, Busy, Terminal, Lifecycle!IsTerminal
<1>29. ASSUME NEW t \in Tasks, Unwatch(t)
      PROVE  KeptInv'
  BY <1>29, ConstantsAssumption, WatchdogMoves
     DEF Unwatch, WatchdogStep, postgres, casVars, slots, passes, restart, bounds,
         TypeInv, TypeOK, PostgresTypeOK, WorkerTypeOK, BoundsTypeOK, Unborn,
         WritesInv, WriteInv, PhaseInv, FreshInv, Fresh, AccountInv, AllAccounted,
         Accounted, Untouched, KeptInv, AllKept, Kept, Carried, Carrying, Unfinished, Busy
<1>30. ASSUME NEW t \in Tasks, LoadTask(t)
      PROVE  KeptInv'
  BY <1>30, ConstantsAssumption, StepsKept
     DEF LoadTask, postgres, casVars, slots, guards, passes, restart, bounds,
         TypeInv, TypeOK, PostgresTypeOK, WorkerTypeOK, BoundsTypeOK, Unborn,
         WritesInv, WriteInv, PhaseInv, FreshInv, Fresh, AccountInv, AllAccounted,
         Accounted, Untouched, KeptInv, AllKept, Kept, Carried, Carrying, Unfinished, Busy
<1>31. ASSUME NEW t \in Tasks, RescheduleTask(t)
      PROVE  KeptInv'
  <2> SUFFICES ASSUME faults' = 0, stops' = 0  PROVE AllKept'
    BY DEF KeptInv
  <2>1. /\ UNCHANGED <<status, lease, at, seen, phase, stale, recovery, settled, unwritten,
                       faults, stops>>
        /\ \A u \in Tasks : /\ Handler(u)' = Handler(u) /\ Api(u)' = Api(u)
                            /\ Watchdog(u)' = Watchdog(u)
    BY <1>31, StepsKept DEF RescheduleTask, casVars, guards, restart, bounds
  <2>2. AllKept  BY <2>1 DEF KeptInv
  <2>3. /\ \A u \in Tasks : u # t => job'[u] = job[u] /\ rows'[u] = rows[u]
        /\ IF job[t] \in {"created", "active"}
             THEN job'[t] = job[t] /\ rows'[t] = rows[t] ELSE job'[t] = "created"
    BY <1>31 DEF RescheduleTask, Enqueue, Live, TypeInv, TypeOK, PostgresTypeOK
  <2>4. /\ resched.task = t /\ resched.step = "enqueuing" /\ resched'.task = t
        /\ overtaken \subseteq overtaken'
        /\ job[t] = "active" /\ Handler(t) \in {"closing", "ending"} => t \in overtaken'
    BY <1>31 DEF RescheduleTask, TypeInv, TypeOK, WorkerTypeOK
  <2>5. ASSUME NEW u \in Tasks, u # t  PROVE Kept(u)'
    BY <2>1, <2>2, <2>3, <2>4, <2>5 DEF AllKept, Kept, Carried, Unfinished, Busy
  <2>6. Kept(t)'
    <3>1. status[t] = "queued" => Carried(t)' \/ (Api(t)' \in {"enqueuing", "reenqueuing"} /\ job'[t] = "none")
      <4>1. CASE job[t] # "active"
        BY <2>1, <2>2, <2>3, <2>4, <4>1 DEF AllKept, Kept, Carried
      <4>2. CASE job[t] = "active"
        BY <2>1, <2>2, <2>3, <2>4, <4>2 DEF AllKept, Kept, Carried, Carrying, Busy
      <4> QED  BY <4>1, <4>2
    <3> QED  BY <2>1, <2>2, <2>3, <3>1 DEF AllKept, Kept, Unfinished, Busy
  <2> QED  BY <2>1, <2>2, <2>5, <2>6 DEF AllKept
<1>32. ASSUME NEW t \in Tasks, ReschedulerThrows(t)
      PROVE  KeptInv'
  BY <1>32, ConstantsAssumption, StepsKept
     DEF ReschedulerThrows, EnqueueThrows, CanEnqueue, Live, bounds, Fault, Enqueue,
         NoPass, casVars, slots, guards, passes, restart, TypeInv, TypeOK,
         PostgresTypeOK, WorkerTypeOK, BoundsTypeOK, Unborn, WritesInv, WriteInv,
         PhaseInv, FreshInv, Fresh, AccountInv, AllAccounted, Accounted, Untouched,
         KeptInv, AllKept, Kept, Carried, Carrying, Unfinished, Busy
<1>33. ASSUME NEW t \in Tasks, DeleteLease(t)
      PROVE  KeptInv'
  BY <1>33, ConstantsAssumption, StepsKept
     DEF DeleteLease, NextLease, NoPass, casVars, slots, guards, passes, restart,
         bounds, TypeInv, TypeOK, PostgresTypeOK, WorkerTypeOK, BoundsTypeOK,
         Unborn, WritesInv, WriteInv, PhaseInv, FreshInv, Fresh, AccountInv,
         AllAccounted, Accounted, Untouched, KeptInv, AllKept, Kept, Carried,
         Carrying, Unfinished, Busy
<1>34. ASSUME NEW t \in Tasks, RequeueStale(t)
      PROVE  KeptInv'
  BY <1>34, ConstantsAssumption, StepsKept
     DEF RequeueStale, NoRow, casVars, slots, guards, passes, bounds, TypeInv,
         TypeOK, PostgresTypeOK, WorkerTypeOK, BoundsTypeOK, Unborn, WritesInv,
         WriteInv, PhaseInv, FreshInv, Fresh, AccountInv, AllAccounted, Accounted,
         Untouched, KeptInv, AllKept, Kept, Carried, Carrying, Unfinished,
         Busy
<1>35. ASSUME NEW t \in Tasks, RequeueThrows(t)
      PROVE  KeptInv'
  BY <1>35, ConstantsAssumption, StepsKept
     DEF RequeueThrows, NoRow, Fault, postgres, casVars, slots, guards, passes,
         TypeInv, TypeOK, PostgresTypeOK, WorkerTypeOK, BoundsTypeOK, Unborn,
         WritesInv, WriteInv, PhaseInv, FreshInv, Fresh, AccountInv, AllAccounted,
         Accounted, Untouched, KeptInv, AllKept, Kept, Carried, Carrying, Unfinished, Busy
<1>36. ASSUME NEW t \in Tasks, EnqueueStale(t)
      PROVE  KeptInv'
  BY <1>36, ConstantsAssumption, StepsKept
     DEF EnqueueStale, Enqueue, CanEnqueue, Live, NoRow, casVars, slots, guards,
         passes, bounds, TypeInv, TypeOK, PostgresTypeOK, WorkerTypeOK,
         BoundsTypeOK, Unborn, WritesInv, WriteInv, PhaseInv, FreshInv, Fresh,
         AccountInv, AllAccounted, Accounted, Untouched, KeptInv, AllKept, Kept,
         Carried, Carrying, Unfinished, Busy
<1>37. ASSUME NEW t \in Tasks, RecoveryThrows(t)
      PROVE  KeptInv'
  BY <1>37, ConstantsAssumption, StepsKept
     DEF RecoveryThrows, EnqueueThrows, CanEnqueue, Live, passes, bounds, Fault,
         Enqueue, casVars, slots, guards, TypeInv, TypeOK, PostgresTypeOK,
         WorkerTypeOK, BoundsTypeOK, Unborn, WritesInv, WriteInv, PhaseInv,
         FreshInv, Fresh, AccountInv, AllAccounted, Accounted, Untouched, KeptInv,
         AllKept, Kept, Carried, Carrying, Unfinished, Busy, NoRow
<1>38. ASSUME NEW t \in Tasks, FailStale(t)
      PROVE  KeptInv'
  BY <1>38, ConstantsAssumption, StepsKept
     DEF FailStale, NoRow, casVars, slots, guards, passes, bounds, TypeInv, TypeOK,
         PostgresTypeOK, WorkerTypeOK, BoundsTypeOK, Unborn, WritesInv, WriteInv,
         PhaseInv, FreshInv, Fresh, AccountInv, AllAccounted, Accounted, Untouched,
         KeptInv, AllKept, Kept, Carried, Carrying, Unfinished, Busy
<1>39. ASSUME NEW t \in Tasks, NEW w \in Writers, TransitionAction(w, t)
      PROVE  KeptInv'
  BY <1>39, KeptTransition
<1>40. ASSUME NEW due \in SUBSET lease, ListDueLeases(due)
      PROVE  KeptInv'
  BY <1>40, StepsKept
     DEF ListDueLeases, NoPass, Busy, NextLease, postgres, casVars, slots, guards,
         passes, restart, bounds, TypeInv, TypeOK, PostgresTypeOK, WorkerTypeOK,
         BoundsTypeOK, Unborn, WritesInv, WriteInv, PhaseInv, FreshInv, Fresh,
         AccountInv, AllAccounted, Accounted, Untouched, KeptInv, AllKept, Kept,
         Carried, Carrying, Unfinished, Busy
<1>41. CASE StartWorker
  BY <1>41, ConstantsAssumption, StepsKept
     DEF StartWorker, postgres, casVars, slots, guards, passes, bounds, TypeInv,
         TypeOK, PostgresTypeOK, WorkerTypeOK, BoundsTypeOK, Unborn, WritesInv,
         WriteInv, PhaseInv, FreshInv, Fresh, AccountInv, AllAccounted, Accounted,
         Untouched, KeptInv, AllKept, Kept, Carried, Carrying, Unfinished,
         Busy
<1>42. CASE Subscribe
  BY <1>42, ConstantsAssumption, StepsKept
     DEF Subscribe, NoRow, postgres, casVars, slots, guards, passes, bounds,
         TypeInv, TypeOK, PostgresTypeOK, WorkerTypeOK, BoundsTypeOK, Unborn,
         WritesInv, WriteInv, PhaseInv, FreshInv, Fresh, AccountInv, AllAccounted,
         Accounted, Untouched, KeptInv, AllKept, Kept, Carried, Carrying, Unfinished, Busy
<1>43. CASE Shutdown
  BY <1>43, ConstantsAssumption DEF Shutdown, BoundsTypeOK, TypeInv, TypeOK, KeptInv
<1>44. CASE Crash
  BY <1>44, ConstantsAssumption DEF Crash, BoundsTypeOK, TypeInv, TypeOK, KeptInv
<1>45. CASE Exit
  BY <1>45 DEF Exit, passes, bounds, KeptInv, AllKept
<1>46. CASE ForcedExit
  BY <1>46 DEF ForcedExit, passes, bounds, KeptInv, AllKept
<1>47. CASE UNCHANGED vars
  BY <1>47, StepsKept
     DEF vars, postgres, casVars, slots, guards, passes, restart, bounds, TypeInv,
         TypeOK, PostgresTypeOK, WorkerTypeOK, BoundsTypeOK, Unborn, WritesInv,
         WriteInv, PhaseInv, FreshInv, Fresh, AccountInv, AllAccounted, Accounted,
         Untouched, KeptInv, AllKept, Kept, Carried, Carrying, Unfinished,
         Busy
<1> QED
  BY <1>1, <1>2, <1>3, <1>4, <1>5, <1>6, <1>7, <1>8, <1>9, <1>10, <1>11, <1>12,
     <1>13, <1>14, <1>15, <1>16, <1>17, <1>18, <1>19, <1>20, <1>21, <1>22, <1>23,
     <1>24, <1>25, <1>26, <1>27, <1>28, <1>29, <1>30, <1>31, <1>32, <1>33, <1>34,
     <1>35, <1>36, <1>37, <1>38, <1>39, <1>40, <1>41, <1>42, <1>43, <1>44, <1>45,
     <1>46, <1>47
     DEF Next, TaskNext, ApiTurn, HandlerTurn, SettlementTurn, ReschedulerTurn,
         RecoveryTurn, WorkerTurn, TransitionAction, Writers

\* The inductive invariant of who carries a task.
LEMMA KeptInvariance == Spec => []KeptInv
<1>1. ASSUME Init PROVE KeptInv
  <2>1. /\ status = [t \in Tasks |-> "absent"] /\ job = [t \in Tasks |-> "none"]
        /\ rows = [t \in Tasks |-> 0]
        /\ phase = "down" /\ stale = {} /\ recovery = NoRow
    BY <1>1 DEF Init
  <2> QED  BY <2>1 DEF KeptInv, AllKept, Kept, Unfinished
<1>2. TypeInv /\ WritesInv /\ AccountInv /\ KeptInv /\ [Next]_vars => KeptInv'
  BY KeptStep
<1> QED  BY <1>1, <1>2, TypeInvariance, WritesInvariance, AccountInvariance, PTL DEF Spec

\* NothingStranded: as long as no call failed and the worker never stopped,
\* nobody leaves an unfinished task behind, however often it is deferred,
\* delivered again or settled, but a queued task whose deferral met a pass of the
\* rescheduler that takes its lease away.
THEOREM NobodyStranded == Spec => []NothingStranded
<1>1. ASSUME TypeInv, WritesInv, AccountInv, KeptInv
      PROVE  NothingStranded
  <2> SUFFICES ASSUME faults = 0, stops = 0, NEW t \in Tasks
               PROVE  /\ status[t] = "pending" => Api(t) \in {"queueing", "requeueing"}
                      /\ status[t] = "queued" /\ Api(t) \notin {"enqueuing", "reenqueuing"}
                           => Carried(t)
                      /\ status[t] = "running" =>
                           Handler(t) \in Admitted \cup {"failing"} \/ t \in unwritten
    BY DEF NothingStranded, Carried, Carrying
  <2>1. Kept(t) /\ Accounted(t)
    BY <1>1 DEF KeptInv, AllKept, AccountInv, AllAccounted
  <2>2. status[t] = "pending" => Api(t) # "idle"
    BY <1>1 DEF WritesInv, WriteInv, FreshInv, Fresh
  <2> QED  BY <2>1, <2>2 DEF Kept, Accounted
<1> QED  BY <1>1, TypeInvariance, WritesInvariance, AccountInvariance, KeptInvariance, PTL
================================================================================
