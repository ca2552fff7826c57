-------------------------- MODULE InboundEventsProofs --------------------------
(***************************************************************************)
(* Proofs about InboundEvents: its safety invariants, for any number of    *)
(* deliveries of the event and any bound on the faults.                    *)
(***************************************************************************)
EXTENDS InboundEvents, TLAPS

(***************************************************************************)
(* The inductive invariant                                                 *)
(***************************************************************************)
\* A handler past createTask has a task.
StepInv ==
  \A h \in Deliveries :
    /\ step[h] \in {"look", "queue", "notice", "enqueue"} => task[TaskOf(h)] # "absent"
    /\ step[h] = "release" => channel = "slack"
    /\ h \in created => /\ task[TaskOf(h)] # "absent"
                        /\ step[h] \notin {"idle", "insert", "read", "takeover", "dispatch", "look"}

\* Slack: all handlers share one task, which starts its turn once.
SlackTask == CHOOSE d \in Deliveries : TRUE

SlackInv ==
  channel = "slack" =>
    /\ \A t \in Deliveries \ {SlackTask} : task[t] = "absent"
    /\ turns = 0 \/ (turns = 1 /\ task[SlackTask] \in {"running"} \cup Terminal)
    /\ \A g, h \in created : g = h
    /\ \/ notices = 0
       \/ notices = 1 /\ created # {} /\ \A h \in created : step[h] # "queue" /\ step[h] # "notice"

\* Lark: without a takeover one delivery holds the claim and has the task.
Owner(h) == step[h] \in Working \/ task[h] # "absent"

LarkInv ==
  channel = "lark" /\ "takeover" \notin lapses =>
    /\ claim = "none" => \A h \in Deliveries : ~Owner(h)
    /\ \A g, h \in Deliveries : Owner(g) /\ Owner(h) => g = h
    /\ turns = 0 \/ (turns = 1 /\ \E t \in Deliveries : task[t] \in {"running"} \cup Terminal)

\* Whoever is about to close the event has a reason to.
ClosingInv ==
  (\/ claim \in {"processed", "duplicate"}
   \/ \E h \in Deliveries : step[h] = "mark")
  => queued # {} \/ \E t \in Deliveries : task[t] \in Terminal

\* Before its first job a Slack event has no turn, and nobody closes it.
UnqueuedInv ==
  channel = "slack" /\ queued = {} =>
    \A t \in Deliveries : task[t] \notin {"running"} \cup Terminal /\ step[t] # "mark"

IInv ==
  /\ TypeOK /\ StepInv /\ SlackInv /\ LarkInv /\ ClosingInv
  /\ UnqueuedInv /\ NothingDropped

LEMMA TaskOfIsDelivery ==
  /\ SlackTask \in Deliveries
  /\ \A h \in Deliveries : TaskOf(h) \in Deliveries
  /\ channel = "slack" => \A h \in Deliveries : TaskOf(h) = SlackTask
  /\ channel # "slack" => \A h \in Deliveries : TaskOf(h) = h
BY InboundEventsAssumption DEF TaskOf, SlackTask

LEMMA Initially == Init => IInv
<1> SUFFICES ASSUME Init PROVE IInv
  OBVIOUS
<1> USE InboundEventsAssumption DEF Init
<1>1. TypeOK
  <2>1. /\ step \in [Deliveries -> {"idle", "accept", "refuse", "done"} \cup Handling]
        /\ task \in [Deliveries -> {"absent", "pending", "queued", "running"} \cup Terminal]
    OBVIOUS
  <2>2. /\ stale \in BOOLEAN /\ (stale => claim # "none")
        /\ answered \in BOOLEAN
    BY Zenon
  <2>3. /\ turns \in Nat /\ notices \in Nat /\ faults \in 0..MaxFaults
    OBVIOUS
  <2> QED  BY <2>1, <2>2, <2>3 DEF TypeOK
<1>2. StepInv
  <2>1. \A h \in Deliveries : step[h] = "idle" /\ h \notin created
    OBVIOUS
  <2> QED  BY ONLY <2>1 DEF StepInv
<1>3. ClosingInv
  BY DEF ClosingInv
<1>4. SlackInv
  BY TaskOfIsDelivery DEF SlackInv
<1>5. LarkInv
  BY DEF LarkInv, Owner, Working
<1>6. UnqueuedInv
  BY DEF UnqueuedInv, Terminal
<1>7. NothingDropped
  BY DEF NothingDropped
<1> QED  BY <1>1, <1>2, <1>3, <1>4, <1>5, <1>6, <1>7 DEF IInv

(***************************************************************************)
(* One lemma for each part of the invariant, one step for each action      *)
(***************************************************************************)
LEMMA TypeStep ==
  ASSUME TypeOK, [Next]_vars
  PROVE  TypeOK'
<1> USE TaskOfIsDelivery, InboundEventsAssumption
    DEF TypeOK, At, Goto, Fault, Duplicate, PutJob, Handling, Working, Terminal, requests, work,
        history
<1>1. ASSUME NEW h \in Deliveries, Receive(h) PROVE TypeOK'        BY <1>1 DEF Receive
<1>2. ASSUME NEW h \in Deliveries, InsertClaim(h) PROVE TypeOK'    BY <1>2 DEF InsertClaim
<1>3. ASSUME NEW h \in Deliveries, ReadClaim(h) PROVE TypeOK'      BY <1>3 DEF ReadClaim
<1>4. ASSUME NEW h \in Deliveries, TakeOver(h) PROVE TypeOK'       BY <1>4 DEF TakeOver
<1>5. ASSUME NEW h \in Deliveries, CreateTask(h) PROVE TypeOK'     BY <1>5 DEF CreateTask
<1>6. ASSUME NEW h \in Deliveries, LookAtTask(h) PROVE TypeOK'     BY <1>6 DEF LookAtTask
<1>7. ASSUME NEW h \in Deliveries, EnsureQueued(h) PROVE TypeOK'   BY <1>7 DEF EnsureQueued
<1>8. ASSUME NEW h \in Deliveries, Notify(h) PROVE TypeOK'         BY <1>8 DEF Notify
<1>9. ASSUME NEW h \in Deliveries, Enqueue(h) PROVE TypeOK'        BY <1>9 DEF Enqueue
<1>10. ASSUME NEW h \in Deliveries, Mark(h) PROVE TypeOK'          BY <1>10 DEF Mark
<1>11. ASSUME NEW h \in Deliveries, Release(h) PROVE TypeOK'
  <2>1. CASE claim' = "none" /\ stale' = FALSE /\ UNCHANGED <<lapses, faults>>
    BY <1>11, <2>1 DEF Release
  <2>2. CASE Fault /\ lapses' = lapses \cup {"release"} /\ UNCHANGED <<claim, stale>>
    BY <1>11, <2>2 DEF Release
  <2> QED  BY <1>11, <2>1, <2>2 DEF Release
<1>12. ASSUME NEW h \in Deliveries, Answer(h) PROVE TypeOK'
  <2>1. faults' \in 0..MaxFaults
    BY <1>12 DEF Answer
  <2>3. answered' \in BOOLEAN
    BY <1>12 DEF Answer
  <2>2. step' \in [Deliveries -> {"idle", "accept", "refuse", "done"} \cup Handling]
    BY <1>12 DEF Answer
  <2> QED  BY <1>12, <2>1, <2>2, <2>3 DEF Answer
<1>13. ASSUME NEW h \in Deliveries, ClaimFails(h) PROVE TypeOK'    BY <1>13 DEF ClaimFails
<1>14. ASSUME NEW h \in Deliveries, DispatchFails(h) PROVE TypeOK'
  BY <1>14 DEF DispatchFails, AfterFailure
<1>15. ASSUME NEW h \in Deliveries, LookupFails(h) PROVE TypeOK'
  <2>1. /\ step' \in [Deliveries -> {"idle", "accept", "refuse", "done"} \cup Handling]
        /\ lapses' \subseteq {"overtaken", "takeover", "lookup", "release", "crash"}
    BY <1>15 DEF LookupFails
  <2> QED  BY <1>15, <2>1 DEF LookupFails
<1>16. ASSUME NEW t \in Deliveries, StartTurn(t) PROVE TypeOK'     BY <1>16 DEF StartTurn
<1>17. ASSUME NEW t \in Deliveries, NEW outcome \in Terminal, EndTurn(t, outcome)
       PROVE  TypeOK'
  BY <1>17 DEF EndTurn
<1>18. CASE GrowStale  BY <1>18 DEF GrowStale
<1>19. CASE Crash      BY <1>19 DEF Crash
<1>20. CASE UNCHANGED vars  BY <1>20 DEF vars
<1> QED
  BY <1>1, <1>2, <1>3, <1>4, <1>5, <1>6, <1>7, <1>8, <1>9, <1>10, <1>11, <1>12, <1>13, <1>14,
     <1>15, <1>16, <1>17, <1>18, <1>19, <1>20 DEF Next, Handle

\* A task that exists goes on existing.
LEMMA StepStep ==
  ASSUME TypeOK, StepInv, [Next]_vars
  PROVE  StepInv'
<1> USE TaskOfIsDelivery, InboundEventsAssumption
    DEF TypeOK, At, Goto, Fault, Duplicate, PutJob, Handling, Working, Terminal, TaskOf,
        requests, work, history, StepInv
<1>1. ASSUME NEW h \in Deliveries, Receive(h) PROVE StepInv'
  BY <1>1 DEF Receive
<1>2. ASSUME NEW h \in Deliveries, InsertClaim(h) PROVE StepInv'
  BY <1>2 DEF InsertClaim
<1>3. ASSUME NEW h \in Deliveries, ReadClaim(h) PROVE StepInv'
  BY <1>3 DEF ReadClaim
<1>4. ASSUME NEW h \in Deliveries, TakeOver(h) PROVE StepInv'
  BY <1>4 DEF TakeOver
<1>5. ASSUME NEW h \in Deliveries, CreateTask(h) PROVE StepInv'
  BY <1>5 DEF CreateTask
<1>6. ASSUME NEW h \in Deliveries, LookAtTask(h) PROVE StepInv'
  BY <1>6 DEF LookAtTask
<1>7. ASSUME NEW h \in Deliveries, EnsureQueued(h) PROVE StepInv'
  BY <1>7 DEF EnsureQueued
<1>8. ASSUME NEW h \in Deliveries, Notify(h) PROVE StepInv'
  BY <1>8 DEF Notify
<1>9. ASSUME NEW h \in Deliveries, Enqueue(h) PROVE StepInv'
  BY <1>9 DEF Enqueue
<1>10. ASSUME NEW h \in Deliveries, Mark(h) PROVE StepInv'
  BY <1>10 DEF Mark
<1>11. ASSUME NEW h \in Deliveries, Release(h) PROVE StepInv'
  BY <1>11 DEF Release
<1>12. ASSUME NEW h \in Deliveries, Answer(h) PROVE StepInv'
  BY <1>12 DEF Answer
<1>13. ASSUME NEW h \in Deliveries, ClaimFails(h) PROVE StepInv'
  BY <1>13 DEF ClaimFails
<1>14. ASSUME NEW h \in Deliveries, DispatchFails(h) PROVE StepInv'
  BY <1>14 DEF DispatchFails, AfterFailure
<1>15. ASSUME NEW h \in Deliveries, LookupFails(h) PROVE StepInv'
  BY <1>15 DEF LookupFails
<1>16. ASSUME NEW t \in Deliveries, StartTurn(t) PROVE StepInv'
  BY <1>16 DEF StartTurn
<1>17. ASSUME NEW t \in Deliveries, NEW outcome \in Terminal, EndTurn(t, outcome)
       PROVE  StepInv'
  BY <1>17 DEF EndTurn
<1>18. CASE GrowStale  BY <1>18 DEF GrowStale
<1>19. CASE Crash  BY <1>19 DEF Crash
<1>20. CASE UNCHANGED vars  BY <1>20 DEF vars
<1> QED
  BY <1>1, <1>2, <1>3, <1>4, <1>5, <1>6, <1>7, <1>8, <1>9, <1>10, <1>11, <1>12, <1>13,
     <1>14, <1>15, <1>16, <1>17, <1>18, <1>19, <1>20 DEF Next, Handle

\* On Slack the one task leaves "queued" once, and one delivery created it.
LEMMA SlackStep ==
  ASSUME TypeOK, StepInv, SlackInv, [Next]_vars
  PROVE  SlackInv'
<1> USE TaskOfIsDelivery, InboundEventsAssumption
    DEF TypeOK, At, Goto, Fault, Duplicate, PutJob, Handling, Working, Terminal, TaskOf,
        requests, work, history, StepInv, SlackInv, SlackTask
<1>1. ASSUME NEW h \in Deliveries, Receive(h) PROVE SlackInv'
  BY <1>1 DEF Receive
<1>2. ASSUME NEW h \in Deliveries, InsertClaim(h) PROVE SlackInv'
  BY <1>2 DEF InsertClaim
<1>3. ASSUME NEW h \in Deliveries, ReadClaim(h) PROVE SlackInv'
  BY <1>3 DEF ReadClaim
<1>4. ASSUME NEW h \in Deliveries, TakeOver(h) PROVE SlackInv'
  BY <1>4 DEF TakeOver
<1>5. ASSUME NEW h \in Deliveries, CreateTask(h) PROVE SlackInv'
  BY <1>5 DEF CreateTask
<1>6. ASSUME NEW h \in Deliveries, LookAtTask(h) PROVE SlackInv'
  BY <1>6 DEF LookAtTask
<1>7. ASSUME NEW h \in Deliveries, EnsureQueued(h) PROVE SlackInv'
  BY <1>7 DEF EnsureQueued
<1>8. ASSUME NEW h \in Deliveries, Notify(h) PROVE SlackInv'
  BY <1>8 DEF Notify
<1>9. ASSUME NEW h \in Deliveries, Enqueue(h) PROVE SlackInv'
  BY <1>9 DEF Enqueue
<1>10. ASSUME NEW h \in Deliveries, Mark(h) PROVE SlackInv'
  BY <1>10 DEF Mark
<1>11. ASSUME NEW h \in Deliveries, Release(h) PROVE SlackInv'
  BY <1>11 DEF Release
<1>12. ASSUME NEW h \in Deliveries, Answer(h) PROVE SlackInv'
  BY <1>12 DEF Answer
<1>13. ASSUME NEW h \in Deliveries, ClaimFails(h) PROVE SlackInv'
  BY <1>13 DEF ClaimFails
<1>14. ASSUME NEW h \in Deliveries, DispatchFails(h) PROVE SlackInv'
  BY <1>14 DEF DispatchFails, AfterFailure
<1>15. ASSUME NEW h \in Deliveries, LookupFails(h) PROVE SlackInv'
  BY <1>15 DEF LookupFails
<1>16. ASSUME NEW t \in Deliveries, StartTurn(t) PROVE SlackInv'
  <2>1. channel' = channel /\ step' = step /\ created' = created /\ notices' = notices
    BY <1>16 DEF StartTurn
  <2>2. CASE task[t] = "queued"
    <3>1. task' = [task EXCEPT ![t] = "running"] /\ turns' = turns + 1
      BY <1>16, <2>2 DEF StartTurn
    <3>2. channel = "slack" => t = SlackTask /\ turns = 0
      BY <2>2
    <3>3. channel = "slack" =>
            /\ \A d \in Deliveries \ {SlackTask} : task'[d] = "absent"
            /\ turns' = 1 /\ task'[SlackTask] = "running"
      BY <3>1, <3>2
    <3> QED  BY <2>1, <3>3
  <2>3. CASE task[t] # "queued"
    BY <1>16, <2>1, <2>3 DEF StartTurn
  <2> QED  BY <2>2, <2>3
<1>17. ASSUME NEW t \in Deliveries, NEW outcome \in Terminal, EndTurn(t, outcome)
       PROVE  SlackInv'
  BY <1>17 DEF EndTurn
<1>18. CASE GrowStale  BY <1>18 DEF GrowStale
<1>19. CASE Crash  BY <1>19 DEF Crash
<1>20. CASE UNCHANGED vars  BY <1>20 DEF vars
<1> QED
  BY <1>1, <1>2, <1>3, <1>4, <1>5, <1>6, <1>7, <1>8, <1>9, <1>10, <1>11, <1>12, <1>13,
     <1>14, <1>15, <1>16, <1>17, <1>18, <1>19, <1>20 DEF Next, Handle

\* On Lark nobody but the first inserts the claim.
LEMMA LarkStep ==
  ASSUME TypeOK, StepInv, LarkInv, [Next]_vars
  PROVE  LarkInv'
<1> USE TaskOfIsDelivery, InboundEventsAssumption
    DEF TypeOK, At, Goto, Fault, Duplicate, PutJob, Handling, Working, Terminal, TaskOf,
        requests, work, history, StepInv, LarkInv, Owner
<1>1. ASSUME NEW h \in Deliveries, Receive(h) PROVE LarkInv'
  BY <1>1 DEF Receive
<1>2. ASSUME NEW h \in Deliveries, InsertClaim(h) PROVE LarkInv'
  BY <1>2 DEF InsertClaim
<1>3. ASSUME NEW h \in Deliveries, ReadClaim(h) PROVE LarkInv'
  BY <1>3 DEF ReadClaim
<1>4. ASSUME NEW h \in Deliveries, TakeOver(h) PROVE LarkInv'
  BY <1>4 DEF TakeOver
<1>5. ASSUME NEW h \in Deliveries, CreateTask(h) PROVE LarkInv'
  BY <1>5 DEF CreateTask
<1>6. ASSUME NEW h \in Deliveries, LookAtTask(h) PROVE LarkInv'
  BY <1>6 DEF LookAtTask
<1>7. ASSUME NEW h \in Deliveries, EnsureQueued(h) PROVE LarkInv'
  BY <1>7 DEF EnsureQueued
<1>8. ASSUME NEW h \in Deliveries, Notify(h) PROVE LarkInv'
  BY <1>8 DEF Notify
<1>9. ASSUME NEW h \in Deliveries, Enqueue(h) PROVE LarkInv'
  BY <1>9 DEF Enqueue
<1>10. ASSUME NEW h \in Deliveries, Mark(h) PROVE LarkInv'
  BY <1>10 DEF Mark
<1>11. ASSUME NEW h \in Deliveries, Release(h) PROVE LarkInv'
  BY <1>11 DEF Release
<1>12. ASSUME NEW h \in Deliveries, Answer(h) PROVE LarkInv'
  BY <1>12 DEF Answer
<1>13. ASSUME NEW h \in Deliveries, ClaimFails(h) PROVE LarkInv'
  BY <1>13 DEF ClaimFails
<1>14. ASSUME NEW h \in Deliveries, DispatchFails(h) PROVE LarkInv'
  BY <1>14 DEF DispatchFails, AfterFailure
<1>15. ASSUME NEW h \in Deliveries, LookupFails(h) PROVE LarkInv'
  BY <1>15 DEF LookupFails
<1>16. ASSUME NEW t \in Deliveries, StartTurn(t) PROVE LarkInv'
  BY <1>16 DEF StartTurn
<1>17. ASSUME NEW t \in Deliveries, NEW outcome \in Terminal, EndTurn(t, outcome)
       PROVE  LarkInv'
  BY <1>17 DEF EndTurn
<1>18. CASE GrowStale  BY <1>18 DEF GrowStale
<1>19. CASE Crash  BY <1>19 DEF Crash
<1>20. CASE UNCHANGED vars  BY <1>20 DEF vars
<1> QED
  BY <1>1, <1>2, <1>3, <1>4, <1>5, <1>6, <1>7, <1>8, <1>9, <1>10, <1>11, <1>12, <1>13,
     <1>14, <1>15, <1>16, <1>17, <1>18, <1>19, <1>20 DEF Next, Handle

\* Terminal tasks and what was queued stay so.
LEMMA ClosingStep ==
  ASSUME TypeOK, StepInv, ClosingInv, [Next]_vars
  PROVE  ClosingInv'
<1> USE TaskOfIsDelivery, InboundEventsAssumption
    DEF TypeOK, At, Goto, Fault, Duplicate, PutJob, Handling, Working, Terminal, TaskOf,
        requests, work, history, StepInv, ClosingInv
<1>1. ASSUME NEW h \in Deliveries, Receive(h) PROVE ClosingInv'
  BY <1>1 DEF Receive
<1>2. ASSUME NEW h \in Deliveries, InsertClaim(h) PROVE ClosingInv'
  BY <1>2 DEF InsertClaim
<1>3. ASSUME NEW h \in Deliveries, ReadClaim(h) PROVE ClosingInv'
  BY <1>3 DEF ReadClaim
<1>4. ASSUME NEW h \in Deliveries, TakeOver(h) PROVE ClosingInv'
  BY <1>4 DEF TakeOver
<1>5. ASSUME NEW h \in Deliveries, CreateTask(h) PROVE ClosingInv'
  <2>1. \A g \in Deliveries : step'[g] = "mark" => step[g] = "mark"
    BY <1>5 DEF CreateTask
  <2>2. \A t \in Deliveries : task[t] \in Terminal => task'[t] \in Terminal
    BY <1>5 DEF CreateTask
  <2>3. claim' = claim /\ queued' = queued
    BY <1>5 DEF CreateTask
  <2> QED  BY <2>1, <2>2, <2>3 DEF ClosingInv
<1>6. ASSUME NEW h \in Deliveries, LookAtTask(h) PROVE ClosingInv'
  BY <1>6 DEF LookAtTask
<1>7. ASSUME NEW h \in Deliveries, EnsureQueued(h) PROVE ClosingInv'
  BY <1>7 DEF EnsureQueued
<1>8. ASSUME NEW h \in Deliveries, Notify(h) PROVE ClosingInv'
  BY <1>8 DEF Notify
<1>9. ASSUME NEW h \in Deliveries, Enqueue(h) PROVE ClosingInv'
  BY <1>9 DEF Enqueue
<1>10. ASSUME NEW h \in Deliveries, Mark(h) PROVE ClosingInv'
  BY <1>10 DEF Mark
<1>11. ASSUME NEW h \in Deliveries, Release(h) PROVE ClosingInv'
  BY <1>11 DEF Release
<1>12. ASSUME NEW h \in Deliveries, Answer(h) PROVE ClosingInv'
  BY <1>12 DEF Answer
<1>13. ASSUME NEW h \in Deliveries, ClaimFails(h) PROVE ClosingInv'
  BY <1>13 DEF ClaimFails
<1>14. ASSUME NEW h \in Deliveries, DispatchFails(h) PROVE ClosingInv'
  BY <1>14 DEF DispatchFails, AfterFailure
<1>15. ASSUME NEW h \in Deliveries, LookupFails(h) PROVE ClosingInv'
  BY <1>15 DEF LookupFails
<1>16. ASSUME NEW t \in Deliveries, StartTurn(t) PROVE ClosingInv'
  BY <1>16 DEF StartTurn
<1>17. ASSUME NEW t \in Deliveries, NEW outcome \in Terminal, EndTurn(t, outcome)
       PROVE  ClosingInv'
  BY <1>17 DEF EndTurn
<1>18. CASE GrowStale  BY <1>18 DEF GrowStale
<1>19. CASE Crash  BY <1>19 DEF Crash
<1>20. CASE UNCHANGED vars  BY <1>20 DEF vars
<1> QED
  BY <1>1, <1>2, <1>3, <1>4, <1>5, <1>6, <1>7, <1>8, <1>9, <1>10, <1>11, <1>12, <1>13,
     <1>14, <1>15, <1>16, <1>17, <1>18, <1>19, <1>20 DEF Next, Handle

\* What runs, ends or is marked on Slack had a job.
LEMMA UnqueuedStep ==
  ASSUME TypeOK, StepInv, UnqueuedInv, [Next]_vars
  PROVE  UnqueuedInv'
<1> USE TaskOfIsDelivery, InboundEventsAssumption
    DEF TypeOK, At, Goto, Fault, Duplicate, PutJob, Handling, Working, Terminal, TaskOf,
        requests, work, history, UnqueuedInv
<1>1. ASSUME NEW h \in Deliveries, Receive(h) PROVE UnqueuedInv'
  BY <1>1 DEF Receive
<1>2. ASSUME NEW h \in Deliveries, InsertClaim(h) PROVE UnqueuedInv'
  BY <1>2 DEF InsertClaim
<1>3. ASSUME NEW h \in Deliveries, ReadClaim(h) PROVE UnqueuedInv'
  BY <1>3 DEF ReadClaim
<1>4. ASSUME NEW h \in Deliveries, TakeOver(h) PROVE UnqueuedInv'
  BY <1>4 DEF TakeOver
<1>5. ASSUME NEW h \in Deliveries, CreateTask(h) PROVE UnqueuedInv'
  <2>1. \A g \in Deliveries : step'[g] = "mark" => step[g] = "mark"
    BY <1>5 DEF CreateTask
  <2>2. \A t \in Deliveries : task'[t] = task[t] \/ task'[t] = "pending"
    BY <1>5 DEF CreateTask
  <2>3. channel' = channel /\ queued' = queued
    BY <1>5 DEF CreateTask
  <2> QED  BY <2>1, <2>2, <2>3 DEF UnqueuedInv
<1>6. ASSUME NEW h \in Deliveries, LookAtTask(h) PROVE UnqueuedInv'
  BY <1>6 DEF LookAtTask
<1>7. ASSUME NEW h \in Deliveries, EnsureQueued(h) PROVE UnqueuedInv'
  BY <1>7 DEF EnsureQueued
<1>8. ASSUME NEW h \in Deliveries, Notify(h) PROVE UnqueuedInv'
  BY <1>8 DEF Notify
<1>9. ASSUME NEW h \in Deliveries, Enqueue(h) PROVE UnqueuedInv'
  BY <1>9 DEF Enqueue
<1>10. ASSUME NEW h \in Deliveries, Mark(h) PROVE UnqueuedInv'
  BY <1>10 DEF Mark
<1>11. ASSUME NEW h \in Deliveries, Release(h) PROVE UnqueuedInv'
  BY <1>11 DEF Release
<1>12. ASSUME NEW h \in Deliveries, Answer(h) PROVE UnqueuedInv'
  BY <1>12 DEF Answer
<1>13. ASSUME NEW h \in Deliveries, ClaimFails(h) PROVE UnqueuedInv'
  BY <1>13 DEF ClaimFails
<1>14. ASSUME NEW h \in Deliveries, DispatchFails(h) PROVE UnqueuedInv'
  BY <1>14 DEF DispatchFails, AfterFailure
<1>15. ASSUME NEW h \in Deliveries, LookupFails(h) PROVE UnqueuedInv'
  BY <1>15 DEF LookupFails
<1>16. ASSUME NEW t \in Deliveries, StartTurn(t) PROVE UnqueuedInv'
  BY <1>16 DEF StartTurn
<1>17. ASSUME NEW t \in Deliveries, NEW outcome \in Terminal, EndTurn(t, outcome)
       PROVE  UnqueuedInv'
  BY <1>17 DEF EndTurn
<1>18. CASE GrowStale  BY <1>18 DEF GrowStale
<1>19. CASE Crash  BY <1>19 DEF Crash
<1>20. CASE UNCHANGED vars  BY <1>20 DEF vars
<1> QED
  BY <1>1, <1>2, <1>3, <1>4, <1>5, <1>6, <1>7, <1>8, <1>9, <1>10, <1>11, <1>12, <1>13,
     <1>14, <1>15, <1>16, <1>17, <1>18, <1>19, <1>20 DEF Next, Handle

\* A handler that leaves its work took the claim along, or the code gives up.
LEMMA DroppedStep ==
  ASSUME TypeOK, StepInv, UnqueuedInv, NothingDropped, [Next]_vars
  PROVE  NothingDropped'
<1> USE TaskOfIsDelivery, InboundEventsAssumption
    DEF TypeOK, At, Goto, Fault, Duplicate, PutJob, Handling, Working, Terminal, TaskOf,
        requests, work, history, GivenUp, UnqueuedInv, NothingDropped
<1>1. ASSUME NEW h \in Deliveries, Receive(h) PROVE NothingDropped'
  BY <1>1 DEF Receive
<1>2. ASSUME NEW h \in Deliveries, InsertClaim(h) PROVE NothingDropped'
  BY <1>2 DEF InsertClaim
<1>3. ASSUME NEW h \in Deliveries, ReadClaim(h) PROVE NothingDropped'
  BY <1>3 DEF ReadClaim
<1>4. ASSUME NEW h \in Deliveries, TakeOver(h) PROVE NothingDropped'
  BY <1>4 DEF TakeOver
<1>5. ASSUME NEW h \in Deliveries, CreateTask(h) PROVE NothingDropped'
  BY <1>5 DEF CreateTask
<1>6. ASSUME NEW h \in Deliveries, LookAtTask(h) PROVE NothingDropped'
  BY <1>6 DEF LookAtTask
<1>7. ASSUME NEW h \in Deliveries, EnsureQueued(h) PROVE NothingDropped'
  BY <1>7 DEF EnsureQueued
<1>8. ASSUME NEW h \in Deliveries, Notify(h) PROVE NothingDropped'
  BY <1>8 DEF Notify
<1>9. ASSUME NEW h \in Deliveries, Enqueue(h) PROVE NothingDropped'
  BY <1>9 DEF Enqueue
<1>10. ASSUME NEW h \in Deliveries, Mark(h) PROVE NothingDropped'
  BY <1>10 DEF Mark
<1>11. ASSUME NEW h \in Deliveries, Release(h) PROVE NothingDropped'
  BY <1>11 DEF Release
<1>12. ASSUME NEW h \in Deliveries, Answer(h) PROVE NothingDropped'
  BY <1>12 DEF Answer
<1>13. ASSUME NEW h \in Deliveries, ClaimFails(h) PROVE NothingDropped'
  BY <1>13 DEF ClaimFails
<1>14. ASSUME NEW h \in Deliveries, DispatchFails(h) PROVE NothingDropped'
  BY <1>14 DEF DispatchFails, AfterFailure
<1>15. ASSUME NEW h \in Deliveries, LookupFails(h) PROVE NothingDropped'
  BY <1>15 DEF LookupFails
<1>16. ASSUME NEW t \in Deliveries, StartTurn(t) PROVE NothingDropped'
  BY <1>16 DEF StartTurn
<1>17. ASSUME NEW t \in Deliveries, NEW outcome \in Terminal, EndTurn(t, outcome)
       PROVE  NothingDropped'
  BY <1>17 DEF EndTurn
<1>18. CASE GrowStale  BY <1>18 DEF GrowStale
<1>19. CASE Crash  BY <1>19 DEF Crash
<1>20. CASE UNCHANGED vars  BY <1>20 DEF vars
<1> QED
  BY <1>1, <1>2, <1>3, <1>4, <1>5, <1>6, <1>7, <1>8, <1>9, <1>10, <1>11, <1>12, <1>13,
     <1>14, <1>15, <1>16, <1>17, <1>18, <1>19, <1>20 DEF Next, Handle

(***************************************************************************)
(* Theorems                                                                *)
(***************************************************************************)
LEMMA Invariance == Spec => []IInv
<1>1. Init => IInv
  BY Initially
<1>2. IInv /\ [Next]_vars => IInv'
  BY TypeStep, StepStep, SlackStep, LarkStep, ClosingStep, UnqueuedStep, DroppedStep DEF IInv
<1> QED  BY <1>1, <1>2, PTL DEF Spec

\* Every variable of InboundEvents keeps its type.
THEOREM TypeCorrect == Spec => []TypeOK
<1>1. IInv => TypeOK
  BY DEF IInv
<1> QED  BY <1>1, Invariance, PTL

\* An event starts one turn (dedup.ts, neutral-dispatch.ts).
THEOREM EventRunsOnce == Spec => []RunsOnce
<1>1. IInv => RunsOnce
  BY InboundEventsAssumption DEF IInv, TypeOK, SlackInv, LarkInv, RunsOnce
<1> QED  BY <1>1, Invariance, PTL

\* The requester reads one "Task queued" (neutral-dispatch.ts).
THEOREM RequesterIsToldOnce == Spec => []OneNotice
<1>1. IInv => OneNotice
  BY DEF IInv, SlackInv, OneNotice
<1> QED  BY <1>1, Invariance, PTL

\* An event is closed with a job, or with a task that is over (dedup.ts,
\* markEventProcessed).
THEOREM ClosedEventsAreQueued == Spec => []ClosedIsQueued
<1>1. IInv => ClosedIsQueued
  BY DEF IInv, ClosingInv, ClosedIsQueued
<1> QED  BY <1>1, Invariance, PTL

\* Until a job of a Slack event is put, Slack is not told success and whoever has
\* its claim works on it (slack-events.ts, neutral-dispatch.ts, dedup.ts).
THEOREM NoEventIsDropped == Spec => []NothingDropped
<1>1. IInv => NothingDropped
  BY DEF IInv
<1> QED  BY <1>1, Invariance, PTL

=============================================================================
