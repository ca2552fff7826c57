--------------------------- MODULE DiscussionProofs ---------------------------
(***************************************************************************)
(* Proofs about Discussion: its types, the order in which agents speak and *)
(* in which the thread shows it, that a stop is final, that somebody       *)
(* carries the discussion on and that its tasks follow the state machine,  *)
(* for any number of participants, rounds and deliveries and any bound on  *)
(* the faults.                                                             *)
(***************************************************************************)
EXTENDS Discussion, SequenceTheorems, TLAPS

(***************************************************************************)
(* The order of the turns                                                  *)
(***************************************************************************)
LEMMA TurnFields ==
  ASSUME NEW t \in Turns
  PROVE  /\ t = <<t[1], t[2]>>
         /\ t[1] \in 1..RoundLimit /\ t[2] \in 0..Participants - 1
BY DEF Turns

LEMMA FirstIsFirst ==
  /\ First \in Turns
  /\ \A t \in Turns : ~Before(t, First)
BY DiscussionAssumption DEF First, Turns, Before

LEMMA Order ==
  /\ \A s, t \in Turns : s = t \/ Before(s, t) \/ Before(t, s)
  /\ \A s, t \in Turns : ~(Before(s, t) /\ Before(t, s))
  /\ \A s \in Turns : ~Before(s, s)
  /\ \A r, s, t \in Turns : Before(r, s) /\ Before(s, t) => Before(r, t)
<1>1. ASSUME NEW s \in Turns, NEW t \in Turns
      PROVE  /\ s = t \/ Before(s, t) \/ Before(t, s)
             /\ ~(Before(s, t) /\ Before(t, s)) /\ ~Before(s, s)
  BY TurnFields, DiscussionAssumption DEF Before
<1>2. ASSUME NEW r \in Turns, NEW s \in Turns, NEW t \in Turns, Before(r, s), Before(s, t)
      PROVE  Before(r, t)
  BY <1>2, TurnFields, DiscussionAssumption DEF Before
<1> QED  BY <1>1, <1>2

LEMMA AfterIsNext ==
  ASSUME NEW p \in Turns, After(p) \in Turns
  PROVE  /\ After(p) # p /\ Before(p, After(p))
         /\ \A t \in Turns : Before(t, After(p)) => t = p \/ Before(t, p)
         /\ \A t \in Turns : Before(After(p), t) => t # p /\ Before(p, t)
<1>1. /\ p = <<p[1], p[2]>> /\ p[1] \in 1..RoundLimit /\ p[2] \in 0..Participants - 1
      /\ {RoundLimit, Participants} \subseteq Nat
  BY TurnFields, DiscussionAssumption
<1>2. ASSUME NEW t \in Turns
      PROVE  /\ Before(t, After(p)) => t = p \/ Before(t, p)
             /\ Before(After(p), t) => t # p /\ Before(p, t)
  <2>1. t = <<t[1], t[2]>> /\ t[1] \in 1..RoundLimit /\ t[2] \in 0..Participants - 1
    BY TurnFields
  <2> QED  BY <1>1, <2>1 DEF Before, After
<1>3. After(p) # p /\ Before(p, After(p))
  BY <1>1 DEF Before, After
<1> QED  BY <1>2, <1>3

LEMMA LastTurn ==
  ASSUME NEW p \in Turns, After(p) \notin Turns, NEW t \in Turns
  PROVE  ~Before(p, t)
<1>1. /\ p = <<p[1], p[2]>> /\ p[1] \in 1..RoundLimit /\ p[2] \in 0..Participants - 1
      /\ t = <<t[1], t[2]>> /\ t[1] \in 1..RoundLimit /\ t[2] \in 0..Participants - 1
      /\ {RoundLimit, Participants} \subseteq Nat
  BY TurnFields, DiscussionAssumption
<1>2. CASE p[2] + 1 >= Participants
  <2>1. After(p) = <<p[1] + 1, 0>>
    BY <1>2 DEF After
  <2>2. p[1] + 1 \notin 1..RoundLimit
    BY <1>1, <2>1 DEF Turns
  <2> QED  BY <1>1, <1>2, <2>2 DEF Before
<1>3. CASE ~(p[2] + 1 >= Participants)
  <2>1. After(p) = <<p[1], p[2] + 1>>
    BY <1>3 DEF After
  <2>2. p[2] + 1 \in 0..Participants - 1
    BY <1>1, <1>3
  <2> QED  BY <1>1, <2>1, <2>2 DEF Turns
<1> QED  BY <1>2, <1>3

LEMMA ClosingIsNoTurn == Closing \notin Turns
<1>1. ASSUME Closing \in Turns PROVE FALSE
  <2>1. Closing = <<Closing[1], Closing[2]>>
    BY <1>1, TurnFields
  <2>2. Len(Closing) = 2
    BY <2>1
  <2> QED  BY <2>2 DEF Closing
<1> QED  BY <1>1

(***************************************************************************)
(* The inductive invariant                                                 *)
(***************************************************************************)
\* The deliveries of the command are counted once each.
CommandInv ==
  command["create"] + command["insert"] + command["enqueue"] + command["failing"]
    + command["done"] = Deliveries

\* Before the discussion's row there is nothing.
OriginInv ==
  dstatus = "absent" =>
    /\ position = First
    /\ \A t \in Turns : row[t] = "absent" /\ task[t] = "absent"
    /\ created = {} /\ active = NoTurn /\ lease = {} /\ pass.step = "idle"
    /\ command["insert"] = 0 /\ command["enqueue"] = 0 /\ command["failing"] = 0

\* No job, lease or step is ahead of the discussion.
ReachedInv ==
  /\ \A t \in created \cup lease : ~Before(position, t)
  /\ active \in Turns => ~Before(position, active)
  /\ pass.step # "idle" => ~Before(position, pass.turn)
  /\ at \in {"enqueue", "unlease"} => After(active) = position

\* The turn's row follows its task, and the discussion waits for it.
RowInv ==
  /\ \A t \in Turns : row[t] \in Terminal => task[t] \in Terminal
  /\ at \in {"check", "starting"} => row[active] \notin Terminal
  /\ dstatus = "active" => row[position] \notin Terminal
  /\ dstatus = "completed" => After(position) \notin Turns /\ row[position] \in Terminal

TalkInv == OriginInv /\ ReachedInv /\ RowInv /\ OneSpeaker

\* What is marked, or about to be, was posted.
Posted(message) == \E i \in 1..Len(thread) : thread[i] = message

PostsInv ==
  /\ \A t \in rendered : Posted(t)
  /\ at = "mark" => posting \in Turns \cup {Closing} /\ Posted(posting)

\* Whatever has a job, a lease or a step is a task that exists.
TasksExist ==
  /\ \A t \in created \cup lease : task[t] # "absent"
  /\ active # NoTurn => task[active] # "absent"
  /\ pass.step # "idle" => task[pass.turn] # "absent"
  /\ command["enqueue"] > 0 => task[First] # "absent"
  /\ at \in {"enqueue", "unlease"} => task[position] # "absent"

\* While nothing was given up, the handler's step tells the status of its task.
StepInv ==
  /\ at = "skipping" => Stopped
  /\ aborts = 0 =>
       /\ up /\ command["failing"] = 0
       /\ at = "idle" => active = NoTurn
       /\ at \in {"check", "skipping", "starting"} => task[active] = "queued"
       /\ at \in {"turn", "commit"} => task[active] = "running"
       /\ at \in {"enqueue", "unlease", "render", "mark", "closing"} => task[active] # "queued"

\* The lease of the current turn is not dropped before the turn has a job.
LeaseInv ==
  dstatus = "active" /\ aborts = 0 /\ task[position] = "queued" =>
    ((pass.step = "unlease" /\ pass.turn = position) \/ at = "unlease" => HasJob(position))

\* The handler's step tells the status of its task, whatever was given up; only
\* the watchdog may have been faster than the commit.
HandlerInv ==
  /\ at \in {"check", "skipping", "starting"} => task[active] = "queued"
  /\ at = "turn" => task[active] = "running"
  /\ at = "commit" => task[active] \in {"running", "failed"}

\* Until the first turn is enqueued, or its task failed, one delivery has it.
FirstInv ==
  command["enqueue"] > 0 \/ command["failing"] > 0 =>
    /\ command["enqueue"] + command["failing"] = 1
    /\ task[First] = "queued"
    /\ First \notin created \cup lease /\ active # First
    /\ pass.step # "idle" => pass.turn # First

CarryInv == TasksExist /\ StepInv /\ LeaseInv /\ CarriedOn

IInv == TypeOK /\ CommandInv /\ TalkInv /\ PostsInv /\ ThreadInOrder /\ CarryInv /\ HandlerInv /\ FirstInv

LEMMA Initially == Init => IInv
<1> SUFFICES ASSUME Init PROVE IInv
  OBVIOUS
<1> USE DiscussionAssumption, FirstIsFirst DEF Init
<1>1. TypeOK
  <2>1. /\ command \in [CommandStep -> 0..Deliveries]
        /\ row \in [Turns -> {"absent", "queued"} \cup Terminal]
        /\ task \in [Turns -> {"absent", "queued", "running"} \cup Terminal]
    BY DEF CommandStep
  <2>2. closed \in BOOLEAN /\ up \in BOOLEAN
    BY Zenon
  <2>3. thread \in Seq(Turns \cup {Closing})
    OBVIOUS
  <2> QED  BY <2>1, <2>2, <2>3 DEF TypeOK, NoPass, HandlerStep
<1>2. CommandInv
  BY DEF CommandInv, CommandStep
<1>3. TalkInv
  BY NoTurnAssumption DEF TalkInv, OriginInv, ReachedInv, RowInv, OneSpeaker, NoPass, CommandStep,
                          Terminal
<1>4. PostsInv /\ ThreadInOrder
  BY DEF PostsInv, ThreadInOrder
<1>5. CarryInv
  BY DEF CarryInv, TasksExist, StepInv, LeaseInv, CarriedOn, NoPass, CommandStep
<1>6. HandlerInv /\ FirstInv
  BY DEF HandlerInv, FirstInv, CommandStep
<1> QED  BY <1>1, <1>2, <1>3, <1>4, <1>5, <1>6 DEF IInv

(***************************************************************************)
(* Types, one step for each action                                         *)
(***************************************************************************)
LEMMA FaultsAreBounded ==
  TypeOK /\ (Fault \/ Abort) => {faults', aborts'} \subseteq 0..MaxFaults
BY DiscussionAssumption DEF TypeOK, Fault, Abort

LEMMA CommandMoves ==
  ASSUME TypeOK, CommandInv, NEW step \in CommandStep, NEW next \in CommandStep \ {step},
         Deliver(step, next)
  PROVE  command' \in [CommandStep -> 0..Deliveries] /\ CommandInv'
<1>1. /\ command \in [CommandStep -> 0..Deliveries] /\ Deliveries \in Nat
      /\ \A s \in CommandStep : command[s] \in 0..Deliveries
  BY DiscussionAssumption DEF TypeOK
<1>2. /\ command' \in [CommandStep -> Int] /\ command[step] > 0
      /\ command'[step] = command[step] - 1 /\ command'[next] = command[next] + 1
      /\ \A s \in CommandStep \ {step, next} : command'[s] = command[s]
  BY <1>1 DEF Deliver
<1>3. CommandInv'
  BY <1>1, <1>2 DEF CommandInv, CommandStep
<1>4. \A s \in CommandStep : command'[s] \in 0..Deliveries
  BY <1>1, <1>2, <1>3 DEF CommandInv, CommandStep
<1> QED  BY <1>2, <1>3, <1>4

LEMMA TypeStep ==
  ASSUME TypeOK, CommandInv, TalkInv, PostsInv, [Next]_vars
  PROVE  TypeOK'
<1> USE FirstIsFirst, NoTurnAssumption, FaultsAreBounded, CommandMoves
    DEF TypeOK, Enqueue, HandlerStep, NoPass, Terminal, talk, posts, jobs, worker, bounds
<1>1. CASE CreateDiscussion
  BY <1>1 DEF CreateDiscussion, CommandStep
<1>2. CASE InsertFirstTask
  BY <1>2 DEF InsertFirstTask, CommandStep
<1>3. CASE EnqueueFirst
  BY <1>3 DEF EnqueueFirst, CommandStep
<1>4. CASE FailFirst
  BY <1>4 DEF FailFirst, CommandStep
<1>5. CASE EnqueueFirstFails
  BY <1>5 DEF EnqueueFirstFails, CommandStep
<1>6. CASE StopDiscussion  BY <1>6 DEF StopDiscussion
<1>7. ASSUME NEW t \in Turns, FetchJob(t) PROVE TypeOK'  BY <1>7 DEF FetchJob
<1>8. CASE CheckQueued  BY <1>8 DEF CheckQueued
<1>9. CASE CheckDiscussion  BY <1>9 DEF CheckDiscussion
<1>10. CASE SkipTurn  BY <1>10 DEF SkipTurn
<1>11. CASE StartTurn  BY <1>11 DEF StartTurn
<1>12. CASE EndTurn  BY <1>12 DEF EndTurn
<1>13. ASSUME NEW status \in Terminal, CommitTurn(status) PROVE TypeOK'
  <2>1. CASE EndDiscussion(AppendTurn(active, status), [task EXCEPT ![active] = status])
    BY <1>13, <2>1 DEF CommitTurn, EndDiscussion, AppendTurn
  <2>2. CASE OpenTurn(AppendTurn(active, status), [task EXCEPT ![active] = status])
    BY <1>13, <2>2 DEF CommitTurn, OpenTurn, AppendTurn
  <2>3. CASE StayPut(AppendTurn(active, status), [task EXCEPT ![active] = status])
    BY <1>13, <2>3 DEF CommitTurn, StayPut, AppendTurn
  <2> QED  BY <1>13, <2>1, <2>2, <2>3 DEF CommitTurn
<1>14. CASE RefuseCommit  BY <1>14 DEF RefuseCommit
<1>15. CASE EnqueueNext
  <2>1. After(active) \in Turns
    BY <1>15 DEF EnqueueNext, TalkInv, ReachedInv
  <2> QED  BY <1>15, <2>1 DEF EnqueueNext
<1>16. CASE DropNextLease  BY <1>16 DEF DropNextLease
<1>17. ASSUME NEW t \in Turns, PostTurn(t) PROVE TypeOK'
  <2>1. thread' \in Seq(Turns \cup {Closing})
    BY <1>17, AppendProperties DEF PostTurn, Post
  <2> QED  BY <1>17, <2>1 DEF PostTurn
<1>18. CASE PostClosing
  <2>1. thread' \in Seq(Turns \cup {Closing})
    BY <1>18, AppendProperties DEF PostClosing, Post
  <2> QED  BY <1>18, <2>1 DEF PostClosing
<1>19. CASE MarkRendered
  <2>1. posting \in Turns \cup {Closing}
    BY <1>19 DEF MarkRendered, PostsInv
  <2> QED  BY <1>19, <2>1 DEF MarkRendered
<1>20. CASE EndRender  BY <1>20 DEF EndRender
<1>21. CASE EndJob  BY <1>21 DEF EndJob
<1>22. ASSUME NEW t \in Turns, LoadLease(t) PROVE TypeOK'  BY <1>22 DEF LoadLease
<1>23. CASE Reschedule  BY <1>23 DEF Reschedule
<1>24. CASE DropLease  BY <1>24 DEF DropLease
<1>25. CASE WatchdogFails  BY <1>25 DEF WatchdogFails
<1>26. CASE CommitFails  BY <1>26 DEF CommitFails
<1>27. CASE EnqueueNextFails  BY <1>27 DEF EnqueueNextFails
<1>28. CASE RenderFails  BY <1>28 DEF RenderFails
<1>29. CASE RescheduleFails  BY <1>29 DEF RescheduleFails
<1>30. CASE Crash  BY <1>30 DEF Crash
<1>31. CASE ExpireJob  BY <1>31 DEF ExpireJob
<1>32. CASE Restart  BY <1>32 DEF Restart
<1>33. CASE UNCHANGED vars  BY <1>33 DEF vars
<1> QED
  BY <1>1, <1>2, <1>3, <1>4, <1>5, <1>6, <1>7, <1>8, <1>9, <1>10, <1>11, <1>12, <1>13, <1>14,
     <1>15, <1>16, <1>17, <1>18, <1>19, <1>20, <1>21, <1>22, <1>23, <1>24, <1>25, <1>26,
     <1>27, <1>28, <1>29, <1>30, <1>31, <1>32, <1>33
  DEF Next, CommandTurn, HandlerTurn, PassTurn, WorkerFault

\* A delivery is at one step.
LEMMA CommandStepKept ==
  ASSUME TypeOK, CommandInv, [Next]_vars
  PROVE  CommandInv'
<1> USE CommandMoves DEF CommandStep, talk, posts, jobs, worker, bounds
<1>0. command' = command => CommandInv'
  BY DEF CommandInv
<1> USE <1>0
<1>1. CASE CreateDiscussion  BY <1>1 DEF CreateDiscussion
<1>2. CASE InsertFirstTask  BY <1>2 DEF InsertFirstTask
<1>3. CASE EnqueueFirst  BY <1>3 DEF EnqueueFirst
<1>4. CASE FailFirst  BY <1>4 DEF FailFirst
<1>5. CASE EnqueueFirstFails  BY <1>5 DEF EnqueueFirstFails
<1>6. CASE StopDiscussion  BY <1>6 DEF StopDiscussion
<1>7. ASSUME NEW t \in Turns, FetchJob(t) PROVE CommandInv'  BY <1>7 DEF FetchJob
<1>8. CASE CheckQueued  BY <1>8 DEF CheckQueued
<1>9. CASE CheckDiscussion  BY <1>9 DEF CheckDiscussion
<1>10. CASE SkipTurn  BY <1>10 DEF SkipTurn
<1>11. CASE StartTurn  BY <1>11 DEF StartTurn
<1>12. CASE EndTurn  BY <1>12 DEF EndTurn
<1>13. ASSUME NEW status \in Terminal, CommitTurn(status) PROVE CommandInv'
  BY <1>13, <1>0 DEF CommitTurn
<1>14. CASE RefuseCommit  BY <1>14 DEF RefuseCommit
<1>15. CASE EnqueueNext  BY <1>15 DEF EnqueueNext
<1>16. CASE DropNextLease  BY <1>16 DEF DropNextLease
<1>17. ASSUME NEW t \in Turns, PostTurn(t) PROVE CommandInv'  BY <1>17 DEF PostTurn
<1>18. CASE PostClosing  BY <1>18 DEF PostClosing
<1>19. CASE MarkRendered  BY <1>19 DEF MarkRendered
<1>20. CASE EndRender  BY <1>20 DEF EndRender
<1>21. CASE EndJob  BY <1>21 DEF EndJob
<1>22. ASSUME NEW t \in Turns, LoadLease(t) PROVE CommandInv'  BY <1>22 DEF LoadLease
<1>23. CASE Reschedule  BY <1>23 DEF Reschedule
<1>24. CASE DropLease  BY <1>24 DEF DropLease
<1>25. CASE WatchdogFails  BY <1>25 DEF WatchdogFails
<1>26. CASE CommitFails  BY <1>26 DEF CommitFails
<1>27. CASE EnqueueNextFails  BY <1>27 DEF EnqueueNextFails
<1>28. CASE RenderFails  BY <1>28 DEF RenderFails
<1>29. CASE RescheduleFails  BY <1>29 DEF RescheduleFails
<1>30. CASE Crash  BY <1>30 DEF Crash
<1>31. CASE ExpireJob  BY <1>31 DEF ExpireJob
<1>32. CASE Restart  BY <1>32 DEF Restart
<1>33. CASE UNCHANGED vars  BY <1>33 DEF vars
<1> QED
  BY <1>1, <1>2, <1>3, <1>4, <1>5, <1>6, <1>7, <1>8, <1>9, <1>10, <1>11, <1>12, <1>13, <1>14,
     <1>15, <1>16, <1>17, <1>18, <1>19, <1>20, <1>21, <1>22, <1>23, <1>24, <1>25, <1>26,
     <1>27, <1>28, <1>29, <1>30, <1>31, <1>32, <1>33
  DEF Next, CommandTurn, HandlerTurn, PassTurn, WorkerFault

(***************************************************************************)
(* The discussion and its turns                                            *)
(***************************************************************************)
\* The transaction at the end of a turn: only the current turn moves the
\* discussion on.
LEMMA CommitKeepsTalk ==
  ASSUME TypeOK, TalkInv, NEW status \in Terminal, CommitTurn(status)
  PROVE  TalkInv'
<1> DEFINE rows  == AppendTurn(active, status)
           tasks == [task EXCEPT ![active] = status]
<1>1. active \in Turns /\ position \in Turns /\ ~Before(position, active)
  BY DEF CommitTurn, TypeOK, TalkInv, ReachedInv
<1>2. rows = [row EXCEPT ![active] = status] /\ row[active] \notin Terminal
  BY <1>1 DEF CommitTurn, AppendTurn, TalkInv, RowInv, Terminal
<1>3. /\ rows \in [Turns -> {"absent", "queued"} \cup Terminal]
      /\ tasks \in [Turns -> {"absent", "queued", "running"} \cup Terminal]
      /\ rows[active] = status /\ tasks[active] = status
      /\ \A t \in Turns \ {active} : rows[t] = row[t] /\ tasks[t] = task[t]
  BY <1>1, <1>2 DEF TypeOK
<1>4. dstatus # "absent" /\ at = "commit"
      /\ UNCHANGED <<created, active, pass, command>>
  BY <1>1, NoTurnAssumption DEF CommitTurn, TalkInv, OriginInv, jobs
<1> HIDE DEF rows, tasks
<1>5. CASE StayPut(rows, tasks)
  <2>1. row' = rows /\ task' = tasks /\ at' = "closing" /\ UNCHANGED <<dstatus, position, lease>>
    BY <1>5 DEF StayPut
  <2>2. dstatus = "active" => rows[position] \notin Terminal
    BY <1>5 DEF StayPut, Waits
  <2>3. dstatus = "completed" => rows[position] \in Terminal
    BY <1>1, <1>3 DEF TalkInv, RowInv
  <2>4. RowInv'
    BY <1>3, <2>1, <2>2, <2>3 DEF TalkInv, RowInv
  <2>5. OneSpeaker'
    BY <1>1, <1>3, <2>1 DEF TalkInv, OneSpeaker
  <2> QED  BY <1>4, <2>1, <2>4, <2>5 DEF TalkInv, OriginInv, ReachedInv
<1>6. CASE ~Waits(rows)
  <2>1. dstatus = "active" /\ rows[position] \in Terminal
    BY <1>6 DEF Waits
  <2>2. active = position
    BY <1>1, <1>3, <2>1 DEF TalkInv, RowInv
  <2>3. CASE EndDiscussion(rows, tasks)
    <3>1. /\ row' = rows /\ task' = tasks /\ at' = "render" /\ dstatus' = "completed"
          /\ UNCHANGED <<position, lease>> /\ After(position) \notin Turns
      BY <2>3 DEF EndDiscussion
    <3>2. RowInv'
      BY <1>3, <2>1, <3>1 DEF TalkInv, RowInv
    <3>3. OneSpeaker'
      BY <1>1, <1>3, <3>1 DEF TalkInv, OneSpeaker
    <3> QED  BY <1>4, <3>1, <3>2, <3>3 DEF TalkInv, OriginInv, ReachedInv
  <2>4. CASE OpenTurn(rows, tasks)
    <3> DEFINE next == After(position)
    <3>1. /\ next \in Turns
          /\ task' = [tasks EXCEPT ![next] = "queued"]
          /\ row' = [rows EXCEPT ![next] = "queued"]
          /\ lease' = lease \cup {next} /\ position' = next /\ at' = "enqueue"
          /\ UNCHANGED dstatus
      BY <2>4 DEF OpenTurn
    <3>2. /\ next # position /\ Before(position, next)
          /\ \A t \in Turns : Before(t, next) => t = position \/ Before(t, position)
          /\ \A t \in Turns : Before(next, t) => t # position /\ Before(position, t)
      BY <1>1, <3>1, AfterIsNext
    <3> HIDE DEF next
    <3>3. /\ row'[next] = "queued" /\ task'[next] = "queued"
          /\ \A t \in Turns \ {next} : row'[t] = rows[t] /\ task'[t] = tasks[t]
      BY <1>3, <3>1
    <3>4. RowInv'
      <4>1. \A t \in Turns : row'[t] \in Terminal => task'[t] \in Terminal
        BY <1>3, <3>3 DEF TalkInv, RowInv, Terminal
      <4>2. row'[position'] \notin Terminal
        BY <3>1, <3>3 DEF Terminal
      <4> QED  BY <2>1, <3>1, <4>1, <4>2 DEF RowInv
    <3>5. OneSpeaker'
      <4>1. ASSUME NEW t \in Turns, Before(t, next)
            PROVE  row'[t] \in Terminal /\ task'[t] \in Terminal
        <5>1. t # next
          BY <4>1, Order
        <5>2. CASE t = position
          BY <1>3, <2>2, <3>3, <5>1, <5>2
        <5>3. CASE t # position
          BY <1>3, <2>2, <3>2, <3>3, <4>1, <5>1, <5>3 DEF TalkInv, OneSpeaker
        <5> QED  BY <5>2, <5>3
      <4>2. ASSUME NEW t \in Turns, Before(next, t)
            PROVE  row'[t] = "absent" /\ task'[t] = "absent" /\ t \notin lease'
        <5>1. t # next /\ t # position /\ Before(position, t)
          BY <3>1, <3>2, <4>2, Order
        <5> QED  BY <1>3, <2>2, <3>1, <3>3, <5>1 DEF TalkInv, OneSpeaker
      <4> QED  BY <3>1, <4>1, <4>2 DEF OneSpeaker
    <3>6. ReachedInv'
      <4>1. ASSUME NEW t \in Turns, ~Before(position, t) PROVE ~Before(next, t)
        BY <3>2, <4>1
      <4>2. ~Before(next, next)
        BY <3>1, Order
      <4> USE DEF TalkInv, ReachedInv
      <4>3. \A t \in created' \cup lease' : ~Before(position', t)
        BY <1>4, <3>1, <4>1, <4>2 DEF TypeOK
      <4>4. active' \in Turns => ~Before(position', active')
        BY <1>1, <1>4, <3>1, <4>1
      <4>5. pass'.step # "idle" => ~Before(position', pass'.turn)
        BY <1>4, <3>1, <4>1 DEF TypeOK
      <4>6. After(active') = position'
        BY <1>4, <2>2, <3>1 DEF next
      <4> QED  BY <4>3, <4>4, <4>5, <4>6
    <3> QED  BY <1>4, <3>1, <3>4, <3>5, <3>6 DEF TalkInv, OriginInv
  <2>5. CASE StayPut(rows, tasks)
    BY <1>5, <2>5
  <2> QED  BY <2>3, <2>4, <2>5 DEF CommitTurn, rows, tasks
<1> QED  BY <1>5, <1>6 DEF CommitTurn, EndDiscussion, OpenTurn, rows, tasks

\* Every other action leaves the position alone.
LEMMA TalkStep ==
  ASSUME TypeOK, TalkInv, [Next]_vars
  PROVE  TalkInv'
<1> USE FirstIsFirst, NoTurnAssumption
    DEF TypeOK, TalkInv, OriginInv, ReachedInv, RowInv, OneSpeaker, Terminal, CommandStep, Deliver,
        Enqueue, NoPass, talk, posts, jobs, worker, bounds
<1>1. CASE CreateDiscussion  BY <1>1 DEF CreateDiscussion
<1>2. CASE InsertFirstTask  BY <1>2 DEF InsertFirstTask
<1>3. CASE EnqueueFirst  BY <1>3 DEF EnqueueFirst
<1>4. CASE FailFirst  BY <1>4 DEF FailFirst
<1>5. CASE EnqueueFirstFails  BY <1>5 DEF EnqueueFirstFails
<1>6. CASE StopDiscussion  BY <1>6 DEF StopDiscussion
<1>7. ASSUME NEW t \in Turns, FetchJob(t) PROVE TalkInv'  BY <1>7 DEF FetchJob
<1>8. CASE CheckQueued  BY <1>8 DEF CheckQueued
<1>9. CASE CheckDiscussion  BY <1>9 DEF CheckDiscussion
<1>10. CASE SkipTurn  BY <1>10 DEF SkipTurn
<1>11. CASE StartTurn  BY <1>11 DEF StartTurn
<1>12. CASE EndTurn  BY <1>12 DEF EndTurn
<1>13. ASSUME NEW status \in Terminal, CommitTurn(status) PROVE TalkInv'
  BY <1>13, CommitKeepsTalk
<1>14. CASE RefuseCommit  BY <1>14 DEF RefuseCommit
<1>15. CASE EnqueueNext  BY <1>15 DEF EnqueueNext
<1>16. CASE DropNextLease  BY <1>16 DEF DropNextLease
<1>17. ASSUME NEW t \in Turns, PostTurn(t) PROVE TalkInv'  BY <1>17 DEF PostTurn
<1>18. CASE PostClosing  BY <1>18 DEF PostClosing
<1>19. CASE MarkRendered  BY <1>19 DEF MarkRendered
<1>20. CASE EndRender  BY <1>20 DEF EndRender
<1>21. CASE EndJob  BY <1>21 DEF EndJob
<1>22. ASSUME NEW t \in Turns, LoadLease(t) PROVE TalkInv'  BY <1>22 DEF LoadLease
<1>23. CASE Reschedule  BY <1>23 DEF Reschedule
<1>24. CASE DropLease  BY <1>24 DEF DropLease
<1>25. CASE WatchdogFails  BY <1>25 DEF WatchdogFails
<1>26. CASE CommitFails  BY <1>26 DEF CommitFails
<1>27. CASE EnqueueNextFails  BY <1>27 DEF EnqueueNextFails
<1>28. CASE RenderFails  BY <1>28 DEF RenderFails
<1>29. CASE RescheduleFails  BY <1>29 DEF RescheduleFails
<1>30. CASE Crash  BY <1>30 DEF Crash
<1>31. CASE ExpireJob  BY <1>31 DEF ExpireJob
<1>32. CASE Restart  BY <1>32 DEF Restart
<1>33. CASE UNCHANGED vars  BY <1>33 DEF vars
<1> QED
  BY <1>1, <1>2, <1>3, <1>4, <1>5, <1>6, <1>7, <1>8, <1>9, <1>10, <1>11, <1>12, <1>13, <1>14,
     <1>15, <1>16, <1>17, <1>18, <1>19, <1>20, <1>21, <1>22, <1>23, <1>24, <1>25, <1>26,
     <1>27, <1>28, <1>29, <1>30, <1>31, <1>32, <1>33
  DEF Next, CommandTurn, HandlerTurn, PassTurn, WorkerFault

(***************************************************************************)
(* The thread                                                              *)
(***************************************************************************)
\* A message goes to the end of the thread, unless it is there.
LEMMA PostAppends ==
  ASSUME TypeOK, NEW message \in Turns \cup {Closing}, Post(message)
  PROVE  /\ Posted(message)'
         /\ \A m \in Turns \cup {Closing} : Posted(m) => Posted(m)'
         /\ Posted(message) => thread' = thread
         /\ ~Posted(message) =>
              /\ Len(thread') = Len(thread) + 1 /\ Len(thread) \in Nat
              /\ \A i \in 1..Len(thread) : thread'[i] = thread[i]
              /\ thread'[Len(thread) + 1] = message
<1>1. thread \in Seq(Turns \cup {Closing}) /\ Len(thread) \in Nat
  BY LenProperties DEF TypeOK
<1>2. CASE Posted(message)
  BY <1>2 DEF Post, Posted
<1>3. CASE ~Posted(message)
  <2>1. thread' = Append(thread, message)
    BY <1>3 DEF Post, Posted
  <2>2. /\ Len(thread') = Len(thread) + 1
        /\ \A i \in 1..Len(thread) : thread'[i] = thread[i]
        /\ thread'[Len(thread) + 1] = message
    BY <1>1, <2>1, AppendProperties
  <2>3. Posted(message)'
    BY <1>1, <2>2 DEF Posted
  <2>4. \A m \in Turns \cup {Closing} : Posted(m) => Posted(m)'
    BY <1>1, <2>2 DEF Posted
  <2> QED  BY <1>1, <1>3, <2>2, <2>3, <2>4
<1> QED  BY <1>2, <1>3

\* The first unposted turn is the one that the thread lacks.
LEMMA TurnGoesToItsPlace ==
  ASSUME TypeOK, TalkInv, PostsInv, ThreadInOrder, NEW t \in Turns, PostTurn(t)
  PROVE  PostsInv' /\ ThreadInOrder'
<1>1. /\ Post(t) /\ at = "render" /\ t \in Unposted /\ (\A s \in Unposted : ~Before(s, t))
      /\ at' = "mark" /\ posting' = t /\ UNCHANGED <<dstatus, position, row, rendered>>
  BY DEF PostTurn, talk
<1>2. active \in Turns /\ position \in Turns /\ ~Before(position, active)
  BY <1>1 DEF TypeOK, TalkInv, ReachedInv
<1>3. row[t] \in Terminal /\ (t = active \/ Before(t, active))
  BY <1>1 DEF Unposted
<1>4. ASSUME NEW s \in Turns, Before(s, t) PROVE Posted(s)
  <2>1. Before(s, active)
    BY <1>2, <1>3, <1>4, Order
  <2>2. Before(s, position)
    BY <1>2, <2>1, Order
  <2>3. row[s] \in Terminal
    BY <2>2 DEF TalkInv, OneSpeaker
  <2>4. s \in rendered
    BY <1>1, <1>4, <2>1, <2>3 DEF Unposted
  <2> QED  BY <2>4 DEF PostsInv
<1>5. PostsInv'
  BY <1>1, PostAppends DEF PostsInv, TypeOK
<1>6. ThreadInOrder'
  <2>1. CASE Posted(t)
    BY <1>1, <2>1, PostAppends DEF ThreadInOrder
  <2>2. CASE ~Posted(t)
    <3>1. /\ Len(thread') = Len(thread) + 1 /\ Len(thread) \in Nat
          /\ \A i \in 1..Len(thread) : thread'[i] = thread[i]
          /\ thread'[Len(thread) + 1] = t
      BY <1>1, <2>2, PostAppends
    <3>2. \A i \in 1..Len(thread) : thread[i] \in Turns
      <4>1. \A i \in 1..Len(thread) : thread[i] \in Turns \cup {Closing}
        BY ElementOfSeq DEF TypeOK
      <4>2. ASSUME NEW i \in 1..Len(thread), thread[i] = Closing PROVE FALSE
        <5>1. PICK j \in 1..i : thread[j] = t
          BY <4>2 DEF ThreadInOrder
        <5>2. j \in 1..Len(thread)
          BY <3>1
        <5> QED  BY <2>2, <5>1, <5>2 DEF Posted
      <4> QED  BY <4>1, <4>2
    <3>3. \A i \in 1..Len(thread) : Before(thread[i], t)
      <4>1. ASSUME NEW i \in 1..Len(thread), ~Before(thread[i], t) PROVE FALSE
        <5>1. thread[i] # t /\ thread[i] \in Turns /\ thread[i] # Closing
          BY <2>2, <3>2, ClosingIsNoTurn DEF Posted
        <5>2. Before(t, thread[i])
          BY <4>1, <5>1, Order
        <5>3. PICK j \in 1..i - 1 : thread[j] = t
          BY <5>1, <5>2 DEF ThreadInOrder
        <5>4. j \in 1..Len(thread)
          BY <3>1
        <5> QED  BY <2>2, <5>3, <5>4 DEF Posted
      <4> QED  BY <4>1
    <3>4. ASSUME NEW i \in 1..Len(thread)
          PROVE  /\ row'[thread'[i]] \in Terminal
                 /\ \A s \in Turns : Before(s, thread'[i]) <=> \E j \in 1..i - 1 : thread'[j] = s
      <4>1. \A j \in 1..i - 1 : thread'[j] = thread[j]
        BY <3>1
      <4>2. thread[i] # Closing /\ thread'[i] = thread[i]
        BY <3>1, <3>2, ClosingIsNoTurn
      <4> QED  BY <1>1, <4>1, <4>2 DEF ThreadInOrder
    <3>5. /\ row'[t] \in Terminal
          /\ \A s \in Turns : Before(s, t) <=> \E j \in 1..Len(thread) : thread'[j] = s
      BY <1>1, <1>3, <1>4, <3>1, <3>3 DEF Posted
    <3>6. \A i \in 1..Len(thread') : thread'[i] # Closing
      BY <3>1, <3>2, ClosingIsNoTurn
    <3>7. ASSUME NEW i \in 1..Len(thread')
          PROVE  /\ row'[thread'[i]] \in Terminal
                 /\ \A s \in Turns : Before(s, thread'[i]) <=> \E j \in 1..i - 1 : thread'[j] = s
      <4>1. CASE i \in 1..Len(thread)
        BY <3>4, <4>1
      <4>2. CASE i = Len(thread) + 1
        <5>1. i - 1 = Len(thread)
          BY <3>1, <4>2
        <5> QED  BY <3>1, <3>5, <4>2, <5>1
      <4> QED  BY <3>1, <4>1, <4>2
    <3> QED  BY <3>6, <3>7 DEF ThreadInOrder
  <2> QED  BY <2>1, <2>2
<1> QED  BY <1>5, <1>6

\* The closing line follows the last turn.
LEMMA ClosingGoesLast ==
  ASSUME TypeOK, TalkInv, PostsInv, ThreadInOrder, PostClosing
  PROVE  PostsInv' /\ ThreadInOrder'
<1>1. /\ Post(Closing) /\ at = "render" /\ ClosingDue
      /\ at' = "mark" /\ posting' = Closing /\ UNCHANGED <<dstatus, position, row, rendered>>
  BY DEF PostClosing, talk
<1>2. active \in Turns /\ position \in Turns /\ ~Before(position, active)
  BY <1>1 DEF TypeOK, TalkInv, ReachedInv
<1>3. dstatus = "completed" /\ After(position) \notin Turns /\ row[position] \in Terminal
  BY <1>1 DEF ClosingDue, TalkInv, RowInv
<1>4. active = position
  BY <1>1, <1>2, <1>3, Order DEF ClosingDue
<1>5. ASSUME NEW t \in Turns PROVE Posted(t)
  <2>1. t = position \/ Before(t, position)
    BY <1>2, <1>3, LastTurn, Order
  <2>2. row[t] \in Terminal
    BY <1>3, <2>1 DEF TalkInv, OneSpeaker
  <2>3. t \in rendered
    BY <1>1, <1>4, <2>1, <2>2 DEF ClosingDue, Unposted
  <2> QED  BY <2>3 DEF PostsInv
<1>6. PostsInv'
  BY <1>1, PostAppends DEF PostsInv, TypeOK
<1>7. ThreadInOrder'
  <2>1. CASE Posted(Closing)
    BY <1>1, <2>1, PostAppends DEF ThreadInOrder
  <2>2. CASE ~Posted(Closing)
    <3>1. /\ Len(thread') = Len(thread) + 1 /\ Len(thread) \in Nat
          /\ \A i \in 1..Len(thread) : thread'[i] = thread[i]
          /\ thread'[Len(thread) + 1] = Closing
      BY <1>1, <2>2, PostAppends
    <3>2. ASSUME NEW i \in 1..Len(thread)
          PROVE  /\ thread'[i] # Closing /\ row'[thread'[i]] \in Terminal
                 /\ \A s \in Turns : Before(s, thread'[i]) <=> \E j \in 1..i - 1 : thread'[j] = s
      <4>1. \A j \in 1..i - 1 : thread'[j] = thread[j]
        BY <3>1
      <4>2. thread[i] # Closing /\ thread'[i] = thread[i]
        BY <2>2, <3>1 DEF Posted
      <4> QED  BY <1>1, <4>1, <4>2 DEF ThreadInOrder
    <3>3. \A t \in Turns : \E j \in 1..Len(thread) + 1 : thread'[j] = t
      BY <1>5, <3>1 DEF Posted
    <3> QED  BY <1>1, <1>3, <3>1, <3>2, <3>3 DEF ThreadInOrder
  <2> QED  BY <2>1, <2>2
<1> QED  BY <1>6, <1>7

\* The thread is in order whatever is recorded afterwards.
LEMMA RecordedStays ==
  ASSUME TypeOK, ThreadInOrder, thread' = thread, dstatus = "completed" => dstatus' = "completed",
         \A t \in Turns : row[t] \in Terminal => row'[t] \in Terminal
  PROVE  ThreadInOrder'
<1>1. \A i \in 1..Len(thread) : thread[i] \in Turns \cup {Closing}
  BY ElementOfSeq DEF TypeOK
<1> QED  BY <1>1, ClosingIsNoTurn DEF ThreadInOrder

LEMMA CommitRecords ==
  ASSUME TypeOK, TalkInv, NEW status \in Terminal, CommitTurn(status)
  PROVE  /\ \A t \in Turns : row[t] \in Terminal => row'[t] \in Terminal
         /\ dstatus = "completed" => dstatus' = "completed"
<1> DEFINE rows  == AppendTurn(active, status)
           tasks == [task EXCEPT ![active] = status]
<1>1. active \in Turns
  BY DEF CommitTurn, TypeOK
<1>2. \A t \in Turns : row[t] \in Terminal => rows[t] \in Terminal
  BY <1>1 DEF AppendTurn, TypeOK
<1>3. rows \in [Turns -> {"absent", "queued"} \cup Terminal]
  BY <1>1 DEF AppendTurn, TypeOK
<1>4. EndDiscussion(rows, tasks) \/ OpenTurn(rows, tasks) \/ StayPut(rows, tasks)
  BY DEF CommitTurn
<1> HIDE DEF rows, tasks
<1>5. CASE EndDiscussion(rows, tasks)
  BY <1>2, <1>5 DEF EndDiscussion
<1>6. CASE OpenTurn(rows, tasks)
  BY <1>2, <1>3, <1>6 DEF OpenTurn, Waits, Terminal
<1>7. CASE StayPut(rows, tasks)
  BY <1>2, <1>7 DEF StayPut
<1> QED  BY <1>4, <1>5, <1>6, <1>7

\* What was posted stays, and nothing recorded is undone.
LEMMA ThreadStep ==
  ASSUME TypeOK, TalkInv, PostsInv, ThreadInOrder, [Next]_vars
  PROVE  (PostsInv /\ ThreadInOrder)'
<1>0. ASSUME UNCHANGED <<rendered, thread>>, at' = "mark" => at = "mark" /\ posting' = posting,
             dstatus = "completed" => dstatus' = "completed",
             \A t \in Turns : row[t] \in Terminal => row'[t] \in Terminal
      PROVE  (PostsInv /\ ThreadInOrder)'
  BY <1>0, RecordedStays DEF PostsInv, Posted
<1> USE <1>0 DEF TypeOK, Deliver, talk, posts, jobs, worker, bounds
<1>1. CASE CreateDiscussion  BY <1>1 DEF CreateDiscussion
<1>2. CASE InsertFirstTask  BY <1>2 DEF InsertFirstTask
<1>3. CASE EnqueueFirst  BY <1>3 DEF EnqueueFirst
<1>4. CASE FailFirst  BY <1>4 DEF FailFirst
<1>5. CASE EnqueueFirstFails  BY <1>5 DEF EnqueueFirstFails
<1>6. CASE StopDiscussion  BY <1>6 DEF StopDiscussion
<1>7. ASSUME NEW t \in Turns, FetchJob(t) PROVE (PostsInv /\ ThreadInOrder)'
  BY <1>7 DEF FetchJob
<1>8. CASE CheckQueued  BY <1>8 DEF CheckQueued
<1>9. CASE CheckDiscussion  BY <1>9 DEF CheckDiscussion
<1>10. CASE SkipTurn  BY <1>10 DEF SkipTurn
<1>11. CASE StartTurn  BY <1>11 DEF StartTurn
<1>12. CASE EndTurn  BY <1>12 DEF EndTurn
<1>13. ASSUME NEW status \in Terminal, CommitTurn(status) PROVE (PostsInv /\ ThreadInOrder)'
  <2>1. at' # "mark" /\ UNCHANGED <<rendered, thread>>
    BY <1>13 DEF CommitTurn, EndDiscussion, OpenTurn, StayPut
  <2> QED  BY <1>13, <2>1, CommitRecords
<1>14. CASE RefuseCommit  BY <1>14 DEF RefuseCommit
<1>15. CASE EnqueueNext  BY <1>15 DEF EnqueueNext
<1>16. CASE DropNextLease  BY <1>16 DEF DropNextLease
<1>17. ASSUME NEW t \in Turns, PostTurn(t) PROVE (PostsInv /\ ThreadInOrder)'
  BY <1>17, TurnGoesToItsPlace
<1>18. CASE PostClosing
  BY <1>18, ClosingGoesLast
<1>19. CASE MarkRendered
  <2>1. thread' = thread /\ at' = "render" /\ UNCHANGED <<dstatus, row>>
    BY <1>19 DEF MarkRendered
  <2>2. rendered' \subseteq rendered \cup {posting} /\ Posted(posting)
    BY <1>19 DEF MarkRendered, PostsInv
  <2> QED  BY <2>1, <2>2 DEF PostsInv, ThreadInOrder, Posted
<1>20. CASE EndRender  BY <1>20 DEF EndRender
<1>21. CASE EndJob  BY <1>21 DEF EndJob
<1>22. ASSUME NEW t \in Turns, LoadLease(t) PROVE (PostsInv /\ ThreadInOrder)'
  BY <1>22 DEF LoadLease
<1>23. CASE Reschedule  BY <1>23 DEF Reschedule
<1>24. CASE DropLease  BY <1>24 DEF DropLease
<1>25. CASE WatchdogFails  BY <1>25 DEF WatchdogFails
<1>26. CASE CommitFails  BY <1>26 DEF CommitFails
<1>27. CASE EnqueueNextFails  BY <1>27 DEF EnqueueNextFails
<1>28. CASE RenderFails  BY <1>28 DEF RenderFails
<1>29. CASE RescheduleFails  BY <1>29 DEF RescheduleFails
<1>30. CASE Crash  BY <1>30 DEF Crash
<1>31. CASE ExpireJob  BY <1>31 DEF ExpireJob
<1>32. CASE Restart  BY <1>32 DEF Restart
<1>33. CASE UNCHANGED vars  BY <1>33 DEF vars
<1> QED
  BY <1>1, <1>2, <1>3, <1>4, <1>5, <1>6, <1>7, <1>8, <1>9, <1>10, <1>11, <1>12, <1>13, <1>14,
     <1>15, <1>16, <1>17, <1>18, <1>19, <1>20, <1>21, <1>22, <1>23, <1>24, <1>25, <1>26,
     <1>27, <1>28, <1>29, <1>30, <1>31, <1>32, <1>33
  DEF Next, CommandTurn, HandlerTurn, PassTurn, WorkerFault

(***************************************************************************)
(* Who carries the discussion on                                           *)
(***************************************************************************)
\* The end of a turn ends the discussion or opens the next turn, if it was the
\* current one, and else only writes its task and its row.
LEMMA CommitMoves ==
  ASSUME TypeOK, TalkInv, NEW status \in Terminal, CommitTurn(status)
  PROVE  /\ at = "commit" /\ active \in Turns
         /\ UNCHANGED <<closed, created, active, command, up, pass, faults, aborts>>
         /\ task'[active] = status
         /\ \/ /\ dstatus = "active" /\ active = position
               /\ dstatus' = "completed" /\ at' = "render" /\ UNCHANGED <<position, lease>>
               /\ \A t \in Turns \ {active} : task'[t] = task[t]
            \/ /\ dstatus' = dstatus /\ active = position /\ at' = "enqueue"
               /\ position' \in Turns /\ position' # active /\ Before(position, position')
               /\ task'[position'] = "queued" /\ lease' = lease \cup {position'}
               /\ \A t \in Turns \ {active, position'} : task'[t] = task[t]
            \/ /\ dstatus = "active" => active # position
               /\ at' = "closing" /\ UNCHANGED <<dstatus, position, lease>>
               /\ \A t \in Turns \ {active} : task'[t] = task[t]
<1> DEFINE rows  == AppendTurn(active, status)
           tasks == [task EXCEPT ![active] = status]
<1>1. active \in Turns /\ position \in Turns /\ at = "commit"
  BY DEF CommitTurn, TypeOK
<1>2. rows = [row EXCEPT ![active] = status] /\ row[active] \notin Terminal
  BY <1>1 DEF CommitTurn, AppendTurn, TalkInv, RowInv, Terminal
<1>3. /\ rows[active] = status /\ tasks[active] = status /\ DOMAIN tasks = Turns
      /\ \A t \in Turns \ {active} : rows[t] = row[t] /\ tasks[t] = task[t]
  BY <1>1, <1>2 DEF TypeOK
<1>4. UNCHANGED <<closed, created, active, command, up, pass, faults, aborts>>
  BY DEF CommitTurn, posts, jobs, bounds
<1>5. EndDiscussion(rows, tasks) \/ OpenTurn(rows, tasks) \/ StayPut(rows, tasks)
  BY DEF CommitTurn
<1> HIDE DEF rows, tasks
<1>6. ~Waits(rows) => dstatus = "active" /\ active = position
  BY <1>1, <1>3 DEF Waits, TalkInv, RowInv
<1>7. CASE EndDiscussion(rows, tasks)
  BY <1>1, <1>3, <1>4, <1>6, <1>7 DEF EndDiscussion
<1>8. CASE OpenTurn(rows, tasks)
  <2> DEFINE next == After(position)
  <2>1. /\ next \in Turns /\ position' = next /\ lease' = lease \cup {next}
        /\ task' = [tasks EXCEPT ![next] = "queued"]
        /\ at' = "enqueue" /\ dstatus' = dstatus /\ active = position
    BY <1>6, <1>8 DEF OpenTurn
  <2>2. next # position /\ Before(position, next)
    BY <1>1, <2>1, AfterIsNext
  <2> HIDE DEF next
  <2> QED  BY <1>1, <1>3, <1>4, <2>1, <2>2
<1>9. CASE StayPut(rows, tasks)
  <2>1. dstatus = "active" => active # position
    BY <1>3, <1>9 DEF StayPut, Waits
  <2> QED  BY <1>1, <1>3, <1>4, <1>9, <2>1 DEF StayPut
<1> QED  BY <1>5, <1>7, <1>8, <1>9

\* No task disappears.
LEMMA ExistStep ==
  ASSUME TypeOK, TalkInv, TasksExist, [Next]_vars
  PROVE  TasksExist'
<1> USE FirstIsFirst, NoTurnAssumption
    DEF TasksExist, TypeOK, Enqueue, Deliver, CommandStep, Terminal, NoPass, talk, posts, jobs, worker,
        bounds
<1>1. CASE CreateDiscussion  BY <1>1 DEF CreateDiscussion
<1>2. CASE InsertFirstTask  BY <1>2 DEF InsertFirstTask
<1>3. CASE EnqueueFirst  BY <1>3 DEF EnqueueFirst
<1>4. CASE FailFirst  BY <1>4 DEF FailFirst
<1>5. CASE EnqueueFirstFails  BY <1>5 DEF EnqueueFirstFails
<1>6. CASE StopDiscussion  BY <1>6 DEF StopDiscussion
<1>7. ASSUME NEW t \in Turns, FetchJob(t) PROVE TasksExist'  BY <1>7 DEF FetchJob
<1>8. CASE CheckQueued  BY <1>8 DEF CheckQueued
<1>9. CASE CheckDiscussion  BY <1>9 DEF CheckDiscussion
<1>10. CASE SkipTurn  BY <1>10 DEF SkipTurn
<1>11. CASE StartTurn  BY <1>11 DEF StartTurn
<1>12. CASE EndTurn  BY <1>12 DEF EndTurn
<1>13. ASSUME NEW status \in Terminal, CommitTurn(status) PROVE TasksExist'
  BY <1>13, CommitMoves
<1>14. CASE RefuseCommit  BY <1>14 DEF RefuseCommit
<1>15. CASE EnqueueNext
  BY <1>15 DEF EnqueueNext, TalkInv, ReachedInv
<1>16. CASE DropNextLease  BY <1>16 DEF DropNextLease
<1>17. ASSUME NEW t \in Turns, PostTurn(t) PROVE TasksExist'  BY <1>17 DEF PostTurn
<1>18. CASE PostClosing  BY <1>18 DEF PostClosing
<1>19. CASE MarkRendered  BY <1>19 DEF MarkRendered
<1>20. CASE EndRender  BY <1>20 DEF EndRender
<1>21. CASE EndJob  BY <1>21 DEF EndJob
<1>22. ASSUME NEW t \in Turns, LoadLease(t) PROVE TasksExist'  BY <1>22 DEF LoadLease
<1>23. CASE Reschedule  BY <1>23 DEF Reschedule
<1>24. CASE DropLease  BY <1>24 DEF DropLease
<1>25. CASE WatchdogFails  BY <1>25 DEF WatchdogFails
<1>26. CASE CommitFails  BY <1>26 DEF CommitFails
<1>27. CASE EnqueueNextFails  BY <1>27 DEF EnqueueNextFails
<1>28. CASE RenderFails  BY <1>28 DEF RenderFails
<1>29. CASE RescheduleFails  BY <1>29 DEF RescheduleFails
<1>30. CASE Crash  BY <1>30 DEF Crash
<1>31. CASE ExpireJob  BY <1>31 DEF ExpireJob
<1>32. CASE Restart  BY <1>32 DEF Restart
<1>33. CASE UNCHANGED vars  BY <1>33 DEF vars
<1> QED
  BY <1>1, <1>2, <1>3, <1>4, <1>5, <1>6, <1>7, <1>8, <1>9, <1>10, <1>11, <1>12, <1>13, <1>14,
     <1>15, <1>16, <1>17, <1>18, <1>19, <1>20, <1>21, <1>22, <1>23, <1>24, <1>25, <1>26,
     <1>27, <1>28, <1>29, <1>30, <1>31, <1>32, <1>33
  DEF Next, CommandTurn, HandlerTurn, PassTurn, WorkerFault

\* The handler and its task.
LEMMA StepStep ==
  ASSUME TypeOK, TalkInv, TasksExist, StepInv, [Next]_vars
  PROVE  StepInv'
<1> USE FirstIsFirst, NoTurnAssumption
    DEF StepInv, Stopped, Fault, Abort, TypeOK, Enqueue, Deliver, CommandStep, Terminal, NoPass, talk, posts, jobs, worker,
        bounds
<1>1. CASE CreateDiscussion  BY <1>1 DEF CreateDiscussion
<1>2. CASE InsertFirstTask
  BY <1>2 DEF InsertFirstTask, TasksExist
<1>3. CASE EnqueueFirst  BY <1>3 DEF EnqueueFirst
<1>4. CASE FailFirst  BY <1>4 DEF FailFirst
<1>5. CASE EnqueueFirstFails  BY <1>5 DEF EnqueueFirstFails
<1>6. CASE StopDiscussion  BY <1>6 DEF StopDiscussion
<1>7. ASSUME NEW t \in Turns, FetchJob(t) PROVE StepInv'  BY <1>7 DEF FetchJob
<1>8. CASE CheckQueued
  BY <1>8 DEF CheckQueued, TasksExist
<1>9. CASE CheckDiscussion
  BY <1>9 DEF CheckDiscussion, TalkInv, OriginInv
<1>10. CASE SkipTurn  BY <1>10 DEF SkipTurn
<1>11. CASE StartTurn  BY <1>11 DEF StartTurn
<1>12. CASE EndTurn  BY <1>12 DEF EndTurn
<1>13. ASSUME NEW status \in Terminal, CommitTurn(status) PROVE StepInv'
  BY <1>13, CommitMoves
<1>14. CASE RefuseCommit  BY <1>14 DEF RefuseCommit
<1>15. CASE EnqueueNext  BY <1>15 DEF EnqueueNext
<1>16. CASE DropNextLease  BY <1>16 DEF DropNextLease
<1>17. ASSUME NEW t \in Turns, PostTurn(t) PROVE StepInv'  BY <1>17 DEF PostTurn
<1>18. CASE PostClosing  BY <1>18 DEF PostClosing
<1>19. CASE MarkRendered  BY <1>19 DEF MarkRendered
<1>20. CASE EndRender  BY <1>20 DEF EndRender
<1>21. CASE EndJob  BY <1>21 DEF EndJob
<1>22. ASSUME NEW t \in Turns, LoadLease(t) PROVE StepInv'  BY <1>22 DEF LoadLease
<1>23. CASE Reschedule  BY <1>23 DEF Reschedule
<1>24. CASE DropLease  BY <1>24 DEF DropLease
<1>25. CASE WatchdogFails  BY <1>25 DEF WatchdogFails
<1>26. CASE CommitFails  BY <1>26 DEF CommitFails
<1>27. CASE EnqueueNextFails  BY <1>27 DEF EnqueueNextFails
<1>28. CASE RenderFails  BY <1>28 DEF RenderFails
<1>29. CASE RescheduleFails  BY <1>29 DEF RescheduleFails
<1>30. CASE Crash  BY <1>30 DEF Crash
<1>31. CASE ExpireJob  BY <1>31 DEF ExpireJob
<1>32. CASE Restart  BY <1>32 DEF Restart
<1>33. CASE UNCHANGED vars  BY <1>33 DEF vars
<1> QED
  BY <1>1, <1>2, <1>3, <1>4, <1>5, <1>6, <1>7, <1>8, <1>9, <1>10, <1>11, <1>12, <1>13, <1>14,
     <1>15, <1>16, <1>17, <1>18, <1>19, <1>20, <1>21, <1>22, <1>23, <1>24, <1>25, <1>26,
     <1>27, <1>28, <1>29, <1>30, <1>31, <1>32, <1>33
  DEF Next, CommandTurn, HandlerTurn, PassTurn, WorkerFault

\* A lease is dropped after its turn was enqueued.
LEMMA LeaseStep ==
  ASSUME TypeOK, TalkInv, TasksExist, StepInv, LeaseInv, [Next]_vars
  PROVE  LeaseInv'
<1> USE FirstIsFirst, NoTurnAssumption
    DEF LeaseInv, HasJob, Fault, Abort, TypeOK, Enqueue, Deliver, CommandStep, Terminal, NoPass, talk, posts, jobs, worker,
        bounds
<1>1. CASE CreateDiscussion
  BY <1>1 DEF CreateDiscussion, TalkInv, OriginInv
<1>2. CASE InsertFirstTask
  BY <1>2 DEF InsertFirstTask, TasksExist
<1>3. CASE EnqueueFirst  BY <1>3 DEF EnqueueFirst
<1>4. CASE FailFirst  BY <1>4 DEF FailFirst
<1>5. CASE EnqueueFirstFails  BY <1>5 DEF EnqueueFirstFails
<1>6. CASE StopDiscussion  BY <1>6 DEF StopDiscussion
<1>7. ASSUME NEW t \in Turns, FetchJob(t) PROVE LeaseInv'  BY <1>7 DEF FetchJob
<1>8. CASE CheckQueued
  BY <1>8 DEF CheckQueued, StepInv
<1>9. CASE CheckDiscussion
  BY <1>9 DEF CheckDiscussion, StepInv
<1>10. CASE SkipTurn  BY <1>10 DEF SkipTurn
<1>11. CASE StartTurn  BY <1>11 DEF StartTurn
<1>12. CASE EndTurn  BY <1>12 DEF EndTurn
<1>13. ASSUME NEW status \in Terminal, CommitTurn(status) PROVE LeaseInv'
  BY <1>13, CommitMoves DEF TalkInv, ReachedInv
<1>14. CASE RefuseCommit  BY <1>14 DEF RefuseCommit
<1>15. CASE EnqueueNext
  BY <1>15 DEF EnqueueNext, StepInv, TalkInv, ReachedInv
<1>16. CASE DropNextLease  BY <1>16 DEF DropNextLease
<1>17. ASSUME NEW t \in Turns, PostTurn(t) PROVE LeaseInv'  BY <1>17 DEF PostTurn
<1>18. CASE PostClosing  BY <1>18 DEF PostClosing
<1>19. CASE MarkRendered  BY <1>19 DEF MarkRendered
<1>20. CASE EndRender  BY <1>20 DEF EndRender
<1>21. CASE EndJob  BY <1>21 DEF EndJob
<1>22. ASSUME NEW t \in Turns, LoadLease(t) PROVE LeaseInv'  BY <1>22 DEF LoadLease
<1>23. CASE Reschedule
  BY <1>23 DEF Reschedule, StepInv, Stopped, HandlerStep
<1>24. CASE DropLease  BY <1>24 DEF DropLease
<1>25. CASE WatchdogFails  BY <1>25 DEF WatchdogFails
<1>26. CASE CommitFails  BY <1>26 DEF CommitFails
<1>27. CASE EnqueueNextFails  BY <1>27 DEF EnqueueNextFails
<1>28. CASE RenderFails  BY <1>28 DEF RenderFails
<1>29. CASE RescheduleFails  BY <1>29 DEF RescheduleFails
<1>30. CASE Crash  BY <1>30 DEF Crash
<1>31. CASE ExpireJob  BY <1>31 DEF ExpireJob
<1>32. CASE Restart
  BY <1>32 DEF Restart, StepInv
<1>33. CASE UNCHANGED vars  BY <1>33 DEF vars
<1> QED
  BY <1>1, <1>2, <1>3, <1>4, <1>5, <1>6, <1>7, <1>8, <1>9, <1>10, <1>11, <1>12, <1>13, <1>14,
     <1>15, <1>16, <1>17, <1>18, <1>19, <1>20, <1>21, <1>22, <1>23, <1>24, <1>25, <1>26,
     <1>27, <1>28, <1>29, <1>30, <1>31, <1>32, <1>33
  DEF Next, CommandTurn, HandlerTurn, PassTurn, WorkerFault

\* The current turn stays with somebody.
LEMMA CarryStep ==
  ASSUME TypeOK, TalkInv, TasksExist, StepInv, LeaseInv, CarriedOn, [Next]_vars
  PROVE  CarriedOn'
<1> USE FirstIsFirst, NoTurnAssumption
    DEF CarriedOn, Queued, HasJob, Fault, Abort, TypeOK, Enqueue, Deliver, CommandStep, Terminal, NoPass, talk, posts, jobs, worker,
        bounds
<1>1. CASE CreateDiscussion
  BY <1>1 DEF CreateDiscussion, TalkInv, OriginInv
<1>2. CASE InsertFirstTask  BY <1>2 DEF InsertFirstTask
<1>3. CASE EnqueueFirst
  BY <1>3 DEF EnqueueFirst, StepInv, Stopped, TasksExist, HandlerStep
<1>4. CASE FailFirst
  BY <1>4 DEF FailFirst, StepInv
<1>5. CASE EnqueueFirstFails  BY <1>5 DEF EnqueueFirstFails
<1>6. CASE StopDiscussion  BY <1>6 DEF StopDiscussion
<1>7. ASSUME NEW t \in Turns, FetchJob(t) PROVE CarriedOn'  BY <1>7 DEF FetchJob
<1>8. CASE CheckQueued
  BY <1>8 DEF CheckQueued, StepInv, TasksExist, TalkInv, OneSpeaker
<1>9. CASE CheckDiscussion
  BY <1>9 DEF CheckDiscussion, StepInv
<1>10. CASE SkipTurn
  BY <1>10 DEF SkipTurn, StepInv, Stopped
<1>11. CASE StartTurn
  BY <1>11 DEF StartTurn, StepInv
<1>12. CASE EndTurn  BY <1>12 DEF EndTurn
<1>13. ASSUME NEW status \in Terminal, CommitTurn(status) PROVE CarriedOn'
  BY <1>13, CommitMoves DEF StepInv
<1>14. CASE RefuseCommit  BY <1>14 DEF RefuseCommit
<1>15. CASE EnqueueNext  BY <1>15 DEF EnqueueNext
<1>16. CASE DropNextLease
  BY <1>16 DEF DropNextLease, TalkInv, ReachedInv, LeaseInv
<1>17. ASSUME NEW t \in Turns, PostTurn(t) PROVE CarriedOn'  BY <1>17 DEF PostTurn
<1>18. CASE PostClosing  BY <1>18 DEF PostClosing
<1>19. CASE MarkRendered  BY <1>19 DEF MarkRendered
<1>20. CASE EndRender
  BY <1>20 DEF EndRender, MayPost, ClosingDue, TalkInv, RowInv, OneSpeaker
<1>21. CASE EndJob  BY <1>21 DEF EndJob
<1>22. ASSUME NEW t \in Turns, LoadLease(t) PROVE CarriedOn'  BY <1>22 DEF LoadLease
<1>23. CASE Reschedule  BY <1>23 DEF Reschedule
<1>24. CASE DropLease
  BY <1>24 DEF DropLease, LeaseInv
<1>25. CASE WatchdogFails  BY <1>25 DEF WatchdogFails
<1>26. CASE CommitFails  BY <1>26 DEF CommitFails
<1>27. CASE EnqueueNextFails  BY <1>27 DEF EnqueueNextFails
<1>28. CASE RenderFails  BY <1>28 DEF RenderFails
<1>29. CASE RescheduleFails  BY <1>29 DEF RescheduleFails
<1>30. CASE Crash  BY <1>30 DEF Crash
<1>31. CASE ExpireJob
  BY <1>31 DEF ExpireJob, StepInv
<1>32. CASE Restart
  BY <1>32 DEF Restart, StepInv
<1>33. CASE UNCHANGED vars  BY <1>33 DEF vars
<1> QED
  BY <1>1, <1>2, <1>3, <1>4, <1>5, <1>6, <1>7, <1>8, <1>9, <1>10, <1>11, <1>12, <1>13, <1>14,
     <1>15, <1>16, <1>17, <1>18, <1>19, <1>20, <1>21, <1>22, <1>23, <1>24, <1>25, <1>26,
     <1>27, <1>28, <1>29, <1>30, <1>31, <1>32, <1>33
  DEF Next, CommandTurn, HandlerTurn, PassTurn, WorkerFault

(***************************************************************************)
(* The state machine of tasks                                              *)
(***************************************************************************)
\* Nobody but the watchdog writes the task of a handler at work.
LEMMA HandlerStepKept ==
  ASSUME TypeOK, TalkInv, HandlerInv, FirstInv, [Next]_vars
  PROVE  HandlerInv'
<1> USE FirstIsFirst, NoTurnAssumption
    DEF HandlerInv, FirstInv, Fault, Abort, TypeOK, Enqueue, Deliver, CommandStep, Terminal, NoPass, talk, posts, jobs, worker,
        bounds
<1>1. CASE CreateDiscussion  BY <1>1 DEF CreateDiscussion
<1>2. CASE InsertFirstTask  BY <1>2 DEF InsertFirstTask
<1>3. CASE EnqueueFirst  BY <1>3 DEF EnqueueFirst
<1>4. CASE FailFirst  BY <1>4 DEF FailFirst
<1>5. CASE EnqueueFirstFails  BY <1>5 DEF EnqueueFirstFails
<1>6. CASE StopDiscussion  BY <1>6 DEF StopDiscussion
<1>7. ASSUME NEW t \in Turns, FetchJob(t) PROVE HandlerInv'  BY <1>7 DEF FetchJob
<1>8. CASE CheckQueued  BY <1>8 DEF CheckQueued
<1>9. CASE CheckDiscussion  BY <1>9 DEF CheckDiscussion
<1>10. CASE SkipTurn  BY <1>10 DEF SkipTurn
<1>11. CASE StartTurn  BY <1>11 DEF StartTurn
<1>12. CASE EndTurn  BY <1>12 DEF EndTurn
<1>13. ASSUME NEW status \in Terminal, CommitTurn(status) PROVE HandlerInv'
  BY <1>13, CommitMoves
<1>14. CASE RefuseCommit  BY <1>14 DEF RefuseCommit
<1>15. CASE EnqueueNext
  BY <1>15 DEF EnqueueNext, TalkInv, ReachedInv
<1>16. CASE DropNextLease  BY <1>16 DEF DropNextLease
<1>17. ASSUME NEW t \in Turns, PostTurn(t) PROVE HandlerInv'  BY <1>17 DEF PostTurn
<1>18. CASE PostClosing  BY <1>18 DEF PostClosing
<1>19. CASE MarkRendered  BY <1>19 DEF MarkRendered
<1>20. CASE EndRender  BY <1>20 DEF EndRender
<1>21. CASE EndJob  BY <1>21 DEF EndJob
<1>22. ASSUME NEW t \in Turns, LoadLease(t) PROVE HandlerInv'  BY <1>22 DEF LoadLease
<1>23. CASE Reschedule  BY <1>23 DEF Reschedule
<1>24. CASE DropLease  BY <1>24 DEF DropLease
<1>25. CASE WatchdogFails  BY <1>25 DEF WatchdogFails
<1>26. CASE CommitFails  BY <1>26 DEF CommitFails
<1>27. CASE EnqueueNextFails  BY <1>27 DEF EnqueueNextFails
<1>28. CASE RenderFails  BY <1>28 DEF RenderFails
<1>29. CASE RescheduleFails  BY <1>29 DEF RescheduleFails
<1>30. CASE Crash  BY <1>30 DEF Crash
<1>31. CASE ExpireJob  BY <1>31 DEF ExpireJob
<1>32. CASE Restart  BY <1>32 DEF Restart
<1>33. CASE UNCHANGED vars  BY <1>33 DEF vars
<1> QED
  BY <1>1, <1>2, <1>3, <1>4, <1>5, <1>6, <1>7, <1>8, <1>9, <1>10, <1>11, <1>12, <1>13, <1>14,
     <1>15, <1>16, <1>17, <1>18, <1>19, <1>20, <1>21, <1>22, <1>23, <1>24, <1>25, <1>26,
     <1>27, <1>28, <1>29, <1>30, <1>31, <1>32, <1>33
  DEF Next, CommandTurn, HandlerTurn, PassTurn, WorkerFault

\* The first turn is reached by its delivery alone.
LEMMA FirstStep ==
  ASSUME TypeOK, TalkInv, TasksExist, FirstInv, [Next]_vars
  PROVE  FirstInv'
<1> USE FirstIsFirst, NoTurnAssumption
    DEF FirstInv, Fault, Abort, TypeOK, Enqueue, Deliver, CommandStep, Terminal, NoPass, talk, posts, jobs, worker,
        bounds
<1>1. CASE CreateDiscussion  BY <1>1 DEF CreateDiscussion
<1>2. CASE InsertFirstTask  BY <1>2 DEF InsertFirstTask, TasksExist
<1>3. CASE EnqueueFirst  BY <1>3 DEF EnqueueFirst
<1>4. CASE FailFirst  BY <1>4 DEF FailFirst
<1>5. CASE EnqueueFirstFails  BY <1>5 DEF EnqueueFirstFails
<1>6. CASE StopDiscussion  BY <1>6 DEF StopDiscussion
<1>7. ASSUME NEW t \in Turns, FetchJob(t) PROVE FirstInv'  BY <1>7 DEF FetchJob
<1>8. CASE CheckQueued  BY <1>8 DEF CheckQueued
<1>9. CASE CheckDiscussion  BY <1>9 DEF CheckDiscussion
<1>10. CASE SkipTurn  BY <1>10 DEF SkipTurn
<1>11. CASE StartTurn  BY <1>11 DEF StartTurn
<1>12. CASE EndTurn  BY <1>12 DEF EndTurn
<1>13. ASSUME NEW status \in Terminal, CommitTurn(status) PROVE FirstInv'
  BY <1>13, CommitMoves
<1>14. CASE RefuseCommit  BY <1>14 DEF RefuseCommit
<1>15. CASE EnqueueNext
  <2>1. active \in Turns /\ After(active) \in Turns
    BY <1>15 DEF EnqueueNext, TalkInv, ReachedInv
  <2>2. After(active) # First
    BY <2>1, AfterIsNext
  <2> QED  BY <1>15, <2>2 DEF EnqueueNext
<1>16. CASE DropNextLease  BY <1>16 DEF DropNextLease
<1>17. ASSUME NEW t \in Turns, PostTurn(t) PROVE FirstInv'  BY <1>17 DEF PostTurn
<1>18. CASE PostClosing  BY <1>18 DEF PostClosing
<1>19. CASE MarkRendered  BY <1>19 DEF MarkRendered
<1>20. CASE EndRender  BY <1>20 DEF EndRender
<1>21. CASE EndJob  BY <1>21 DEF EndJob
<1>22. ASSUME NEW t \in Turns, LoadLease(t) PROVE FirstInv'  BY <1>22 DEF LoadLease
<1>23. CASE Reschedule  BY <1>23 DEF Reschedule
<1>24. CASE DropLease  BY <1>24 DEF DropLease
<1>25. CASE WatchdogFails  BY <1>25 DEF WatchdogFails
<1>26. CASE CommitFails  BY <1>26 DEF CommitFails
<1>27. CASE EnqueueNextFails  BY <1>27 DEF EnqueueNextFails
<1>28. CASE RenderFails  BY <1>28 DEF RenderFails
<1>29. CASE RescheduleFails  BY <1>29 DEF RescheduleFails
<1>30. CASE Crash  BY <1>30 DEF Crash
<1>31. CASE ExpireJob  BY <1>31 DEF ExpireJob
<1>32. CASE Restart  BY <1>32 DEF Restart
<1>33. CASE UNCHANGED vars  BY <1>33 DEF vars
<1> QED
  BY <1>1, <1>2, <1>3, <1>4, <1>5, <1>6, <1>7, <1>8, <1>9, <1>10, <1>11, <1>12, <1>13, <1>14,
     <1>15, <1>16, <1>17, <1>18, <1>19, <1>20, <1>21, <1>22, <1>23, <1>24, <1>25, <1>26,
     <1>27, <1>28, <1>29, <1>30, <1>31, <1>32, <1>33
  DEF Next, CommandTurn, HandlerTurn, PassTurn, WorkerFault

LEMMA Legal ==
  /\ \A s : Lifecycle!MayBecome(s, s)
  /\ Lifecycle!MayBecome("queued", "running")
  /\ \A s \in {"failed", "cancelled"} : Lifecycle!MayBecome("queued", s)
  /\ \A s \in Terminal : Lifecycle!MayBecome("running", s)
  /\ Lifecycle!MayBecome("running", "queued")
BY DEF Lifecycle!MayBecome, Lifecycle!CanTransition, Lifecycle!Successors, Terminal

\* What may become of the status of t's task.
Obeys(t) ==
  IF task[t] = "absent" THEN task'[t] \in {"absent", "queued"}
                        ELSE Lifecycle!MayBecome(task[t], task'[t])

\* The status of one task is written.
LEMMA OneObeys ==
  ASSUME TypeOK, NEW t \in Turns, NEW s, task[t] # "absent",
         task' = [task EXCEPT ![t] = s], Lifecycle!MayBecome(task[t], s)
  PROVE  \A d \in Turns : Obeys(d)
BY Legal DEF Obeys, TypeOK

\* The transaction ends a running task and queues one that nothing had begun.
LEMMA CommitObeys ==
  ASSUME TypeOK, TalkInv, HandlerInv, NEW status \in Terminal, CommitTurn(status)
  PROVE  \A d \in Turns : Obeys(d)
<1> DEFINE rows  == AppendTurn(active, status)
           tasks == [task EXCEPT ![active] = status]
<1>1. active \in Turns /\ task[active] = "running"
  BY DEF CommitTurn, HandlerInv, TypeOK
<1>2. tasks \in [Turns -> {"absent", "queued", "running"} \cup Terminal]
  BY <1>1 DEF TypeOK
<1>3. task' = tasks \/ \E next \in Turns : /\ tasks[next] \in {"absent", "queued"}
                                          /\ task' = [tasks EXCEPT ![next] = "queued"]
  BY DEF CommitTurn, EndDiscussion, OpenTurn, StayPut
<1>4. \A d \in Turns : tasks[d] = IF d = active THEN status ELSE task[d]
  BY <1>1 DEF TypeOK
<1>5. CASE task' = tasks
  BY <1>1, <1>4, <1>5, Legal DEF Obeys
<1>6. ASSUME NEW next \in Turns, tasks[next] \in {"absent", "queued"},
             task' = [tasks EXCEPT ![next] = "queued"]
      PROVE  \A d \in Turns : Obeys(d)
  <2>1. next # active
    BY <1>4, <1>6 DEF Terminal
  <2>2. \A d \in Turns : task'[d] = IF d = next THEN "queued" ELSE tasks[d]
    BY <1>2, <1>6
  <2> HIDE DEF tasks
  <2> QED  BY <1>1, <1>4, <1>6, <2>1, <2>2, Legal DEF Obeys
<1> QED  BY <1>3, <1>5, <1>6

LEMMA StatusesObey ==
  ASSUME TypeOK, TalkInv, HandlerInv, FirstInv, [Next]_vars
  PROVE  \A d \in Turns : Obeys(d)
<1>1. task' = task => \A d \in Turns : Obeys(d)
  BY Legal DEF Obeys
<1>2. CASE InsertFirstTask
  BY <1>2, FirstIsFirst, Legal DEF InsertFirstTask, Obeys, TypeOK
<1>3. CASE FailFirst
  <2>1. First \in Turns /\ task[First] = "queued" /\ task' = [task EXCEPT ![First] = "failed"]
    BY <1>3, FirstIsFirst DEF FailFirst, Deliver, FirstInv
  <2> QED  BY <2>1, OneObeys, Legal
<1>4. CASE SkipTurn
  <2>1. active \in Turns /\ task[active] = "queued" /\ task' = [task EXCEPT ![active] = "cancelled"]
    BY <1>4 DEF SkipTurn, HandlerInv, TypeOK
  <2> QED  BY <2>1, OneObeys, Legal
<1>5. CASE StartTurn
  <2>1. active \in Turns /\ task[active] = "queued" /\ task' = [task EXCEPT ![active] = "running"]
    BY <1>5 DEF StartTurn, HandlerInv, TypeOK
  <2> QED  BY <2>1, OneObeys, Legal
<1>6. CASE WatchdogFails
  <2>1. active \in Turns /\ task[active] = "running" /\ task' = [task EXCEPT ![active] = "failed"]
    BY <1>6 DEF WatchdogFails, TypeOK
  <2>2. Lifecycle!MayBecome(task[active], "failed")
    BY <2>1, Legal DEF Terminal
  <2> QED  BY <2>1, <2>2, OneObeys
<1>7. ASSUME NEW status \in Terminal, CommitTurn(status) PROVE \A d \in Turns : Obeys(d)
  BY <1>7, CommitObeys
<1>8. CASE Restart
  <2>1. \A d \in Turns : \/ task'[d] = task[d]
                         \/ task[d] = "running" /\ task'[d] = "queued"
    BY <1>8 DEF Restart, TypeOK
  <2>2. ASSUME NEW d \in Turns PROVE Obeys(d)
    <3>1. CASE task'[d] = task[d]  BY <3>1, Legal DEF Obeys
    <3>2. CASE task[d] = "running" /\ task'[d] = "queued"  BY <3>2, Legal DEF Obeys
    <3> QED  BY <2>1, <3>1, <3>2
  <2> QED  BY <2>2
<1>9. CASE \/ CreateDiscussion \/ EnqueueFirst \/ EnqueueFirstFails \/ StopDiscussion
           \/ \E t \in Turns : FetchJob(t) \/ PostTurn(t) \/ LoadLease(t)
           \/ CheckQueued \/ CheckDiscussion \/ EndTurn \/ RefuseCommit \/ EnqueueNext
           \/ DropNextLease \/ PostClosing \/ MarkRendered \/ EndRender \/ EndJob
           \/ Reschedule \/ DropLease \/ CommitFails \/ EnqueueNextFails \/ RenderFails
           \/ RescheduleFails \/ Crash \/ ExpireJob \/ UNCHANGED vars
  BY <1>1, <1>9
  DEF CreateDiscussion, EnqueueFirst, EnqueueFirstFails, StopDiscussion, FetchJob, PostTurn,
      LoadLease, CheckQueued, CheckDiscussion, EndTurn, RefuseCommit, EnqueueNext,
      DropNextLease, PostClosing, MarkRendered, EndRender, EndJob, Reschedule, DropLease,
      CommitFails, EnqueueNextFails, RenderFails, RescheduleFails, Crash, ExpireJob, vars
<1> QED
  BY <1>2, <1>3, <1>4, <1>5, <1>6, <1>7, <1>8, <1>9
  DEF Next, CommandTurn, HandlerTurn, PassTurn, WorkerFault

(***************************************************************************)
(* Theorems                                                                *)
(***************************************************************************)
LEMMA Invariance == Spec => []IInv
<1>1. Init => IInv
  BY Initially
<1>2. IInv /\ [Next]_vars => IInv'
  BY TypeStep, CommandStepKept, TalkStep, ThreadStep, ExistStep, StepStep, LeaseStep, CarryStep,
     HandlerStepKept, FirstStep
  DEF IInv, CarryInv
<1> QED  BY <1>1, <1>2, PTL DEF Spec

\* Every variable of Discussion keeps its type, and a busy handler has a job.
THEOREM TypeCorrect == Spec => []TypeOK
<1>1. IInv => TypeOK
  BY DEF IInv
<1> QED  BY <1>1, Invariance, PTL

\* One agent speaks at a time, in turn (completeDiscussionTaskTurnAndAdvance).
THEOREM AgentsTakeTurns == Spec => []OneSpeaker
<1>1. IInv => OneSpeaker
  BY DEF IInv, TalkInv
<1> QED  BY <1>1, Invariance, PTL

\* The thread shows the turns in their order, each once, and the closing line
\* after the last (renderDiscussionTurnsThrough).
THEOREM ThreadReadsInOrder == Spec => []ThreadInOrder
<1>1. IInv => ThreadInOrder
  BY DEF IInv
<1> QED  BY <1>1, Invariance, PTL

\* Somebody carries the current turn on, or the closing line
\* (deliverDiscussionTurnAdvance, runAdmissionReschedulerOnce).
THEOREM DiscussionGoesOn == Spec => []CarriedOn
<1>1. IInv => CarriedOn
  BY DEF IInv, CarryInv
<1> QED  BY <1>1, Invariance, PTL

\* The statuses of turn tasks, written past transitionTask, follow the state
\* machine (task-state-machine.ts, completeDiscussionTaskTurnAndAdvance).
THEOREM StatusesFollow == Spec => FollowsLifecycle
<1>1. IInv /\ [Next]_vars =>
        (\A t \in Turns :
           IF task[t] = "absent" THEN task'[t] \in {"absent", "queued"}
                                 ELSE Lifecycle!MayBecome(task[t], task'[t]))
  BY StatusesObey DEF IInv, Obeys
<1> QED  BY <1>1, Invariance, PTL DEF Spec, FollowsLifecycle

\* Stop means stop (handleDiscussionInterruptIfNeeded, and the check for the
\* status in advanceDiscussionInTransaction).
THEOREM Stops == Spec => StopIsFinal
<1>1. [Next]_vars => [Stopped => /\ UNCHANGED <<dstatus, position>>
                                 /\ at' = "starting" => at = "starting"]_vars
  <2> SUFFICES ASSUME Next, Stopped
               PROVE  /\ UNCHANGED <<dstatus, position>>
                      /\ at' = "starting" => at = "starting"
    OBVIOUS
  <2> USE DEF Stopped, talk, worker
  <2>1. CASE CommandTurn \/ EnqueueFirstFails \/ StopDiscussion
    BY <2>1 DEF CommandTurn, CreateDiscussion, InsertFirstTask, EnqueueFirst, FailFirst,
                EnqueueFirstFails, StopDiscussion
  <2>2. CASE \E status \in Terminal : CommitTurn(status)
    BY <2>2 DEF CommitTurn, EndDiscussion, OpenTurn, StayPut, Waits
  <2>3. CASE HandlerTurn /\ ~(\E status \in Terminal : CommitTurn(status))
    BY <2>3 DEF HandlerTurn, FetchJob, CheckQueued, CheckDiscussion, SkipTurn, StartTurn, EndTurn,
                RefuseCommit, EnqueueNext, DropNextLease, PostTurn, PostClosing, MarkRendered,
                EndRender, EndJob
  <2>4. CASE PassTurn \/ WorkerFault
    BY <2>4 DEF PassTurn, LoadLease, Reschedule, DropLease, WorkerFault, WatchdogFails,
                CommitFails, EnqueueNextFails, RenderFails, RescheduleFails, Crash
  <2>5. CASE ExpireJob \/ Restart
    BY <2>5 DEF ExpireJob, Restart
  <2> QED  BY <2>1, <2>2, <2>3, <2>4, <2>5 DEF Next
<1> QED  BY <1>1, PTL DEF Spec, StopIsFinal

=============================================================================
