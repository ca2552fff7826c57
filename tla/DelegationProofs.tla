--------------------------- MODULE DelegationProofs ---------------------------
(***************************************************************************)
(* Proofs about Delegation: its types, the budgets of the tree, what the   *)
(* edges tell, that a parent rests while a child works, that each of its   *)
(* resumptions is new, that no task is left without somebody to bring it   *)
(* to its turn and that the statuses follow the state machine, for any set *)
(* of agents, any budgets and any bound on the faults.                     *)
(***************************************************************************)
EXTENDS Delegation, SequenceTheorems, FiniteSetTheorems, TLAPS

(***************************************************************************)
(* Tasks are chains of agents                                              *)
(***************************************************************************)
LEMMA TaskIsChain ==
  ASSUME NEW t \in Tasks
  PROVE  /\ t \in Seq(Agents) /\ Len(t) \in 1..MaxDepth + 1
         /\ t \in [1..Len(t) -> Agents]
         /\ t[1] = RootAgent /\ \A i, j \in 1..Len(t) : t[i] = t[j] => i = j
<1>1. PICK n \in 1..MaxDepth + 1 : t \in [1..n -> Agents]
  BY DEF Tasks
<1>2. n \in Nat
  BY <1>1, DelegationAssumption
<1>3. t \in Seq(Agents)
  BY <1>1, <1>2, IsASeq
<1>4. Len(t) = n
  BY <1>1, <1>2, <1>3, LenProperties
<1> QED  BY <1>1, <1>2, <1>3, <1>4 DEF Tasks

LEMMA RootIsTask == Root \in Tasks /\ ~IsChild(Root)
<1>1. /\ Root \in [1..1 -> Agents] /\ Len(Root) = 1 /\ Root[1] = RootAgent
      /\ 1 \in 1..MaxDepth + 1
  BY DelegationAssumption DEF Root
<1> QED  BY <1>1 DEF Tasks, IsChild

LEMMA ChildIsTask ==
  ASSUME NEW t \in Tasks, NEW a \in Agents, Depth(t) < MaxDepth, \A i \in 1..Len(t) : t[i] # a
  PROVE  /\ Append(t, a) \in Tasks /\ IsChild(Append(t, a))
         /\ Parent(Append(t, a)) = t /\ Append(t, a) # t
<1> DEFINE c == Append(t, a)
<1>1. /\ t \in Seq(Agents) /\ Len(t) \in 1..MaxDepth + 1 /\ MaxDepth \in Nat
      /\ t[1] = RootAgent /\ \A i, j \in 1..Len(t) : t[i] = t[j] => i = j
  BY TaskIsChain, DelegationAssumption
<1>2. /\ c \in Seq(Agents) /\ Len(c) = Len(t) + 1
      /\ \A i \in 1..Len(t) : c[i] = t[i]
      /\ c[Len(t) + 1] = a
  BY <1>1, AppendProperties
<1>3. c \in [1..Len(t) + 1 -> Agents] /\ Len(t) + 1 \in 1..MaxDepth + 1
  <2>1. c \in [1..Len(c) -> Agents]
    BY ONLY <1>2, LenProperties
  <2>2. Len(t) + 1 \in 1..MaxDepth + 1
    BY <1>1 DEF Depth
  <2> QED  BY ONLY <1>2, <2>1, <2>2
<1>4. c[1] = RootAgent /\ \A i, j \in 1..Len(c) : c[i] = c[j] => i = j
  <2>1. 1 \in 1..Len(t)
    BY <1>1
  <2>2. \A i \in 1..Len(c) : i \in 1..Len(t) \/ i = Len(t) + 1
    BY <1>1, <1>2
  <2> QED  BY <1>1, <1>2, <2>1, <2>2
<1>5. c \in Tasks
  BY <1>3, <1>4 DEF Tasks
<1>6. SubSeq(c, 1, Len(t)) = t
  <2>1. Len(t) \in Nat /\ \A i \in 1..Len(t) : c[i] \in Agents
    BY <1>1, <1>2, ElementOfSeq
  <2>2. /\ SubSeq(c, 1, Len(t)) \in Seq(Agents) /\ Len(SubSeq(c, 1, Len(t))) = Len(t)
        /\ \A i \in 1..Len(t) : SubSeq(c, 1, Len(t))[i] = c[i]
    BY <1>1, <2>1, SubSeqProperties
  <2> QED  BY <1>1, <1>2, <2>2, SeqEqual
<1>7. Len(c) - 1 = Len(t) /\ Len(c) > 1 /\ Len(c) # Len(t)
  BY <1>1, <1>2
<1> QED  BY <1>5, <1>6, <1>7 DEF IsChild, Parent

LEMMA ParentIsTask ==
  ASSUME NEW c \in Tasks, IsChild(c)
  PROVE  Parent(c) \in Tasks /\ Parent(c) # c
<1>1. /\ c \in Seq(Agents) /\ Len(c) \in 2..MaxDepth + 1 /\ MaxDepth \in Nat
      /\ c \in [1..Len(c) -> Agents]
      /\ c[1] = RootAgent /\ \A i, j \in 1..Len(c) : c[i] = c[j] => i = j
  BY TaskIsChain, DelegationAssumption DEF IsChild
<1> DEFINE n == Len(c) - 1
           p == SubSeq(c, 1, n)
<1>2. n \in 1..MaxDepth + 1 /\ n + 1 = Len(c) /\ n \in Nat
  BY <1>1
<1>3. /\ p \in Seq(Agents) /\ Len(p) = n /\ \A i \in 1..n : p[i] = c[i]
  <2>1. \A i \in 1..n : c[i] \in Agents
    BY <1>1, <1>2
  <2> QED  BY <1>2, <2>1, SubSeqProperties
<1>4. p \in [1..n -> Agents]
  BY <1>3, LenProperties
<1>5. p[1] = RootAgent /\ \A i, j \in 1..Len(p) : p[i] = p[j] => i = j
  BY <1>1, <1>2, <1>3
<1>6. p \in Tasks
  BY <1>2, <1>4, <1>5 DEF Tasks
<1>7. Parent(c) = p
  BY DEF Parent
<1> HIDE DEF p
<1>8. p # c
  BY <1>1, <1>2, <1>3
<1> QED  BY <1>6, <1>7, <1>8

(***************************************************************************)
(* The inductive invariant                                                 *)
(***************************************************************************)
\* A handler has a job; a handoff under way names a task, and a turn that
\* hands over in mode "chain" is not over.
HandlerInv ==
  \A t \in Tasks :
    /\ at[t] # "idle" => \E j \in active : j[1] = t
    /\ at[t] \in {"handoff", "unlease"} =>
         Callee(t) \in Tasks /\ (call[t].mode = "chain" => status[t] = "running")

\* The reconciler closes edges of children that have ended.
PassInv == pass.step = "edges" => \A c \in pass.todo : IsChild(c) /\ Terminal(c)

TypeInv == TypeOK /\ HandlerInv /\ PassInv

\* A task that may run, or runs, has no unfinished children; one that does not
\* exist has none at all.
FamilyInv ==
  \A p \in Tasks :
    /\ status[p] = "queued" \/ at[p] = "turn" => \A c \in Children(p) : Terminal(c)
    /\ status[p] = "absent" => Children(p) = {}

TreeInv == IsFiniteSet(Edges) /\ Budgets /\ EdgesTellOutcome /\ FamilyInv

\* Jobs, leases and wakes report children the task has, and no more than its
\* last resumption did; a parent waits for a child it was not told of.
KeyInv ==
  /\ \A j \in created \cup active \cup lease \cup pass.due :
       status[j[1]] # "absent" /\ j[2] \subseteq resume[j[1]]
  /\ \A t \in Tasks :
       /\ resume[t] \subseteq Callees(t)
       /\ status[t] = "waiting_delegation" => resume[t] # Callees(t)
       /\ at[t] \in {"waking", "unleaseParent"} =>
            resume[Parent(t)] # {} /\ wake[t] \subseteq resume[Parent(t)]
  /\ pass.step \in {"unlease", "waking", "unleaseParent"} => status[pass.task] # "absent"
  /\ pass.step \in {"waking", "unleaseParent"} => resume[pass.task] # {}

\* The job of the last resumption is not fetched before its task is queued.
GuardInv ==
  \A t \in Tasks : status[t] = "queued" /\ <<t, resume[t]>> \in active => at[t] = "guard"

\* The root is woken once.
RootInv ==
  /\ \A l \in lease \cup pass.due : l[1] = Root => woken /\ l[2] = resume[Root]
  /\ \A t \in Tasks :
       at[t] \in {"waking", "unleaseParent"} /\ Parent(t) = Root =>
         woken /\ (at[t] = "waking" => wake[t] = resume[Root])
  /\ pass.step \in {"unlease", "waking", "unleaseParent"} /\ pass.task = Root => woken

\* A turn that finds children was resumed, and so was one that does not wait for
\* the child it handed over to.
TurnInv ==
  \A t \in Tasks :
    /\ status[t] = "queued" \/ at[t] = "turn" => (Children(t) # {} => resume[t] # {})
    /\ at[t] \in {"handoff", "unlease"} /\ call[t].mode = "return" /\ status[t] = "running" =>
         resume[t] # {}
    /\ status[t] = "running" =>
         at[t] \in {"turn", "handoff", "unlease", "succeeding", "failing"} \/ resume[t] # {}

\* Who is about to drop a lease of t.
Dropping(t) ==
  \/ \E p \in Tasks : at[p] = "unlease" /\ Callee(p) = t
  \/ \E c \in Tasks : at[c] = "unleaseParent" /\ Parent(c) = t
  \/ pass.step \in {"unlease", "unleaseParent"} /\ pass.task = t

\* While no call fails a queued task has a job or is being enqueued.
EnqueuedInv ==
  faults = 0 => \A t \in Tasks : status[t] = "queued" => HasJob(t) \/ BeingEnqueued(t)

\* In its first run, or as the root, a queued task keeps its lease until it has a
\* job, whatever fails.
FirstRun(t) == resume[t] = {} \/ t = Root

LeasedInv ==
  \A t \in Tasks : status[t] = "queued" /\ FirstRun(t) =>
    /\ HasJob(t) \/ Leased(t)
    /\ Dropping(t) => HasJob(t)

IInv ==
  /\ TypeInv /\ TreeInv /\ KeyInv /\ GuardInv /\ RootInv /\ TurnInv
  /\ EnqueuedInv /\ LeasedInv

LEMMA Initially == Init => IInv
<1> SUFFICES ASSUME Init PROVE IInv
  OBVIOUS
<1>1. /\ \A t \in Tasks : edge[t] = "none" /\ at[t] = "idle" /\ call[t] = NoCall
      /\ \A t \in Tasks : status[t] = IF t = Root THEN "queued" ELSE "absent"
      /\ used = 0 /\ active = {} /\ pass = NoPass
  BY DEF Init
<1>2. TypeOK
  <2>1. /\ status \in [Tasks -> {"absent", "queued", "running", "waiting_delegation"}
                                \cup TerminalStatus]
        /\ edge \in [Tasks -> {"none", "pending"} \cup TerminalEdge]
        /\ resume \in [Tasks -> SUBSET Agents] /\ wake \in [Tasks -> SUBSET Agents]
        /\ at \in [Tasks -> HandlerStep]
        /\ call \in [Tasks -> [to : Agents \cup {NoAgent}, mode : Modes \cup {"none"}]]
    BY DEF Init, HandlerStep, NoCall
  <2>2. woken \in BOOLEAN
    BY Zenon DEF Init
  <2>3. created \subseteq Jobs /\ active \subseteq Jobs /\ lease \subseteq Jobs
    BY RootIsTask DEF Init, Jobs, Run
  <2>4. used \in Nat /\ faults \in 0..MaxFaults
    BY DelegationAssumption DEF Init
  <2>5. pass \in [step : PassStep, task : Tasks, due : SUBSET Jobs, todo : SUBSET Tasks]
    BY RootIsTask DEF Init, NoPass, PassStep
  <2>6. \A t \in Tasks : (edge[t] # "none" <=> IsChild(t) /\ status[t] # "absent")
    BY <1>1, RootIsTask
  <2> QED  BY <1>1, <2>1, <2>2, <2>3, <2>4, <2>5, <2>6 DEF TypeOK
<1>3. HandlerInv /\ PassInv
  BY <1>1 DEF HandlerInv, PassInv, NoPass
<1>4. Edges = {} /\ \A p \in Tasks : Children(p) = {}
  BY <1>1 DEF Edges, Children
<1>5. IsFiniteSet(Edges) /\ Cardinality(Edges) = 0 /\ Cardinality({}) = 0
  BY <1>4, FS_EmptySet
<1>6. Budgets
  BY <1>1, <1>4, <1>5, DelegationAssumption DEF Budgets
<1>7. EdgesTellOutcome /\ FamilyInv
  BY <1>1, <1>4 DEF EdgesTellOutcome, FamilyInv, TerminalEdge
<1>8. /\ created = {Run(Root)} /\ lease = {} /\ pass.due = {} /\ pass.step = "idle"
      /\ \A t \in Tasks : resume[t] = {} /\ Callees(t) = {}
  BY <1>4 DEF Init, NoPass, Callees
<1>9. KeyInv /\ GuardInv /\ RootInv /\ TurnInv
  BY <1>1, <1>4, <1>8, RootIsTask DEF KeyInv, GuardInv, RootInv, TurnInv, Run
<1>10. EnqueuedInv /\ LeasedInv
  <2>1. HasJob(Root)
    BY <1>8 DEF HasJob, Run
  <2> QED  BY <1>1, <2>1 DEF EnqueuedInv, LeasedInv
<1> QED  BY <1>2, <1>3, <1>5, <1>6, <1>7, <1>9, <1>10 DEF IInv, TypeInv, TreeInv

(***************************************************************************)
(* Types, one step for each action                                         *)
(***************************************************************************)
LEMMA JobFields ==
  /\ \A j \in Jobs : j[1] \in Tasks
  /\ \A t \in Tasks, r \in SUBSET Agents : <<t, r>> \in Jobs /\ Run(t) \in Jobs
BY DEF Jobs, Run

LEMMA AgentOfTask == \A t \in Tasks : Agent(t) \in Agents /\ Callees(t) \subseteq Agents
<1>1. \A t \in Tasks : Agent(t) \in Agents
  BY TaskIsChain DEF Agent
<1> QED  BY <1>1 DEF Callees, Children

\* The barrier names a parent that waits.
LEMMA WakeMoves ==
  ASSUME TypeOK, NEW p \in Tasks, WakeParent(p)
  PROVE  /\ status[p] = "waiting_delegation" /\ status' = [status EXCEPT ![p] = "queued"]
         /\ woken' \in BOOLEAN /\ resume' \in [Tasks -> SUBSET Agents] /\ lease' \subseteq Jobs
         /\ UNCHANGED <<edge, used, created, active>>
<1>1. woken' \in BOOLEAN
  BY Zenon DEF WakeParent, TypeOK
<1>2. resume' \in [Tasks -> SUBSET Agents] /\ lease' \subseteq Jobs
  BY AgentOfTask, JobFields DEF WakeParent, TypeOK, LeasesOf
<1> QED  BY <1>1, <1>2 DEF WakeParent, BarrierOpen, jobs

LEMMA TypeStep ==
  ASSUME TypeInv, [Next]_vars
  PROVE  TypeInv'
<1> USE RootIsTask, JobFields, ParentIsTask, DelegationAssumption
    DEF TypeInv, TypeOK, HandlerInv, PassInv, Goto, Enqueue, Fault, Terminal, TerminalStatus,
        TerminalEdge, Callee, LeasesOf, HandlerStep, PassStep, NoCall, NoPass, Step, Leases, Modes,
        rows, jobs, queue, turn
<1>1. ASSUME NEW j \in created, FetchJob(j) PROVE TypeInv'
  BY <1>1 DEF FetchJob
<1>2. ASSUME NEW t \in Tasks, StartTurn(t) PROVE TypeInv'
  BY <1>2 DEF StartTurn
<1>3. ASSUME NEW t \in Tasks, SkipTurn(t) PROVE TypeInv'
  BY <1>3 DEF SkipTurn
<1>4. ASSUME NEW t \in Tasks, EndTurn(t) PROVE TypeInv'
  BY <1>4 DEF EndTurn
<1>5. ASSUME NEW t \in Tasks, WatchdogFails(t) PROVE TypeInv'
  BY <1>5 DEF WatchdogFails
<1>6. ASSUME NEW t \in Tasks, NEW a \in Agents, NEW mode \in Modes, CreateChild(t, a, mode)
      PROVE  TypeInv'
  <2> DEFINE c == Append(t, a)
  <2>1. c \in Tasks /\ IsChild(c) /\ Parent(c) = t /\ c # t
    BY <1>6, ChildIsTask DEF CreateChild, MayDelegate
  <2> HIDE DEF c
  <2>2. /\ at[t] = "turn" /\ status[t] = "running" /\ status[c] = "absent" /\ Depth(t) < MaxDepth
        /\ status' = [status EXCEPT ![c] = "queued",
                                    ![t] = IF mode = "return" THEN "waiting_delegation" ELSE @]
        /\ edge' = [edge EXCEPT ![c] = "pending"] /\ used' = used + 1
        /\ lease' = lease \cup {Run(c)}
        /\ call' = [call EXCEPT ![t] = [to |-> a, mode |-> mode]]
        /\ at' = [at EXCEPT ![t] = "handoff"]
        /\ UNCHANGED <<woken, resume, jobs, wake, pass, faults>>
    <3>1. status[t] = "running"
      BY <1>6 DEF CreateChild
    <3> QED  BY ONLY <1>6, <3>1 DEF CreateChild, MayDelegate, Goto, c
  <2>3. call'[t].to = a /\ call'[t].mode = mode /\ Append(t, call'[t].to) = c
    BY <2>2 DEF c
  <2>4. \A d \in Tasks : Terminal(d) => Terminal(d)'
    BY <2>1, <2>2
  <2>5. \A d \in Tasks \ {t, c} :
          /\ status'[d] = status[d] /\ edge'[d] = edge[d] /\ at'[d] = at[d] /\ call'[d] = call[d]
    BY <2>2
  <2>6. /\ status'[c] = "queued" /\ edge'[c] = "pending" /\ at'[c] = at[c] /\ call'[c] = call[c]
        /\ at'[t] = "handoff" /\ edge'[t] = edge[t]
        /\ status'[t] = IF mode = "return" THEN "waiting_delegation" ELSE "running"
    BY <2>1, <2>2
  <2>7. /\ status' \in [Tasks -> {"absent", "queued", "running", "waiting_delegation"}
                                \cup TerminalStatus]
        /\ edge' \in [Tasks -> {"none", "pending"} \cup TerminalEdge]
        /\ at' \in [Tasks -> HandlerStep] /\ lease' \subseteq Jobs /\ used' \in Nat
        /\ call' \in [Tasks -> [to : Agents \cup {NoAgent}, mode : Modes \cup {"none"}]]
    <3>1. /\ status' \in [Tasks -> {"absent", "queued", "running", "waiting_delegation"}
                                  \cup TerminalStatus]
          /\ edge' \in [Tasks -> {"none", "pending"} \cup TerminalEdge]
          /\ at' \in [Tasks -> HandlerStep] /\ used' \in Nat
      BY <2>1, <2>2
    <3>2. lease' \subseteq Jobs
      <4>1. Run(c) \in Jobs
        BY ONLY <2>1, JobFields
      <4>2. lease \subseteq Jobs
        OBVIOUS
      <4> QED  BY ONLY <2>2, <4>1, <4>2
    <3>3. [to |-> a, mode |-> mode] \in [to : Agents \cup {NoAgent}, mode : Modes \cup {"none"}]
      OBVIOUS
    <3>4. call' \in [Tasks -> [to : Agents \cup {NoAgent}, mode : Modes \cup {"none"}]]
      BY ONLY <2>2, <3>3, TypeInv DEF TypeInv, TypeOK
    <3> QED  BY ONLY <3>1, <3>2, <3>4
  <2>8. \A d \in Tasks : edge'[d] # "none" <=> IsChild(d) /\ status'[d] # "absent"
    BY <2>1, <2>2, <2>5, <2>6
  <2>9. \A d \in Tasks : edge[d] # "none" => edge'[d] # "none"
    BY <2>5, <2>6
  <2>10. \A d \in Tasks :
           IF at'[d] \in {"handoff", "unlease"}
             THEN /\ call'[d].to \in Agents /\ call'[d].mode \in Modes
                  /\ Depth(d) < MaxDepth /\ edge'[Append(d, call'[d].to)] # "none"
             ELSE call'[d] = NoCall
    <3>1. ASSUME NEW d \in Tasks \ {t}
          PROVE  IF at[d] \in {"handoff", "unlease"}
                   THEN /\ call[d].to \in Agents /\ call[d].mode \in Modes
                        /\ Depth(d) < MaxDepth /\ edge'[Append(d, call[d].to)] # "none"
                   ELSE call[d] = NoCall
      BY <2>9, <3>1
    <3>2. \A d \in Tasks \ {t} : at'[d] = at[d] /\ call'[d] = call[d]
      BY <2>5, <2>6
    <3>3. edge'[Append(t, call'[t].to)] # "none"
      BY <2>3, <2>6
    <3> QED  BY ONLY <2>2, <2>3, <2>6, <3>1, <3>2, <3>3
  <2>11. \A d \in Tasks :
           /\ at'[d] \in {"hook", "marking", "barrier", "waking", "unleaseParent"} =>
                IsChild(d) /\ status'[d] \in TerminalStatus
           /\ at'[d] \in {"turn", "succeeding", "failing"} => status'[d] = "running"
    BY <2>2, <2>4, <2>5, <2>6
  <2>12. TypeOK'
    <3>1. /\ woken' \in BOOLEAN /\ resume' \in [Tasks -> SUBSET Agents]
          /\ created' \subseteq Jobs /\ active' \subseteq Jobs
          /\ wake' \in [Tasks -> SUBSET Agents] /\ faults' \in 0..MaxFaults
          /\ pass' \in [step : PassStep, task : Tasks, due : SUBSET Jobs, todo : SUBSET Tasks]
      BY <2>2
    <3> QED  BY ONLY <2>7, <2>8, <2>10, <2>11, <3>1 DEF TypeOK, Terminal, Callee
  <2>13. HandlerInv'
    <3>1. \A d \in Tasks \ {t} : at'[d] = at[d] /\ call'[d] = call[d]
      BY <2>5, <2>6
    <3>2. \A d \in Tasks \ {t} : status[d] = "running" => status'[d] = "running"
      BY <2>2, <2>5
    <3>3. ASSUME NEW d \in Tasks
          PROVE  /\ at'[d] # "idle" => \E j \in active' : j[1] = d
                 /\ at'[d] \in {"handoff", "unlease"} =>
                      /\ Append(d, call'[d].to) \in Tasks
                      /\ call'[d].mode = "chain" => status'[d] = "running"
      <4>1. active' = active
        BY ONLY <2>2 DEF jobs
      <4>2. CASE d = t
        <5>1. \E j \in active : j[1] = t
          BY ONLY <2>2, TypeInv DEF TypeInv, HandlerInv
        <5> QED  BY ONLY <2>1, <2>3, <2>6, <4>1, <4>2, <5>1
      <4>3. CASE d # t
        <5>1. /\ at[d] # "idle" => \E j \in active : j[1] = d
              /\ at[d] \in {"handoff", "unlease"} =>
                   /\ Append(d, call[d].to) \in Tasks
                   /\ call[d].mode = "chain" => status[d] = "running"
          BY ONLY TypeInv DEF TypeInv, HandlerInv, Callee
        <5> QED  BY ONLY <3>1, <3>2, <4>1, <4>3, <5>1
      <4> QED  BY <4>2, <4>3
    <3> QED  BY ONLY <3>3 DEF HandlerInv, Callee
  <2>14. PassInv'
    BY <2>2, <2>4
  <2> QED  BY <2>12, <2>13, <2>14
<1>7. ASSUME NEW t \in Tasks, NEW a \in Agents, NEW mode \in Modes, ReuseChild(t, a, mode)
      PROVE  TypeInv'
  <2>1. Append(t, a) \in Tasks /\ IsChild(Append(t, a))
    BY <1>7, ChildIsTask DEF ReuseChild, MayDelegate
  <2>2. Depth(t) < MaxDepth /\ edge[Append(t, a)] # "none"
    BY <1>7, <2>1 DEF ReuseChild, MayDelegate
  <2> QED  BY <1>7, <2>1, <2>2 DEF ReuseChild
<1>8. ASSUME NEW t \in Tasks, NEW a \in Agents, RefuseChild(t, a) PROVE TypeInv'
  BY <1>8 DEF RefuseChild
<1>9. ASSUME NEW t \in Tasks, EnqueueChild(t) PROVE TypeInv'
  <2> DEFINE k == <<Callee(t), resume[Callee(t)]>>
  <2>1. k \in Jobs
    BY <1>9 DEF EnqueueChild
  <2> HIDE DEF k
  <2>2. /\ created' \in {created, created \cup {k}} /\ at' = [at EXCEPT ![t] = "unlease"]
        /\ at[t] = "handoff" /\ UNCHANGED <<active, rows, lease, turn, pass, faults>>
    BY ONLY <1>9 DEF EnqueueChild, Enqueue, Goto, k
  <2> QED  BY <2>1, <2>2
<1>10. ASSUME NEW t \in Tasks, DropChildLease(t) PROVE TypeInv'
  BY <1>10 DEF DropChildLease, HandedOff
<1>11. ASSUME NEW t \in Tasks, HandoffFails(t) PROVE TypeInv'
  BY <1>11 DEF HandoffFails, HandedOff
<1>12. ASSUME NEW t \in Tasks, FinishTask(t) PROVE TypeInv'
  BY <1>12 DEF FinishTask, Outcome
<1>13. ASSUME NEW t \in Tasks, ReadEdge(t) PROVE TypeInv'
  BY <1>13 DEF ReadEdge
<1>14. ASSUME NEW t \in Tasks, WriteEdge(t) PROVE TypeInv'
  BY <1>14 DEF WriteEdge
<1>15. ASSUME NEW t \in Tasks, EvaluateBarrier(t) PROVE TypeInv'
  <2>1. IsChild(t) /\ Parent(t) \in Tasks
    BY <1>15 DEF EvaluateBarrier
  <2> DEFINE p == Parent(t)
             w == Callees(p)
  <2>2. p \in Tasks /\ w \subseteq Agents /\ at[t] = "barrier" /\ UNCHANGED <<call, pass, faults>>
    BY <1>15, <2>1, AgentOfTask DEF EvaluateBarrier
  <2>3. \/ WakeParent(p) /\ wake' = [wake EXCEPT ![t] = w] /\ at' = [at EXCEPT ![t] = "waking"]
        \/ UNCHANGED <<rows, queue, wake>> /\ at' = [at EXCEPT ![t] = "closing"]
    BY ONLY <1>15 DEF EvaluateBarrier, Goto
  <2> HIDE DEF p, w
  <2>4. CASE WakeParent(p) /\ wake' = [wake EXCEPT ![t] = w] /\ at' = [at EXCEPT ![t] = "waking"]
    <3>1. /\ status[p] = "waiting_delegation" /\ status' = [status EXCEPT ![p] = "queued"]
          /\ woken' \in BOOLEAN /\ resume' \in [Tasks -> SUBSET Agents] /\ lease' \subseteq Jobs
          /\ UNCHANGED <<edge, used, created, active>>
      BY <2>2, <2>4, WakeMoves
    <3>2. \A d \in Tasks : Terminal(d) => Terminal(d)'
      BY <2>2, <3>1
    <3> QED  BY <2>2, <2>4, <3>1, <3>2
  <2>5. CASE UNCHANGED <<rows, queue, wake>> /\ at' = [at EXCEPT ![t] = "closing"]
    BY <2>2, <2>5
  <2> QED  BY <2>3, <2>4, <2>5
<1>16. ASSUME NEW t \in Tasks, EnqueueParent(t) PROVE TypeInv'
  BY <1>16 DEF EnqueueParent
<1>17. ASSUME NEW t \in Tasks, DropParentLease(t) PROVE TypeInv'
  BY <1>17 DEF DropParentLease
<1>18. ASSUME NEW t \in Tasks, HookFails(t) PROVE TypeInv'
  BY <1>18 DEF HookFails
<1>19. ASSUME NEW t \in Tasks, EndJob(t) PROVE TypeInv'
  <2>1. /\ active' = {j \in active : j[1] # t} /\ at' = [at EXCEPT ![t] = "idle"]
        /\ wake' = [wake EXCEPT ![t] = {}]
        /\ at[t] = "closing" /\ UNCHANGED <<rows, created, lease, call, pass, faults>>
    BY ONLY <1>19 DEF EndJob, Goto
  <2>2. wake' \in [Tasks -> SUBSET Agents] /\ active' \subseteq Jobs
    BY <2>1
  <2>3. \A d \in Tasks : at'[d] # "idle" => \E j \in active' : j[1] = d
    BY <2>1
  <2> QED  BY <2>1, <2>2, <2>3
<1>20. CASE BeginPass
  BY <1>20 DEF BeginPass
<1>21. ASSUME NEW j \in pass.due, Reschedule(j) PROVE TypeInv'
  BY <1>21 DEF Reschedule
<1>22. CASE DropLease
  BY <1>22 DEF DropLease
<1>23. CASE ListEndedChildren
  BY <1>23 DEF ListEndedChildren, Ended
<1>24. ASSUME NEW t \in Tasks, ReconcileEdge(t) PROVE TypeInv'
  BY <1>24 DEF ReconcileEdge
<1>25. CASE ListReadyBarriers
  BY <1>25 DEF ListReadyBarriers, Ready
<1>26. ASSUME NEW t \in Tasks, ReconcileBarrier(t) PROVE TypeInv'
  <2>1. CASE WakeParent(t) /\ Step("waking", t, pass.todo \ {t})
    BY <1>26, <2>1, WakeMoves DEF ReconcileBarrier
  <2>2. CASE UNCHANGED <<rows, queue>>
    BY <1>26, <2>2 DEF ReconcileBarrier
  <2> QED  BY <1>26, <2>1, <2>2 DEF ReconcileBarrier
<1>27. CASE PassEnqueuesParent
  BY <1>27 DEF PassEnqueuesParent
<1>28. CASE PassDropsParentLease
  BY <1>28 DEF PassDropsParentLease
<1>29. CASE EndPass
  BY <1>29 DEF EndPass
<1>30. CASE PassFails
  BY <1>30 DEF PassFails
<1>31. CASE UNCHANGED vars
  BY <1>31 DEF vars
<1> HIDE DEF TypeInv, TypeOK, HandlerInv, PassInv, Goto, Enqueue, Fault, Terminal,
             TerminalStatus, TerminalEdge, Callee, LeasesOf, HandlerStep, PassStep, NoCall,
             NoPass, Step, Leases, Modes, rows, jobs, queue, turn
<1> QED
  BY <1>1, <1>2, <1>3, <1>4, <1>5, <1>6, <1>7, <1>8, <1>9, <1>10, <1>11, <1>12, <1>13, <1>14,
     <1>15, <1>16, <1>17, <1>18, <1>19, <1>20, <1>21, <1>22, <1>23, <1>24, <1>25, <1>26,
     <1>27, <1>28, <1>29, <1>30, <1>31
  DEF Next, HandlerTurn, PassTurn

(***************************************************************************)
(* The tree                                                                *)
(***************************************************************************)
LEMMA ChildrenAreEdges ==
  \A p : Children(p) \subseteq Edges /\ Children(p) \subseteq Tasks
BY DEF Children, Edges

\* Nothing but a handler's step changes.
LEMMA StillTree ==
  ASSUME TreeInv, UNCHANGED <<status, edge, used>>,
         \A p \in Tasks : at'[p] = "turn" => at[p] = "turn"
  PROVE  TreeInv'
BY DEF TreeInv, Budgets, EdgesTellOutcome, FamilyInv, Edges, Children, Terminal

\* A task that exists and is not over goes to another status.
LEMMA StatusMoves ==
  ASSUME TypeOK, TreeInv, NEW t \in Tasks, NEW s, s # "absent",
         status[t] # "absent", ~Terminal(t),
         status' = [status EXCEPT ![t] = s], UNCHANGED <<edge, used>>,
         \A p \in Tasks : at'[p] = "turn" => at[p] = "turn" \/ p = t,
         s = "queued" \/ at'[t] = "turn" => \A c \in Children(t) : Terminal(c)
  PROVE  TreeInv'
<1>1. Edges' = Edges /\ \A p \in Tasks : Children(p)' = Children(p)
  BY DEF Edges, Children
<1>2. \A c \in Tasks : Terminal(c) => Terminal(c)' /\ status'[c] = status[c]
  BY DEF Terminal, TypeOK
<1>3. EdgesTellOutcome'
  BY <1>2 DEF TreeInv, EdgesTellOutcome, Terminal, TerminalEdge, TerminalStatus
<1>4. FamilyInv'
  BY <1>1, <1>2, ChildrenAreEdges DEF TreeInv, FamilyInv, TypeOK
<1> QED  BY <1>1, <1>3, <1>4 DEF TreeInv, Budgets

\* The edge of a child that has ended is written.
LEMMA EdgeMoves ==
  ASSUME TypeOK, TreeInv, NEW c \in Tasks, edge[c] # "none", Terminal(c),
         edge' = [edge EXCEPT ![c] = status[c]], UNCHANGED <<status, used>>,
         \A p \in Tasks : at'[p] = "turn" => at[p] = "turn"
  PROVE  TreeInv'
<1>1. \A d \in Tasks : edge[d] # "none" <=> edge'[d] # "none"
  BY DEF Terminal, TerminalStatus, TypeOK
<1>2. Edges' = Edges /\ \A p \in Tasks : Children(p)' = Children(p)
  BY <1>1 DEF Edges, Children
<1>3. EdgesTellOutcome'
  BY DEF TreeInv, EdgesTellOutcome, TypeOK
<1>4. FamilyInv'
  BY <1>2 DEF TreeInv, FamilyInv, Terminal
<1> QED  BY <1>2, <1>3, <1>4 DEF TreeInv, Budgets

\* createDelegatedTask pays for the edge it adds.
LEMMA TreeGrows ==
  ASSUME TypeOK, TreeInv, NEW t \in Tasks, NEW a \in Agents, NEW mode \in Modes,
         CreateChild(t, a, mode)
  PROVE  TreeInv'
<1> DEFINE c == Append(t, a)
<1>1. c \in Tasks /\ IsChild(c) /\ Parent(c) = t /\ c # t
  BY ChildIsTask DEF CreateChild, MayDelegate
<1> HIDE DEF c
<1>2. /\ at[t] = "turn" /\ status[c] = "absent" /\ WithinBudget(t)
      /\ status' = [status EXCEPT ![c] = "queued",
                                  ![t] = IF mode = "return" THEN "waiting_delegation" ELSE @]
      /\ edge' = [edge EXCEPT ![c] = "pending"] /\ used' = used + 1
      /\ at' = [at EXCEPT ![t] = "handoff"]
  BY DEF CreateChild, Goto, c
<1>3. status[t] = "running" /\ edge[c] = "none"
  BY <1>1, <1>2 DEF TypeOK
<1>4. /\ Edges' = Edges \cup {c} /\ c \notin Edges
      /\ Children(t)' = Children(t) \cup {c}
      /\ \A p \in Tasks \ {t} : Children(p)' = Children(p)
  BY <1>1, <1>2, <1>3 DEF Edges, Children, TypeOK
<1>5. /\ \A d \in Tasks \ {c, t} : status'[d] = status[d] /\ edge'[d] = edge[d]
      /\ status'[c] = "queued" /\ status'[t] \in {"running", "waiting_delegation"}
      /\ edge'[c] = "pending" /\ edge'[t] = edge[t]
  BY <1>1, <1>2, <1>3 DEF TypeOK
<1>6. IsFiniteSet(Edges') /\ Cardinality(Edges') = Cardinality(Edges) + 1
  BY <1>4, FS_AddElement DEF TreeInv
<1>7. Budgets'
  <2>1. /\ used' = Cardinality(Edges') /\ used' <= MaxTotalTasks
    BY <1>2, <1>6, DelegationAssumption DEF TreeInv, Budgets, WithinBudget, TypeOK
  <2>2. IsFiniteSet(Children(t)) /\ c \notin Children(t)
    BY <1>4, ChildrenAreEdges, FS_Subset DEF TreeInv
  <2>3. Cardinality(Children(t)) \in Nat /\ Cardinality(Children(t)') = Cardinality(Children(t)) + 1
    BY <1>4, <2>2, FS_AddElement, FS_CardinalityType
  <2>4. Cardinality(Children(t)') <= MaxFanout
    BY <1>2, <2>3, DelegationAssumption DEF WithinBudget
  <2>5. \A p \in Tasks \ {t} : Cardinality(Children(p)') <= MaxFanout
    BY <1>4 DEF TreeInv, Budgets
  <2> QED  BY <2>1, <2>4, <2>5 DEF Budgets
<1>8. EdgesTellOutcome'
  <2>1. edge[t] \notin TerminalEdge
    BY <1>3 DEF TreeInv, EdgesTellOutcome, TerminalEdge
  <2> QED  BY <1>5, <2>1 DEF TreeInv, EdgesTellOutcome, TerminalEdge
<1>9. FamilyInv'
  <2>1. Children(c)' = {}
    BY <1>1, <1>2, <1>4 DEF TreeInv, FamilyInv
  <2>2. \A d \in Tasks : Terminal(d) => Terminal(d)'
    BY <1>2, <1>3, <1>5 DEF Terminal, TerminalStatus
  <2>3. ASSUME NEW p \in Tasks \ {t, c}
        PROVE  /\ status'[p] = "queued" \/ at'[p] = "turn" => \A d \in Children(p)' : Terminal(d)'
               /\ status'[p] = "absent" => Children(p)' = {}
    <3>1. status'[p] = status[p] /\ at'[p] = at[p] /\ Children(p)' = Children(p)
      BY <1>2, <1>4, <1>5, <2>3 DEF TypeOK
    <3> QED  BY <2>2, <3>1, ChildrenAreEdges DEF TreeInv, FamilyInv
  <2>4. at'[t] = "handoff"
    BY <1>2 DEF TypeOK
  <2> QED  BY <1>5, <2>1, <2>3, <2>4 DEF FamilyInv
<1> QED  BY <1>6, <1>7, <1>8, <1>9 DEF TreeInv

\* A parent is woken when all its children have ended.
LEMMA WakeKeepsTree ==
  ASSUME TypeOK, TreeInv, NEW p \in Tasks, WakeParent(p),
         \A q \in Tasks : at'[q] = "turn" => at[q] = "turn"
  PROVE  TreeInv'
<1>1. \A c \in Children(p) : Terminal(c)
  BY ChildrenAreEdges DEF WakeParent, BarrierOpen, TreeInv, EdgesTellOutcome, Terminal, TerminalEdge,
                          TerminalStatus
<1>2. status[p] # "absent" /\ ~Terminal(p)
  BY DEF WakeParent, BarrierOpen, Terminal, TerminalStatus
<1> QED  BY <1>1, <1>2, StatusMoves DEF WakeParent

\* The tree grows with CreateChild only, and every write agrees with it.
LEMMA TreeStep ==
  ASSUME TypeInv, TreeInv, [Next]_vars
  PROVE  TreeInv'
<1> USE DEF TypeInv, Goto, rows
<1>1. ASSUME NEW j \in created, FetchJob(j) PROVE TreeInv'
  <2>1. \A p \in Tasks : at'[p] = "turn" => at[p] = "turn"
    BY <1>1 DEF FetchJob, TypeOK
  <2> QED  BY <1>1, <2>1, StillTree DEF FetchJob
<1>2. ASSUME NEW t \in Tasks, StartTurn(t) PROVE TreeInv'
  <2>1. \A c \in Children(t) : Terminal(c)
    BY <1>2 DEF StartTurn, TreeInv, FamilyInv
  <2>2. \A p \in Tasks : at'[p] = "turn" => at[p] = "turn" \/ p = t
    BY <1>2 DEF StartTurn, TypeOK
  <2> QED  BY <1>2, <2>1, <2>2, StatusMoves DEF StartTurn, Terminal, TerminalStatus
<1>3. ASSUME NEW t \in Tasks, SkipTurn(t) PROVE TreeInv'
  <2>1. \A p \in Tasks : at'[p] = "turn" => at[p] = "turn"
    BY <1>3 DEF SkipTurn, TypeOK
  <2> QED  BY <1>3, <2>1, StillTree DEF SkipTurn
<1>4. ASSUME NEW t \in Tasks, EndTurn(t) PROVE TreeInv'
  <2>1. \A p \in Tasks : at'[p] = "turn" => at[p] = "turn"
    BY <1>4 DEF EndTurn, TypeOK
  <2> QED  BY <1>4, <2>1, StillTree DEF EndTurn
<1>5. ASSUME NEW t \in Tasks, WatchdogFails(t) PROVE TreeInv'
  <2>1. status[t] = "running" /\ (\A p \in Tasks : at'[p] = "turn" => at[p] = "turn" /\ p # t)
    BY <1>5 DEF WatchdogFails, TypeOK
  <2> QED  BY <1>5, <2>1, StatusMoves DEF WatchdogFails, Terminal, TerminalStatus
<1>6. ASSUME NEW t \in Tasks, NEW a \in Agents, NEW mode \in Modes, CreateChild(t, a, mode)
      PROVE  TreeInv'
  BY <1>6, TreeGrows
<1>7. ASSUME NEW t \in Tasks, NEW a \in Agents, NEW mode \in Modes, ReuseChild(t, a, mode)
      PROVE  TreeInv'
  <2>1. \A p \in Tasks : at'[p] = "turn" => at[p] = "turn"
    BY <1>7 DEF ReuseChild, TypeOK
  <2> QED  BY <1>7, <2>1, StillTree DEF ReuseChild
<1>8. ASSUME NEW t \in Tasks, NEW a \in Agents, RefuseChild(t, a) PROVE TreeInv'
  <2>1. \A p \in Tasks : at'[p] = "turn" => at[p] = "turn"
    BY <1>8 DEF RefuseChild, TypeOK
  <2> QED  BY <1>8, <2>1, StillTree DEF RefuseChild
<1>9. ASSUME NEW t \in Tasks, EnqueueChild(t) PROVE TreeInv'
  <2>1. \A p \in Tasks : at'[p] = "turn" => at[p] = "turn"
    BY <1>9 DEF EnqueueChild, TypeOK
  <2> QED  BY <1>9, <2>1, StillTree DEF EnqueueChild
<1>10. ASSUME NEW t \in Tasks, DropChildLease(t) PROVE TreeInv'
  <2>1. \A p \in Tasks : at'[p] = "turn" => at[p] = "turn"
    BY <1>10 DEF DropChildLease, HandedOff, TypeOK
  <2> QED  BY <1>10, <2>1, StillTree DEF DropChildLease, HandedOff
<1>11. ASSUME NEW t \in Tasks, HandoffFails(t) PROVE TreeInv'
  <2>1. \A p \in Tasks : at'[p] = "turn" => at[p] = "turn"
    BY <1>11 DEF HandoffFails, HandedOff, TypeOK
  <2> QED  BY <1>11, <2>1, StillTree DEF HandoffFails, HandedOff
<1>12. ASSUME NEW t \in Tasks, FinishTask(t) PROVE TreeInv'
  <2>1. status[t] = "running" /\ (\A p \in Tasks : at'[p] = "turn" => at[p] = "turn" /\ p # t)
    BY <1>12 DEF FinishTask, TypeOK
  <2>2. Outcome(t) \in {"completed", "failed"}
    BY DEF Outcome
  <2> QED  BY <1>12, <2>1, <2>2, StatusMoves DEF FinishTask, Terminal, TerminalStatus
<1>13. ASSUME NEW t \in Tasks, ReadEdge(t) PROVE TreeInv'
  <2>1. \A p \in Tasks : at'[p] = "turn" => at[p] = "turn"
    BY <1>13 DEF ReadEdge, TypeOK
  <2> QED  BY <1>13, <2>1, StillTree DEF ReadEdge
<1>14. ASSUME NEW t \in Tasks, WriteEdge(t) PROVE TreeInv'
  <2>1. \A p \in Tasks : at'[p] = "turn" => at[p] = "turn"
    BY <1>14 DEF WriteEdge, TypeOK
  <2>2. edge[t] # "none" /\ Terminal(t)
    BY <1>14 DEF WriteEdge, TypeOK, Terminal, TerminalStatus
  <2> QED  BY <1>14, <2>1, <2>2, EdgeMoves DEF WriteEdge
<1>15. ASSUME NEW t \in Tasks, EvaluateBarrier(t) PROVE TreeInv'
  <2>1. Parent(t) \in Tasks /\ (\A p \in Tasks : at'[p] = "turn" => at[p] = "turn")
    BY <1>15, ParentIsTask DEF EvaluateBarrier, TypeOK
  <2>2. CASE WakeParent(Parent(t))
    BY <2>1, <2>2, WakeKeepsTree
  <2>3. CASE UNCHANGED rows
    BY <2>1, <2>3, StillTree
  <2> QED  BY <1>15, <2>2, <2>3 DEF EvaluateBarrier
<1>16. ASSUME NEW t \in Tasks, EnqueueParent(t) PROVE TreeInv'
  <2>1. \A p \in Tasks : at'[p] = "turn" => at[p] = "turn"
    BY <1>16 DEF EnqueueParent, TypeOK
  <2> QED  BY <1>16, <2>1, StillTree DEF EnqueueParent
<1>17. ASSUME NEW t \in Tasks, DropParentLease(t) PROVE TreeInv'
  <2>1. \A p \in Tasks : at'[p] = "turn" => at[p] = "turn"
    BY <1>17 DEF DropParentLease, TypeOK
  <2> QED  BY <1>17, <2>1, StillTree DEF DropParentLease
<1>18. ASSUME NEW t \in Tasks, HookFails(t) PROVE TreeInv'
  <2>1. \A p \in Tasks : at'[p] = "turn" => at[p] = "turn"
    BY <1>18 DEF HookFails, TypeOK
  <2> QED  BY <1>18, <2>1, StillTree DEF HookFails
<1>19. ASSUME NEW t \in Tasks, EndJob(t) PROVE TreeInv'
  <2>1. \A p \in Tasks : at'[p] = "turn" => at[p] = "turn"
    BY <1>19 DEF EndJob, TypeOK
  <2> QED  BY <1>19, <2>1, StillTree DEF EndJob
<1>20. CASE BeginPass
  <2>1. \A p \in Tasks : at'[p] = "turn" => at[p] = "turn"
    BY <1>20 DEF BeginPass, TypeOK
  <2> QED  BY <1>20, <2>1, StillTree DEF BeginPass
<1>21. ASSUME NEW j \in pass.due, Reschedule(j) PROVE TreeInv'
  <2>1. \A p \in Tasks : at'[p] = "turn" => at[p] = "turn"
    BY <1>21 DEF Reschedule, TypeOK
  <2> QED  BY <1>21, <2>1, StillTree DEF Reschedule
<1>22. CASE DropLease
  <2>1. \A p \in Tasks : at'[p] = "turn" => at[p] = "turn"
    BY <1>22 DEF DropLease, TypeOK
  <2> QED  BY <1>22, <2>1, StillTree DEF DropLease
<1>23. CASE ListEndedChildren
  <2>1. \A p \in Tasks : at'[p] = "turn" => at[p] = "turn"
    BY <1>23 DEF ListEndedChildren, TypeOK
  <2> QED  BY <1>23, <2>1, StillTree DEF ListEndedChildren
<1>24. ASSUME NEW t \in Tasks, ReconcileEdge(t) PROVE TreeInv'
  <2>1. /\ UNCHANGED <<status, used, at>> /\ Terminal(t) /\ IsChild(t)
        /\ edge' = [edge EXCEPT ![t] = IF @ = "pending" THEN status[t] ELSE @]
    BY <1>24 DEF ReconcileEdge, PassInv
  <2>2. CASE edge[t] = "pending"
    <3>1. edge' = [edge EXCEPT ![t] = status[t]]
      BY <2>1, <2>2
    <3> QED  BY <2>1, <2>2, <3>1, EdgeMoves
  <2>3. CASE edge[t] # "pending"
    <3>1. edge' = edge
      BY <2>1, <2>3 DEF TypeOK
    <3> QED  BY <2>1, <3>1, StillTree
  <2> QED  BY <2>2, <2>3
<1>25. CASE ListReadyBarriers
  <2>1. \A p \in Tasks : at'[p] = "turn" => at[p] = "turn"
    BY <1>25 DEF ListReadyBarriers, TypeOK
  <2> QED  BY <1>25, <2>1, StillTree DEF ListReadyBarriers
<1>26. ASSUME NEW t \in Tasks, ReconcileBarrier(t) PROVE TreeInv'
  <2>1. at' = at
    BY <1>26 DEF ReconcileBarrier
  <2>2. CASE WakeParent(t)
    BY <2>1, <2>2, WakeKeepsTree
  <2>3. CASE UNCHANGED rows
    BY <2>1, <2>3, StillTree
  <2> QED  BY <1>26, <2>2, <2>3 DEF ReconcileBarrier
<1>27. CASE PassEnqueuesParent
  <2>1. \A p \in Tasks : at'[p] = "turn" => at[p] = "turn"
    BY <1>27 DEF PassEnqueuesParent, TypeOK
  <2> QED  BY <1>27, <2>1, StillTree DEF PassEnqueuesParent
<1>28. CASE PassDropsParentLease
  <2>1. \A p \in Tasks : at'[p] = "turn" => at[p] = "turn"
    BY <1>28 DEF PassDropsParentLease, TypeOK
  <2> QED  BY <1>28, <2>1, StillTree DEF PassDropsParentLease
<1>29. CASE EndPass
  <2>1. \A p \in Tasks : at'[p] = "turn" => at[p] = "turn"
    BY <1>29 DEF EndPass, TypeOK
  <2> QED  BY <1>29, <2>1, StillTree DEF EndPass
<1>30. CASE PassFails
  <2>1. \A p \in Tasks : at'[p] = "turn" => at[p] = "turn"
    BY <1>30 DEF PassFails, TypeOK
  <2> QED  BY <1>30, <2>1, StillTree DEF PassFails
<1>31. CASE UNCHANGED vars
  BY <1>31, StillTree DEF vars
<1> QED
  BY <1>1, <1>2, <1>3, <1>4, <1>5, <1>6, <1>7, <1>8, <1>9, <1>10, <1>11, <1>12, <1>13, <1>14,
     <1>15, <1>16, <1>17, <1>18, <1>19, <1>20, <1>21, <1>22, <1>23, <1>24, <1>25, <1>26,
     <1>27, <1>28, <1>29, <1>30, <1>31
  DEF Next, HandlerTurn, PassTurn

(***************************************************************************)
(* Who carries a task on                                                   *)
(***************************************************************************)
LEMMA CalleesByEdges ==
  ASSUME \A t \in Tasks : edge[t] = "none" <=> edge'[t] = "none"
  PROVE  \A p \in Tasks : Children(p)' = Children(p) /\ Callees(p)' = Callees(p)
<1>1. \A p \in Tasks : Children(p)' = Children(p)
  BY DEF Children
<1> QED  BY <1>1 DEF Callees

LEMMA NamesOfRoot == \A p \in Tasks, a \in Agents : Append(p, a) # Root
<1> SUFFICES ASSUME NEW p \in Tasks, NEW a \in Agents PROVE Append(p, a) # Root
  OBVIOUS
<1>1. p \in Seq(Agents) /\ Len(p) \in Nat \ {0}
  BY TaskIsChain, DelegationAssumption
<1>2. Len(Append(p, a)) = Len(p) + 1
  BY <1>1, AppendProperties
<1>3. Len(Root) = 1
  BY DEF Root
<1>4. Len(Append(p, a)) # Len(Root)
  BY <1>1, <1>2, <1>3
<1> QED  BY ONLY <1>4

\* createDelegatedTask: the child is new, and so is its agent among the callees.
LEMMA CreateMoves ==
  ASSUME TypeInv, TreeInv, NEW t \in Tasks, NEW a \in Agents, NEW mode \in Modes,
         CreateChild(t, a, mode)
  PROVE  /\ Append(t, a) \in Tasks /\ IsChild(Append(t, a)) /\ Parent(Append(t, a)) = t
         /\ Append(t, a) # t /\ Append(t, a) # Root
         /\ at[t] = "turn" /\ status[t] = "running" /\ status[Append(t, a)] = "absent"
         /\ \A d \in Tasks \ {t, Append(t, a)} : status'[d] = status[d]
         /\ status'[Append(t, a)] = "queued"
         /\ status'[t] = IF mode = "return" THEN "waiting_delegation" ELSE "running"
         /\ Children(Append(t, a)) = {} /\ Children(Append(t, a))' = {} /\ Children(t)' # {}
         /\ \A d \in Tasks \ {t} : Children(d)' = Children(d) /\ Callees(d)' = Callees(d)
         /\ Callees(t) \subseteq Callees(t)' /\ a \in Callees(t)' /\ a \notin Callees(t)
         /\ lease' = lease \cup {<<Append(t, a), {}>>} /\ at' = [at EXCEPT ![t] = "handoff"]
         /\ call' = [call EXCEPT ![t] = [to |-> a, mode |-> mode]]
         /\ UNCHANGED <<woken, resume, created, active, wake, pass, faults>>
<1> DEFINE c == Append(t, a)
<1>1. c \in Tasks /\ IsChild(c) /\ Parent(c) = t /\ c # t /\ c # Root
  BY ChildIsTask, NamesOfRoot DEF CreateChild, MayDelegate
<1>2. /\ at[t] = "turn" /\ status[t] = "running" /\ status[c] = "absent"
      /\ status' = [status EXCEPT ![c] = "queued",
                                  ![t] = IF mode = "return" THEN "waiting_delegation" ELSE @]
      /\ edge' = [edge EXCEPT ![c] = "pending"]
      /\ lease' = lease \cup {<<c, {}>>} /\ at' = [at EXCEPT ![t] = "handoff"]
      /\ call' = [call EXCEPT ![t] = [to |-> a, mode |-> mode]]
      /\ UNCHANGED <<woken, resume, created, active, wake, pass, faults>>
  BY DEF CreateChild, MayDelegate, Goto, TypeInv, TypeOK, jobs, Run
<1>3. /\ \A d \in Tasks \ {t, c} : status'[d] = status[d]
      /\ status'[c] = "queued" /\ edge[c] = "none"
      /\ status'[t] = IF mode = "return" THEN "waiting_delegation" ELSE "running"
  BY <1>1, <1>2 DEF TypeInv, TypeOK
<1>4. /\ Children(t)' = Children(t) \cup {c} /\ c \notin Children(t)
      /\ \A d \in Tasks \ {t} : Children(d)' = Children(d)
  <2>1. \A d \in Tasks : edge'[d] # "none" <=> edge[d] # "none" \/ d = c
    BY <1>1, <1>2 DEF TypeInv, TypeOK
  <2> QED  BY <1>1, <1>3, <2>1 DEF Children
<1>5. Children(c) = {}
  BY <1>1, <1>2 DEF TreeInv, FamilyInv
<1>6. Agent(c) = a
  <2>1. t \in Seq(Agents) /\ Len(t) \in Nat
    BY TaskIsChain, DelegationAssumption
  <2> QED  BY <2>1, AppendProperties DEF Agent
<1>7. a \notin Callees(t)
  <2> SUFFICES ASSUME NEW d \in Children(t), Agent(d) = a PROVE FALSE
    BY DEF Callees
  <2>1. d \in Tasks /\ IsChild(d) /\ Parent(d) = t /\ edge[d] # "none"
    BY DEF Children
  <2>2. d = c
    <3>1. /\ d \in Seq(Agents) /\ Len(d) \in Nat /\ Len(d) > 1
          /\ c \in Seq(Agents) /\ Len(c) \in Nat /\ Len(c) > 1
      BY <1>1, <2>1, TaskIsChain, DelegationAssumption DEF IsChild
    <3>2. /\ SubSeq(d, 1, Len(d) - 1) = t /\ SubSeq(c, 1, Len(c) - 1) = t
          /\ d[Len(d)] = a /\ c[Len(c)] = a
      BY <1>1, <1>6, <2>1 DEF Parent, Agent
    <3>3. /\ Len(SubSeq(d, 1, Len(d) - 1)) = Len(d) - 1
          /\ \A i \in 1..Len(d) - 1 : SubSeq(d, 1, Len(d) - 1)[i] = d[i]
          /\ Len(SubSeq(c, 1, Len(c) - 1)) = Len(c) - 1
          /\ \A i \in 1..Len(c) - 1 : SubSeq(c, 1, Len(c) - 1)[i] = c[i]
      BY <3>1, SubSeqProperties, ElementOfSeq
    <3>4. Len(d) = Len(c) /\ \A i \in 1..Len(d) : d[i] = c[i]
      BY <3>1, <3>2, <3>3
    <3> QED  BY <3>1, <3>4, SeqEqual
  <2> QED  BY <1>3, <2>1, <2>2
<1>8. Callees(t) \subseteq Callees(t)' /\ a \in Callees(t)'
  BY <1>4, <1>6 DEF Callees
<1>9. \A d \in Tasks \ {t} : Callees(d)' = Callees(d)
  BY <1>4 DEF Callees
<1> QED  BY <1>1, <1>2, <1>3, <1>4, <1>5, <1>7, <1>8, <1>9

LEMMA ResumedExists ==
  ASSUME TreeInv, KeyInv
  PROVE  \A p \in Tasks : resume[p] # {} => status[p] # "absent"
<1>1. \A p \in Tasks : Children(p) = {} => Callees(p) = {}
  BY DEF Callees
<1> QED  BY <1>1 DEF TreeInv, FamilyInv, KeyInv

\* The barrier resumes a parent with more callees than before.
LEMMA WakeReports ==
  ASSUME TypeInv, KeyInv, NEW p \in Tasks, WakeParent(p)
  PROVE  /\ status[p] = "waiting_delegation" /\ status' = [status EXCEPT ![p] = "queued"]
         /\ ~(p = Root /\ woken) /\ woken' = (woken \/ p = Root)
         /\ resume' = [resume EXCEPT ![p] = Callees(p)]
         /\ resume[p] \subseteq Callees(p) /\ Callees(p) # resume[p] /\ Callees(p) # {}
         /\ Callees(p) \subseteq Agents
         /\ lease' = (lease \ LeasesOf(p)) \cup {<<p, Callees(p)>>}
         /\ \A q \in Tasks : Children(q)' = Children(q) /\ Callees(q)' = Callees(q)
         /\ UNCHANGED <<created, active>>
<1>1. BarrierOpen(p) /\ UNCHANGED <<edge, used, created, active>>
  BY DEF WakeParent, jobs
<1>2. \A q \in Tasks : Children(q)' = Children(q) /\ Callees(q)' = Callees(q)
  BY <1>1, CalleesByEdges
<1> QED  BY <1>1, <1>2, AgentOfTask DEF WakeParent, BarrierOpen, KeyInv

LEMMA WakeKeepsKeys ==
  ASSUME TypeInv, TreeInv, KeyInv, NEW p \in Tasks, WakeParent(p),
         \A t \in Tasks : at'[t] \in {"waking", "unleaseParent"} =>
           \/ at[t] \in {"waking", "unleaseParent"} /\ wake'[t] = wake[t]
           \/ Parent(t) = p /\ wake'[t] = Callees(p),
         \A t \in Tasks : at'[t] \in {"waking", "unleaseParent"} => Parent(t) \in Tasks,
         pass' = pass \/ (pass'.task = p /\ pass'.due = {})
  PROVE  KeyInv'
<1>1. /\ status[p] = "waiting_delegation" /\ status' = [status EXCEPT ![p] = "queued"]
      /\ resume' = [resume EXCEPT ![p] = Callees(p)]
      /\ resume[p] \subseteq Callees(p) /\ Callees(p) # {}
      /\ Callees(p) \subseteq Agents
      /\ lease' = (lease \ LeasesOf(p)) \cup {<<p, Callees(p)>>}
      /\ \A q \in Tasks : Callees(q)' = Callees(q)
      /\ UNCHANGED <<created, active>>
  BY WakeReports
<1>2. /\ \A q \in Tasks \ {p} : status'[q] = status[q] /\ resume'[q] = resume[q]
      /\ status'[p] = "queued" /\ resume'[p] = Callees(p)
  BY <1>1 DEF TypeInv, TypeOK
<1>3. /\ \A q \in Tasks : status[q] # "absent" => status'[q] # "absent"
      /\ \A q \in Tasks : resume[q] \subseteq resume'[q]
      /\ \A q \in Tasks : resume[q] # {} => resume'[q] # {}
  BY <1>1, <1>2
<1>4. \A j \in created' \cup active' \cup lease' \cup pass'.due :
        status'[j[1]] # "absent" /\ j[2] \subseteq resume'[j[1]]
  <2>1. \A j \in created \cup active \cup lease \cup pass.due : j[1] \in Tasks
    BY JobFields DEF TypeInv, TypeOK
  <2>2. \A j \in created \cup active \cup lease \cup pass.due :
          status'[j[1]] # "absent" /\ j[2] \subseteq resume'[j[1]]
    BY <1>3, <2>1 DEF KeyInv
  <2>3. lease' \subseteq lease \cup {<<p, Callees(p)>>} /\ pass'.due \subseteq pass.due
    BY <1>1
  <2> QED  BY ONLY <1>1, <1>2, <2>2, <2>3
<1>5. \A q \in Tasks : /\ resume'[q] \subseteq Callees(q)'
                       /\ status'[q] = "waiting_delegation" => resume'[q] # Callees(q)'
  BY <1>1, <1>2 DEF KeyInv
<1>6. \A t \in Tasks : at'[t] \in {"waking", "unleaseParent"} =>
        resume'[Parent(t)] # {} /\ wake'[t] \subseteq resume'[Parent(t)]
  BY <1>1, <1>2, <1>3 DEF KeyInv
<1>7. /\ pass'.step \in {"unlease", "waking", "unleaseParent"} => status'[pass'.task] # "absent"
      /\ pass'.step \in {"waking", "unleaseParent"} => resume'[pass'.task] # {}
  BY <1>1, <1>2, <1>3 DEF KeyInv, TypeInv, TypeOK
<1> QED  BY ONLY <1>4, <1>5, <1>6, <1>7 DEF KeyInv

LEMMA HookKeepsKeys ==
  ASSUME TypeInv, TreeInv, KeyInv, NEW t \in Tasks, EvaluateBarrier(t), WakeParent(Parent(t))
  PROVE  KeyInv'
<1> PICK p : p = Parent(t)
  OBVIOUS
<1>1. /\ wake' = [wake EXCEPT ![t] = Callees(p)] /\ at' = [at EXCEPT ![t] = "waking"]
      /\ pass' = pass /\ at[t] = "barrier"
  BY DEF EvaluateBarrier, WakeParent, Goto
<1>2. \A d \in Tasks : at[d] \in {"barrier", "waking", "unleaseParent"} => Parent(d) \in Tasks
  BY ParentIsTask DEF TypeInv, TypeOK
<1>3. p \in Tasks /\ WakeParent(p)
  BY <1>1, <1>2
<1>4. ASSUME NEW d \in Tasks, at'[d] \in {"waking", "unleaseParent"}
      PROVE  /\ \/ at[d] \in {"waking", "unleaseParent"} /\ wake'[d] = wake[d]
                \/ Parent(d) = p /\ wake'[d] = Callees(p)
             /\ Parent(d) \in Tasks
  BY <1>1, <1>2, <1>4 DEF TypeInv, TypeOK
<1>5. /\ \A d \in Tasks : at'[d] \in {"waking", "unleaseParent"} =>
           \/ at[d] \in {"waking", "unleaseParent"} /\ wake'[d] = wake[d]
           \/ Parent(d) = p /\ wake'[d] = Callees(p)
      /\ \A d \in Tasks : at'[d] \in {"waking", "unleaseParent"} => Parent(d) \in Tasks
  BY ONLY <1>4
<1>6. pass' = pass \/ (pass'.task = p /\ pass'.due = {})
  BY <1>1
<1> QED  BY <1>3, <1>5, <1>6, WakeKeepsKeys

LEMMA PassKeepsKeys ==
  ASSUME TypeInv, TreeInv, KeyInv, NEW p \in Tasks, ReconcileBarrier(p), WakeParent(p)
  PROVE  KeyInv'
<1>1. pass'.task = p /\ pass'.due = {} /\ UNCHANGED <<at, wake>>
  BY DEF ReconcileBarrier, WakeParent, Step, turn
<1>2. \A d \in Tasks : at[d] \in {"waking", "unleaseParent"} => Parent(d) \in Tasks
  BY ParentIsTask DEF TypeInv, TypeOK
<1> QED  BY <1>1, <1>2, WakeKeepsKeys

LEMMA CreateKeepsKeys ==
  ASSUME TypeInv, TreeInv, KeyInv, NEW t \in Tasks, NEW a \in Agents, NEW mode \in Modes,
         CreateChild(t, a, mode)
  PROVE  KeyInv'
<1> DEFINE c == Append(t, a)
<1>1. /\ c \in Tasks /\ status[t] = "running" /\ status[c] = "absent"
      /\ \A d \in Tasks \ {t, c} : status'[d] = status[d]
      /\ status'[c] = "queued" /\ status'[t] \in {"waiting_delegation", "running"}
      /\ \A d \in Tasks \ {t} : Callees(d)' = Callees(d)
      /\ Callees(t) \subseteq Callees(t)' /\ a \in Callees(t)' /\ a \notin Callees(t)
      /\ lease' = lease \cup {<<c, {}>>} /\ at' = [at EXCEPT ![t] = "handoff"]
      /\ UNCHANGED <<resume, created, active, wake, pass>>
  BY CreateMoves
<1> HIDE DEF c
<1>2. \A d \in Tasks : status[d] # "absent" => status'[d] # "absent"
  BY <1>1
<1>3. \A j \in created' \cup active' \cup lease' \cup pass'.due :
        status'[j[1]] # "absent" /\ j[2] \subseteq resume'[j[1]]
  <2>1. \A j \in created \cup active \cup lease \cup pass.due :
          status'[j[1]] # "absent" /\ j[2] \subseteq resume'[j[1]]
    BY <1>1, <1>2, JobFields DEF KeyInv, TypeInv, TypeOK
  <2> QED  BY <1>1, <2>1
<1>4. \A d \in Tasks : /\ resume'[d] \subseteq Callees(d)'
                       /\ status'[d] = "waiting_delegation" => resume'[d] # Callees(d)'
  BY <1>1 DEF KeyInv
<1>5. \A d \in Tasks : at'[d] \in {"waking", "unleaseParent"} =>
        resume'[Parent(d)] # {} /\ wake'[d] \subseteq resume'[Parent(d)]
  BY <1>1 DEF KeyInv, TypeInv, TypeOK
<1>6. /\ pass'.step \in {"unlease", "waking", "unleaseParent"} => status'[pass'.task] # "absent"
      /\ pass'.step \in {"waking", "unleaseParent"} => resume'[pass'.task] # {}
  BY <1>1, <1>2 DEF KeyInv, TypeInv, TypeOK
<1> QED  BY ONLY <1>3, <1>4, <1>5, <1>6 DEF KeyInv

\* A step that leaves the rows of the tree alone.
LEMMA KeyStep ==
  ASSUME TypeInv, TypeInv', TreeInv, KeyInv, [Next]_vars
  PROVE  KeyInv'
<1> USE RootIsTask, JobFields, ParentIsTask
    DEF TypeInv, TypeOK, KeyInv, Goto, Enqueue, Fault, Terminal, TerminalStatus,
        TerminalEdge, LeasesOf, NoPass, Step, Leases, rows, jobs, queue, turn
<1>1. ASSUME NEW j \in created, FetchJob(j) PROVE KeyInv'
  BY <1>1, CalleesByEdges DEF FetchJob
<1>2. ASSUME NEW t \in Tasks, StartTurn(t) PROVE KeyInv'
  BY <1>2, CalleesByEdges DEF StartTurn
<1>3. ASSUME NEW t \in Tasks, SkipTurn(t) PROVE KeyInv'
  BY <1>3, CalleesByEdges DEF SkipTurn
<1>4. ASSUME NEW t \in Tasks, EndTurn(t) PROVE KeyInv'
  BY <1>4, CalleesByEdges DEF EndTurn
<1>5. ASSUME NEW t \in Tasks, WatchdogFails(t) PROVE KeyInv'
  BY <1>5, CalleesByEdges DEF WatchdogFails
<1>6. ASSUME NEW t \in Tasks, NEW a \in Agents, NEW mode \in Modes, CreateChild(t, a, mode)
      PROVE  KeyInv'
  BY ONLY <1>6, CreateKeepsKeys, TypeInv, TreeInv, KeyInv
<1>7. ASSUME NEW t \in Tasks, NEW a \in Agents, NEW mode \in Modes, ReuseChild(t, a, mode)
      PROVE  KeyInv'
  BY <1>7, CalleesByEdges DEF ReuseChild
<1>8. ASSUME NEW t \in Tasks, NEW a \in Agents, RefuseChild(t, a) PROVE KeyInv'
  BY <1>8, CalleesByEdges DEF RefuseChild
<1>9. ASSUME NEW t \in Tasks, EnqueueChild(t) PROVE KeyInv'
  BY <1>9, CalleesByEdges DEF EnqueueChild
<1>10. ASSUME NEW t \in Tasks, DropChildLease(t) PROVE KeyInv'
  BY <1>10, CalleesByEdges DEF DropChildLease, HandedOff
<1>11. ASSUME NEW t \in Tasks, HandoffFails(t) PROVE KeyInv'
  BY <1>11, CalleesByEdges DEF HandoffFails, HandedOff
<1>12. ASSUME NEW t \in Tasks, FinishTask(t) PROVE KeyInv'
  BY <1>12, CalleesByEdges DEF FinishTask, Outcome
<1>13. ASSUME NEW t \in Tasks, ReadEdge(t) PROVE KeyInv'
  BY <1>13, CalleesByEdges DEF ReadEdge
<1>14. ASSUME NEW t \in Tasks, WriteEdge(t) PROVE KeyInv'
  BY <1>14, CalleesByEdges DEF WriteEdge
<1>15. ASSUME NEW t \in Tasks, EvaluateBarrier(t) PROVE KeyInv'
  <2>1. CASE ~BarrierOpen(Parent(t))
    BY <1>15, <2>1, CalleesByEdges DEF EvaluateBarrier, WakeParent
  <2>2. CASE WakeParent(Parent(t))
    BY <1>15, <2>2, HookKeepsKeys
  <2> QED  BY <1>15, <2>1, <2>2 DEF EvaluateBarrier
<1>16. ASSUME NEW t \in Tasks, EnqueueParent(t) PROVE KeyInv'
  BY <1>16, CalleesByEdges, ResumedExists DEF EnqueueParent
<1>17. ASSUME NEW t \in Tasks, DropParentLease(t) PROVE KeyInv'
  BY <1>17, CalleesByEdges DEF DropParentLease
<1>18. ASSUME NEW t \in Tasks, HookFails(t) PROVE KeyInv'
  BY <1>18, CalleesByEdges DEF HookFails
<1>19. ASSUME NEW t \in Tasks, EndJob(t) PROVE KeyInv'
  BY <1>19, CalleesByEdges DEF EndJob
<1>20. CASE BeginPass
  BY <1>20, CalleesByEdges DEF BeginPass
<1>21. ASSUME NEW j \in pass.due, Reschedule(j) PROVE KeyInv'
  BY <1>21, CalleesByEdges DEF Reschedule
<1>22. CASE DropLease
  BY <1>22, CalleesByEdges DEF DropLease
<1>23. CASE ListEndedChildren
  BY <1>23, CalleesByEdges DEF ListEndedChildren, Ended
<1>24. ASSUME NEW t \in Tasks, ReconcileEdge(t) PROVE KeyInv'
  BY <1>24, CalleesByEdges DEF ReconcileEdge
<1>25. CASE ListReadyBarriers
  BY <1>25, CalleesByEdges DEF ListReadyBarriers, Ready
<1>26. ASSUME NEW t \in Tasks, ReconcileBarrier(t) PROVE KeyInv'
  <2>1. CASE ~BarrierOpen(t)
    BY <1>26, <2>1, CalleesByEdges DEF ReconcileBarrier, WakeParent
  <2>2. CASE WakeParent(t)
    BY <1>26, <2>2, PassKeepsKeys
  <2> QED  BY <1>26, <2>1, <2>2 DEF ReconcileBarrier
<1>27. CASE PassEnqueuesParent
  BY <1>27, CalleesByEdges DEF PassEnqueuesParent
<1>28. CASE PassDropsParentLease
  BY <1>28, CalleesByEdges DEF PassDropsParentLease
<1>29. CASE EndPass
  BY <1>29, CalleesByEdges DEF EndPass
<1>30. CASE PassFails
  BY <1>30, CalleesByEdges DEF PassFails
<1>31. CASE UNCHANGED vars
  BY <1>31, CalleesByEdges DEF vars
<1> HIDE DEF TypeInv, TypeOK, KeyInv, Goto, Enqueue, Fault, Terminal, TerminalStatus,
             TerminalEdge, LeasesOf, NoPass, Step, Leases, rows, jobs, queue, turn
<1> QED
  BY <1>1, <1>2, <1>3, <1>4, <1>5, <1>6, <1>7, <1>8, <1>9, <1>10, <1>11, <1>12, <1>13, <1>14,
     <1>15, <1>16, <1>17, <1>18, <1>19, <1>20, <1>21, <1>22, <1>23, <1>24, <1>25, <1>26,
     <1>27, <1>28, <1>29, <1>30, <1>31
  DEF Next, HandlerTurn, PassTurn
\* The id of a resumption's job is new.
LEMMA ResumptionIsFresh ==
  ASSUME TypeInv, KeyInv, NEW p \in Tasks, WakeParent(p)
  PROVE  <<p, Callees(p)>> \notin created \cup active
<1>1. resume[p] \subseteq Callees(p) /\ Callees(p) # resume[p]
  BY WakeReports
<1>2. \A j \in created \cup active : j[2] \subseteq resume[j[1]]
  BY DEF KeyInv
<1> QED  BY <1>1, <1>2

\* Nothing but a wake changes what a task was told.
LEMMA ResumedByWake ==
  ASSUME TypeInv, [Next]_vars
  PROVE  resume' = resume \/ \E p \in Tasks : WakeParent(p)
<1> USE DEF rows, jobs, queue, turn
<1>1. ASSUME NEW t \in Tasks, HandlerTurn(t) PROVE resume' = resume \/ WakeParent(Parent(t))
  BY <1>1
  DEF HandlerTurn, FetchJob, StartTurn, SkipTurn, EndTurn, CreateChild, ReuseChild, RefuseChild,
      EnqueueChild, DropChildLease, FinishTask, ReadEdge, WriteEdge, EvaluateBarrier,
      EnqueueParent, DropParentLease, EndJob
<1>2. ASSUME PassTurn PROVE resume' = resume \/ \E p \in Tasks : WakeParent(p)
  BY <1>2
  DEF PassTurn, BeginPass, Reschedule, DropLease, ListEndedChildren, ReconcileEdge,
      ListReadyBarriers, ReconcileBarrier, PassEnqueuesParent, PassDropsParentLease, EndPass
<1>3. ASSUME NEW t \in Tasks, HandlerTurn(t), WakeParent(Parent(t))
      PROVE  resume' = resume \/ \E p \in Tasks : WakeParent(p)
  <2>1. CASE at[t] = "barrier"
    BY <1>3, <2>1, ParentIsTask DEF TypeInv, TypeOK
  <2>2. CASE at[t] # "barrier"
    BY <1>3, <2>2
    DEF HandlerTurn, FetchJob, StartTurn, SkipTurn, EndTurn, CreateChild, ReuseChild,
        RefuseChild, EnqueueChild, DropChildLease, FinishTask, ReadEdge, WriteEdge,
        EvaluateBarrier, EnqueueParent, DropParentLease, EndJob
  <2> QED  BY <2>1, <2>2
<1>4. CASE UNCHANGED vars \/ PassFails
  BY <1>4 DEF vars, PassFails
<1>5. ASSUME NEW t \in Tasks, WatchdogFails(t) \/ HandoffFails(t) \/ HookFails(t)
      PROVE  resume' = resume
  BY <1>5 DEF WatchdogFails, HandoffFails, HookFails
<1> QED  BY <1>1, <1>2, <1>3, <1>4, <1>5 DEF Next

LEMMA WakeKeepsGuard ==
  ASSUME TypeInv, KeyInv, GuardInv, NEW p \in Tasks, WakeParent(p),
         \A t \in Tasks : at[t] = "guard" => at'[t] = "guard"
  PROVE  GuardInv'
<1>1. /\ status' = [status EXCEPT ![p] = "queued"] /\ resume' = [resume EXCEPT ![p] = Callees(p)]
      /\ active' = active
  BY WakeReports
<1> QED  BY <1>1, ResumptionIsFresh DEF GuardInv, TypeInv, TypeOK

LEMMA CreateKeepsGuard ==
  ASSUME TypeInv, TreeInv, KeyInv, GuardInv, NEW t \in Tasks, NEW a \in Agents,
         NEW mode \in Modes, CreateChild(t, a, mode)
  PROVE  GuardInv'
<1> DEFINE c == Append(t, a)
<1>1. /\ c \in Tasks /\ status[c] = "absent"
      /\ \A d \in Tasks \ {t, c} : status'[d] = status[d]
      /\ status'[c] = "queued" /\ status'[t] \in {"waiting_delegation", "running"}
      /\ at' = [at EXCEPT ![t] = "handoff"] /\ UNCHANGED <<resume, active>>
  BY CreateMoves
<1> HIDE DEF c
<1>2. \A j \in active : status[j[1]] # "absent"
  BY DEF KeyInv
<1> QED  BY <1>1, <1>2 DEF GuardInv, TypeInv, TypeOK

\* A queued task's own job is at the guard of its handler, if it was fetched.
LEMMA GuardStep ==
  ASSUME TypeInv, TreeInv, KeyInv, GuardInv, [Next]_vars
  PROVE  GuardInv'
<1> USE RootIsTask, JobFields
    DEF TypeInv, TypeOK, HandlerInv, GuardInv, Goto, Enqueue, Fault, Terminal, TerminalStatus,
        TerminalEdge, LeasesOf, NoPass, Step, Leases, rows, jobs, queue, turn
<1>1. ASSUME NEW j \in created, FetchJob(j) PROVE GuardInv'
  BY <1>1 DEF FetchJob
<1>2. ASSUME NEW t \in Tasks, StartTurn(t) PROVE GuardInv'
  BY <1>2 DEF StartTurn
<1>3. ASSUME NEW t \in Tasks, SkipTurn(t) PROVE GuardInv'
  BY <1>3 DEF SkipTurn
<1>4. ASSUME NEW t \in Tasks, EndTurn(t) PROVE GuardInv'
  BY <1>4 DEF EndTurn
<1>5. ASSUME NEW t \in Tasks, WatchdogFails(t) PROVE GuardInv'
  BY <1>5 DEF WatchdogFails
<1>6. ASSUME NEW t \in Tasks, NEW a \in Agents, NEW mode \in Modes, CreateChild(t, a, mode)
      PROVE  GuardInv'
  BY ONLY <1>6, CreateKeepsGuard, TypeInv, TreeInv, KeyInv, GuardInv
<1>7. ASSUME NEW t \in Tasks, NEW a \in Agents, NEW mode \in Modes, ReuseChild(t, a, mode)
      PROVE  GuardInv'
  BY <1>7 DEF ReuseChild
<1>8. ASSUME NEW t \in Tasks, NEW a \in Agents, RefuseChild(t, a) PROVE GuardInv'
  BY <1>8 DEF RefuseChild
<1>9. ASSUME NEW t \in Tasks, EnqueueChild(t) PROVE GuardInv'
  BY <1>9 DEF EnqueueChild
<1>10. ASSUME NEW t \in Tasks, DropChildLease(t) PROVE GuardInv'
  BY <1>10 DEF DropChildLease, HandedOff
<1>11. ASSUME NEW t \in Tasks, HandoffFails(t) PROVE GuardInv'
  BY <1>11 DEF HandoffFails, HandedOff
<1>12. ASSUME NEW t \in Tasks, FinishTask(t) PROVE GuardInv'
  BY <1>12 DEF FinishTask, Outcome
<1>13. ASSUME NEW t \in Tasks, ReadEdge(t) PROVE GuardInv'
  BY <1>13 DEF ReadEdge
<1>14. ASSUME NEW t \in Tasks, WriteEdge(t) PROVE GuardInv'
  BY <1>14 DEF WriteEdge
<1>15. ASSUME NEW t \in Tasks, EvaluateBarrier(t) PROVE GuardInv'
  <2>1. CASE ~BarrierOpen(Parent(t))
    BY <1>15, <2>1 DEF EvaluateBarrier, WakeParent
  <2>2. CASE WakeParent(Parent(t))
    BY <1>15, <2>2, ParentIsTask, WakeKeepsGuard DEF EvaluateBarrier
  <2> QED  BY <1>15, <2>1, <2>2 DEF EvaluateBarrier
<1>16. ASSUME NEW t \in Tasks, EnqueueParent(t) PROVE GuardInv'
  BY <1>16 DEF EnqueueParent
<1>17. ASSUME NEW t \in Tasks, DropParentLease(t) PROVE GuardInv'
  BY <1>17 DEF DropParentLease
<1>18. ASSUME NEW t \in Tasks, HookFails(t) PROVE GuardInv'
  BY <1>18 DEF HookFails
<1>19. ASSUME NEW t \in Tasks, EndJob(t) PROVE GuardInv'
  BY <1>19 DEF EndJob
<1>20. CASE BeginPass
  BY <1>20 DEF BeginPass
<1>21. ASSUME NEW j \in pass.due, Reschedule(j) PROVE GuardInv'
  BY <1>21 DEF Reschedule
<1>22. CASE DropLease
  BY <1>22 DEF DropLease
<1>23. CASE ListEndedChildren
  BY <1>23 DEF ListEndedChildren, Ended
<1>24. ASSUME NEW t \in Tasks, ReconcileEdge(t) PROVE GuardInv'
  BY <1>24 DEF ReconcileEdge
<1>25. CASE ListReadyBarriers
  BY <1>25 DEF ListReadyBarriers, Ready
<1>26. ASSUME NEW t \in Tasks, ReconcileBarrier(t) PROVE GuardInv'
  <2>1. CASE ~BarrierOpen(t)
    BY <1>26, <2>1 DEF ReconcileBarrier, WakeParent
  <2>2. CASE WakeParent(t)
    BY <1>26, <2>2, WakeKeepsGuard DEF ReconcileBarrier
  <2> QED  BY <1>26, <2>1, <2>2 DEF ReconcileBarrier
<1>27. CASE PassEnqueuesParent
  BY <1>27 DEF PassEnqueuesParent
<1>28. CASE PassDropsParentLease
  BY <1>28 DEF PassDropsParentLease
<1>29. CASE EndPass
  BY <1>29 DEF EndPass
<1>30. CASE PassFails
  BY <1>30 DEF PassFails
<1>31. CASE UNCHANGED vars
  BY <1>31 DEF vars
<1> HIDE DEF TypeInv, TypeOK, HandlerInv, GuardInv, Goto, Enqueue, Fault, Terminal, TerminalStatus,
        TerminalEdge, LeasesOf, NoPass, Step, Leases, rows, jobs, queue, turn
<1> QED
  BY <1>1, <1>2, <1>3, <1>4, <1>5, <1>6, <1>7, <1>8, <1>9, <1>10, <1>11, <1>12, <1>13, <1>14,
     <1>15, <1>16, <1>17, <1>18, <1>19, <1>20, <1>21, <1>22, <1>23, <1>24, <1>25, <1>26,
     <1>27, <1>28, <1>29, <1>30, <1>31
  DEF Next, HandlerTurn, PassTurn

LEMMA HookWakes ==
  ASSUME TypeInv, NEW t \in Tasks, EvaluateBarrier(t), WakeParent(Parent(t))
  PROVE  /\ Parent(t) \in Tasks /\ IsChild(t) /\ at[t] = "barrier"
         /\ wake' = [wake EXCEPT ![t] = Callees(Parent(t))]
         /\ at' = [at EXCEPT ![t] = "waking"]
         /\ UNCHANGED <<call, pass, faults>>
<1>1. at[t] = "barrier"
  BY DEF EvaluateBarrier
<1>2. Parent(t) \in Tasks /\ IsChild(t)
  BY <1>1, ParentIsTask DEF TypeInv, TypeOK
<1> QED  BY <1>1, <1>2 DEF EvaluateBarrier, WakeParent, Goto

LEMMA PassWakes ==
  ASSUME NEW p \in Tasks, ReconcileBarrier(p), WakeParent(p)
  PROVE  /\ pass' = [step |-> "waking", task |-> p, due |-> {}, todo |-> pass.todo \ {p}]
         /\ pass.step = "barriers" /\ UNCHANGED <<at, call, wake, faults>>
BY DEF ReconcileBarrier, WakeParent, Step, turn

LEMMA HookKeepsRoot ==
  ASSUME TypeInv, KeyInv, RootInv, NEW t \in Tasks, EvaluateBarrier(t), WakeParent(Parent(t))
  PROVE  RootInv'
<1> PICK p \in Tasks : p = Parent(t)
  BY HookWakes
<1>1. /\ ~(p = Root /\ woken) /\ woken' = (woken \/ p = Root)
      /\ resume' = [resume EXCEPT ![p] = Callees(p)]
      /\ lease' = (lease \ LeasesOf(p)) \cup {<<p, Callees(p)>>}
  BY WakeReports
<1>2. wake' = [wake EXCEPT ![t] = Callees(p)] /\ at' = [at EXCEPT ![t] = "waking"] /\ pass' = pass
  BY HookWakes
<1>3. /\ resume'[Root] = IF p = Root THEN Callees(p) ELSE resume[Root]
      /\ woken => woken' /\ p # Root
      /\ p = Root => woken'
  BY <1>1, RootIsTask DEF TypeInv, TypeOK
<1>4. \A l \in lease' \cup pass'.due : l[1] = Root => woken' /\ l[2] = resume'[Root]
  <2>1. \A l \in lease' \cup pass'.due : l \in lease \cup pass.due \/ l = <<p, Callees(p)>>
    BY <1>1, <1>2
  <2>2. \A l \in lease \cup pass.due : l[1] = Root => woken /\ l[2] = resume[Root]
    BY DEF RootInv
  <2> QED  BY ONLY <1>3, <2>1, <2>2
<1>5. \A d \in Tasks :
        at'[d] \in {"waking", "unleaseParent"} /\ Parent(d) = Root =>
          woken' /\ (at'[d] = "waking" => wake'[d] = resume'[Root])
  <2>1. \A d \in Tasks \ {t} : at'[d] = at[d] /\ wake'[d] = wake[d]
    BY <1>2 DEF TypeInv, TypeOK
  <2>2. at'[t] = "waking" /\ wake'[t] = Callees(p)
    BY <1>2 DEF TypeInv, TypeOK
  <2> QED  BY <1>1, <1>3, <2>1, <2>2 DEF RootInv
<1> QED  BY <1>1, <1>2, <1>4, <1>5 DEF RootInv

LEMMA PassKeepsRoot ==
  ASSUME TypeInv, KeyInv, RootInv, NEW p \in Tasks, ReconcileBarrier(p), WakeParent(p)
  PROVE  RootInv'
<1>1. /\ ~(p = Root /\ woken) /\ woken' = (woken \/ p = Root)
      /\ resume' = [resume EXCEPT ![p] = Callees(p)]
      /\ lease' = (lease \ LeasesOf(p)) \cup {<<p, Callees(p)>>}
  BY WakeReports
<1>2. /\ pass' = [step |-> "waking", task |-> p, due |-> {}, todo |-> pass.todo \ {p}]
      /\ UNCHANGED <<at, wake>>
  BY PassWakes
<1>3. /\ resume'[Root] = IF p = Root THEN Callees(p) ELSE resume[Root]
      /\ woken => woken' /\ p # Root
      /\ p = Root => woken'
  BY <1>1, RootIsTask DEF TypeInv, TypeOK
<1>4. \A l \in lease' \cup pass'.due : l[1] = Root => woken' /\ l[2] = resume'[Root]
  <2>1. \A l \in lease' \cup pass'.due : l \in lease \/ l = <<p, Callees(p)>>
    BY <1>1, <1>2
  <2>2. \A l \in lease \cup pass.due : l[1] = Root => woken /\ l[2] = resume[Root]
    BY DEF RootInv
  <2> QED  BY ONLY <1>3, <2>1, <2>2
<1> QED  BY <1>1, <1>2, <1>3, <1>4 DEF RootInv

LEMMA CreateKeepsRoot ==
  ASSUME TypeInv, TreeInv, RootInv, NEW t \in Tasks, NEW a \in Agents, NEW mode \in Modes,
         CreateChild(t, a, mode)
  PROVE  RootInv'
<1> DEFINE c == Append(t, a)
<1>1. /\ c \in Tasks /\ c # Root
      /\ lease' = lease \cup {<<c, {}>>} /\ at' = [at EXCEPT ![t] = "handoff"]
      /\ UNCHANGED <<woken, resume, wake, pass>>
  BY CreateMoves
<1> HIDE DEF c
<1> QED  BY <1>1 DEF RootInv, TypeInv, TypeOK

\* What reports to the root belongs to its one resumption.
LEMMA RootStep ==
  ASSUME TypeInv, TreeInv, KeyInv, RootInv, [Next]_vars
  PROVE  RootInv'
<1> USE RootIsTask, JobFields
    DEF TypeInv, TypeOK, RootInv, Goto, Enqueue, Fault, Terminal, TerminalStatus,
        TerminalEdge, LeasesOf, NoPass, Step, Leases, rows, jobs, queue, turn
<1>1. ASSUME NEW j \in created, FetchJob(j) PROVE RootInv'
  BY <1>1 DEF FetchJob
<1>2. ASSUME NEW t \in Tasks, StartTurn(t) PROVE RootInv'
  BY <1>2 DEF StartTurn
<1>3. ASSUME NEW t \in Tasks, SkipTurn(t) PROVE RootInv'
  BY <1>3 DEF SkipTurn
<1>4. ASSUME NEW t \in Tasks, EndTurn(t) PROVE RootInv'
  BY <1>4 DEF EndTurn
<1>5. ASSUME NEW t \in Tasks, WatchdogFails(t) PROVE RootInv'
  BY <1>5 DEF WatchdogFails
<1>6. ASSUME NEW t \in Tasks, NEW a \in Agents, NEW mode \in Modes, CreateChild(t, a, mode)
      PROVE  RootInv'
  BY ONLY <1>6, CreateKeepsRoot, TypeInv, TreeInv, RootInv
<1>7. ASSUME NEW t \in Tasks, NEW a \in Agents, NEW mode \in Modes, ReuseChild(t, a, mode)
      PROVE  RootInv'
  BY <1>7 DEF ReuseChild
<1>8. ASSUME NEW t \in Tasks, NEW a \in Agents, RefuseChild(t, a) PROVE RootInv'
  BY <1>8 DEF RefuseChild
<1>9. ASSUME NEW t \in Tasks, EnqueueChild(t) PROVE RootInv'
  BY <1>9 DEF EnqueueChild
<1>10. ASSUME NEW t \in Tasks, DropChildLease(t) PROVE RootInv'
  BY <1>10 DEF DropChildLease, HandedOff
<1>11. ASSUME NEW t \in Tasks, HandoffFails(t) PROVE RootInv'
  BY <1>11 DEF HandoffFails, HandedOff
<1>12. ASSUME NEW t \in Tasks, FinishTask(t) PROVE RootInv'
  BY <1>12 DEF FinishTask, Outcome
<1>13. ASSUME NEW t \in Tasks, ReadEdge(t) PROVE RootInv'
  BY <1>13 DEF ReadEdge
<1>14. ASSUME NEW t \in Tasks, WriteEdge(t) PROVE RootInv'
  BY <1>14 DEF WriteEdge
<1>15. ASSUME NEW t \in Tasks, EvaluateBarrier(t) PROVE RootInv'
  <2>1. CASE ~BarrierOpen(Parent(t))
    BY <1>15, <2>1 DEF EvaluateBarrier, WakeParent
  <2>2. CASE WakeParent(Parent(t))
    BY <1>15, <2>2, HookKeepsRoot
  <2> QED  BY <1>15, <2>1, <2>2 DEF EvaluateBarrier
<1>16. ASSUME NEW t \in Tasks, EnqueueParent(t) PROVE RootInv'
  BY <1>16 DEF EnqueueParent
<1>17. ASSUME NEW t \in Tasks, DropParentLease(t) PROVE RootInv'
  BY <1>17 DEF DropParentLease
<1>18. ASSUME NEW t \in Tasks, HookFails(t) PROVE RootInv'
  BY <1>18 DEF HookFails
<1>19. ASSUME NEW t \in Tasks, EndJob(t) PROVE RootInv'
  BY <1>19 DEF EndJob
<1>20. CASE BeginPass
  BY <1>20 DEF BeginPass
<1>21. ASSUME NEW j \in pass.due, Reschedule(j) PROVE RootInv'
  BY <1>21 DEF Reschedule
<1>22. CASE DropLease
  BY <1>22 DEF DropLease
<1>23. CASE ListEndedChildren
  BY <1>23 DEF ListEndedChildren, Ended
<1>24. ASSUME NEW t \in Tasks, ReconcileEdge(t) PROVE RootInv'
  BY <1>24 DEF ReconcileEdge
<1>25. CASE ListReadyBarriers
  BY <1>25 DEF ListReadyBarriers, Ready
<1>26. ASSUME NEW t \in Tasks, ReconcileBarrier(t) PROVE RootInv'
  <2>1. CASE ~BarrierOpen(t)
    BY <1>26, <2>1 DEF ReconcileBarrier, WakeParent
  <2>2. CASE WakeParent(t)
    BY <1>26, <2>2, PassKeepsRoot
  <2> QED  BY <1>26, <2>1, <2>2 DEF ReconcileBarrier
<1>27. CASE PassEnqueuesParent
  BY <1>27 DEF PassEnqueuesParent
<1>28. CASE PassDropsParentLease
  BY <1>28 DEF PassDropsParentLease
<1>29. CASE EndPass
  BY <1>29 DEF EndPass
<1>30. CASE PassFails
  BY <1>30 DEF PassFails
<1>31. CASE UNCHANGED vars
  BY <1>31 DEF vars
<1> HIDE DEF TypeInv, TypeOK, RootInv, Goto, Enqueue, Fault, Terminal, TerminalStatus,
        TerminalEdge, LeasesOf, NoPass, Step, Leases, rows, jobs, queue, turn
<1> QED
  BY <1>1, <1>2, <1>3, <1>4, <1>5, <1>6, <1>7, <1>8, <1>9, <1>10, <1>11, <1>12, <1>13, <1>14,
     <1>15, <1>16, <1>17, <1>18, <1>19, <1>20, <1>21, <1>22, <1>23, <1>24, <1>25, <1>26,
     <1>27, <1>28, <1>29, <1>30, <1>31
  DEF Next, HandlerTurn, PassTurn

\* loadExistingDelegatedTask: who reuses a child has one.
LEMMA ReuseFindsChild ==
  ASSUME TypeInv, NEW t \in Tasks, NEW a \in Agents, NEW mode \in Modes, ReuseChild(t, a, mode)
  PROVE  Children(t) # {}
<1>1. /\ Append(t, a) \in Tasks /\ IsChild(Append(t, a)) /\ Parent(Append(t, a)) = t
      /\ status[Append(t, a)] # "absent"
  BY ChildIsTask DEF ReuseChild, MayDelegate
<1> QED  BY <1>1 DEF Children, TypeInv, TypeOK

LEMMA CreateKeepsTurns ==
  ASSUME TypeInv, TreeInv, TurnInv, NEW t \in Tasks, NEW a \in Agents, NEW mode \in Modes,
         CreateChild(t, a, mode)
  PROVE  TurnInv'
<1> DEFINE c == Append(t, a)
<1>1. /\ c \in Tasks /\ c # t /\ status[c] = "absent"
      /\ \A d \in Tasks \ {t, c} : status'[d] = status[d]
      /\ status'[c] = "queued" /\ Children(c)' = {}
      /\ status'[t] \in {"waiting_delegation", "running"}
      /\ mode = "return" => status'[t] = "waiting_delegation"
      /\ \A d \in Tasks \ {t} : Children(d)' = Children(d)
      /\ at' = [at EXCEPT ![t] = "handoff"] /\ resume' = resume
      /\ call' = [call EXCEPT ![t] = [to |-> a, mode |-> mode]]
  BY CreateMoves
<1> HIDE DEF c
<1> QED  BY <1>1 DEF TurnInv, TypeInv, TypeOK

LEMMA WakeKeepsTurns ==
  ASSUME TypeInv, KeyInv, TurnInv, NEW p \in Tasks, WakeParent(p), call' = call,
         \A t \in Tasks : at'[t] = at[t] \/ (status[t] # "running" /\ at'[t] = "waking")
  PROVE  TurnInv'
<1>1. /\ status' = [status EXCEPT ![p] = "queued"]
      /\ resume' = [resume EXCEPT ![p] = Callees(p)] /\ Callees(p) # {}
      /\ \A q \in Tasks : Children(q)' = Children(q)
  BY WakeReports
<1> QED  BY <1>1 DEF TurnInv, TypeInv, TypeOK

LEMMA HookKeepsTurns ==
  ASSUME TypeInv, KeyInv, TurnInv, NEW t \in Tasks, EvaluateBarrier(t), WakeParent(Parent(t))
  PROVE  TurnInv'
<1>1. status[t] # "running"
  BY HookWakes DEF TypeInv, TypeOK, Terminal, TerminalStatus
<1>2. \A d \in Tasks : at'[d] = at[d] \/ (status[d] # "running" /\ at'[d] = "waking")
  BY <1>1, HookWakes DEF TypeInv, TypeOK
<1> QED  BY <1>2, HookWakes, WakeKeepsTurns

LEMMA PassKeepsTurns ==
  ASSUME TypeInv, KeyInv, TurnInv, NEW p \in Tasks, ReconcileBarrier(p), WakeParent(p)
  PROVE  TurnInv'
BY PassWakes, WakeKeepsTurns

\* A running task has a turn, or was resumed and called an agent again.
LEMMA TurnStep ==
  ASSUME TypeInv, TreeInv, KeyInv, TurnInv, [Next]_vars
  PROVE  TurnInv'
<1> USE RootIsTask, JobFields
    DEF TypeInv, TypeOK, TurnInv, Goto, Enqueue, Fault, Terminal, TerminalStatus,
        TerminalEdge, LeasesOf, NoPass, Step, Leases, rows, jobs, queue, turn
<1>1. ASSUME NEW j \in created, FetchJob(j) PROVE TurnInv'
  BY <1>1, CalleesByEdges DEF FetchJob, HandlerInv
<1>2. ASSUME NEW t \in Tasks, StartTurn(t) PROVE TurnInv'
  BY <1>2, CalleesByEdges DEF StartTurn
<1>3. ASSUME NEW t \in Tasks, SkipTurn(t) PROVE TurnInv'
  BY <1>3, CalleesByEdges DEF SkipTurn
<1>4. ASSUME NEW t \in Tasks, EndTurn(t) PROVE TurnInv'
  BY <1>4, CalleesByEdges DEF EndTurn
<1>5. ASSUME NEW t \in Tasks, WatchdogFails(t) PROVE TurnInv'
  BY <1>5, CalleesByEdges DEF WatchdogFails
<1>6. ASSUME NEW t \in Tasks, NEW a \in Agents, NEW mode \in Modes, CreateChild(t, a, mode)
      PROVE  TurnInv'
  BY ONLY <1>6, CreateKeepsTurns, TypeInv, TreeInv, TurnInv
<1>7. ASSUME NEW t \in Tasks, NEW a \in Agents, NEW mode \in Modes, ReuseChild(t, a, mode)
      PROVE  TurnInv'
  BY <1>7, ReuseFindsChild, CalleesByEdges DEF ReuseChild
<1>8. ASSUME NEW t \in Tasks, NEW a \in Agents, RefuseChild(t, a) PROVE TurnInv'
  BY <1>8, CalleesByEdges DEF RefuseChild
<1>9. ASSUME NEW t \in Tasks, EnqueueChild(t) PROVE TurnInv'
  BY <1>9, CalleesByEdges DEF EnqueueChild
<1>10. ASSUME NEW t \in Tasks, DropChildLease(t) PROVE TurnInv'
  BY <1>10, CalleesByEdges DEF DropChildLease, HandedOff, Modes
<1>11. ASSUME NEW t \in Tasks, HandoffFails(t) PROVE TurnInv'
  BY <1>11, CalleesByEdges DEF HandoffFails, HandedOff, Modes
<1>12. ASSUME NEW t \in Tasks, FinishTask(t) PROVE TurnInv'
  BY <1>12, CalleesByEdges DEF FinishTask, Outcome
<1>13. ASSUME NEW t \in Tasks, ReadEdge(t) PROVE TurnInv'
  BY <1>13, CalleesByEdges DEF ReadEdge
<1>14. ASSUME NEW t \in Tasks, WriteEdge(t) PROVE TurnInv'
  BY <1>14, CalleesByEdges DEF WriteEdge
<1>15. ASSUME NEW t \in Tasks, EvaluateBarrier(t) PROVE TurnInv'
  <2>1. CASE ~BarrierOpen(Parent(t))
    BY <1>15, <2>1, CalleesByEdges DEF EvaluateBarrier, WakeParent
  <2>2. CASE WakeParent(Parent(t))
    BY <1>15, <2>2, HookKeepsTurns
  <2> QED  BY <1>15, <2>1, <2>2 DEF EvaluateBarrier
<1>16. ASSUME NEW t \in Tasks, EnqueueParent(t) PROVE TurnInv'
  BY <1>16, CalleesByEdges DEF EnqueueParent
<1>17. ASSUME NEW t \in Tasks, DropParentLease(t) PROVE TurnInv'
  BY <1>17, CalleesByEdges DEF DropParentLease
<1>18. ASSUME NEW t \in Tasks, HookFails(t) PROVE TurnInv'
  BY <1>18, CalleesByEdges DEF HookFails
<1>19. ASSUME NEW t \in Tasks, EndJob(t) PROVE TurnInv'
  BY <1>19, CalleesByEdges DEF EndJob
<1>20. CASE BeginPass
  BY <1>20, CalleesByEdges DEF BeginPass
<1>21. ASSUME NEW j \in pass.due, Reschedule(j) PROVE TurnInv'
  BY <1>21, CalleesByEdges DEF Reschedule
<1>22. CASE DropLease
  BY <1>22, CalleesByEdges DEF DropLease
<1>23. CASE ListEndedChildren
  BY <1>23, CalleesByEdges DEF ListEndedChildren, Ended
<1>24. ASSUME NEW t \in Tasks, ReconcileEdge(t) PROVE TurnInv'
  BY <1>24, CalleesByEdges DEF ReconcileEdge
<1>25. CASE ListReadyBarriers
  BY <1>25, CalleesByEdges DEF ListReadyBarriers, Ready
<1>26. ASSUME NEW t \in Tasks, ReconcileBarrier(t) PROVE TurnInv'
  <2>1. CASE ~BarrierOpen(t)
    BY <1>26, <2>1, CalleesByEdges DEF ReconcileBarrier, WakeParent
  <2>2. CASE WakeParent(t)
    BY <1>26, <2>2, PassKeepsTurns
  <2> QED  BY <1>26, <2>1, <2>2 DEF ReconcileBarrier
<1>27. CASE PassEnqueuesParent
  BY <1>27, CalleesByEdges DEF PassEnqueuesParent
<1>28. CASE PassDropsParentLease
  BY <1>28, CalleesByEdges DEF PassDropsParentLease
<1>29. CASE EndPass
  BY <1>29, CalleesByEdges DEF EndPass
<1>30. CASE PassFails
  BY <1>30, CalleesByEdges DEF PassFails
<1>31. CASE UNCHANGED vars
  BY <1>31, CalleesByEdges DEF vars
<1> HIDE DEF TypeInv, TypeOK, TurnInv, Goto, Enqueue, Fault, Terminal, TerminalStatus,
        TerminalEdge, LeasesOf, NoPass, Step, Leases, rows, jobs, queue, turn
<1> QED
  BY <1>1, <1>2, <1>3, <1>4, <1>5, <1>6, <1>7, <1>8, <1>9, <1>10, <1>11, <1>12, <1>13, <1>14,
     <1>15, <1>16, <1>17, <1>18, <1>19, <1>20, <1>21, <1>22, <1>23, <1>24, <1>25, <1>26,
     <1>27, <1>28, <1>29, <1>30, <1>31
  DEF Next, HandlerTurn, PassTurn

(***************************************************************************)
(* What a step of one handler, or of the pass, does to what it carries     *)
(***************************************************************************)
\* The handler of h takes a step that queues nobody: what it was about to enqueue
\* has a job, and so has what it is about to drop a lease of.
HandsOn(h) ==
  /\ \A d \in Tasks \ {h} : at'[d] = at[d] /\ call'[d] = call[d] /\ wake'[d] = wake[d]
  /\ resume' = resume /\ pass' = pass /\ (faults' = 0 => faults = 0)
  /\ \A d \in Tasks : status'[d] = "queued" => status[d] = "queued"
  /\ \A j \in created : j \in created' \/ (j[1] = h /\ at'[h] = "guard")
  /\ at[h] = "guard" => status'[h] # "queued"
  /\ \A d \in Tasks : at[h] = "handoff" /\ Callee(h) = d /\ faults' = 0
       /\ status'[d] = "queued" => HasJob(d)'
  /\ at[h] = "waking" /\ faults' = 0 /\ status'[Parent(h)] = "queued"
       /\ wake[h] = resume[Parent(h)] => HasJob(Parent(h))'
  /\ \A l \in lease \ lease' : status'[l[1]] = "queued" => Dropping(l[1])
  /\ \A d \in Tasks : at'[h] = "unlease" /\ Callee(h)' = d /\ status'[d] = "queued" =>
       HasJob(d)'
  /\ at'[h] = "unleaseParent" /\ status'[Parent(h)] = "queued" /\ FirstRun(Parent(h)) =>
       HasJob(Parent(h))'

LEMMA HandlerCarries ==
  ASSUME TypeInv, EnqueuedInv, LeasedInv, NEW h \in Tasks, HandsOn(h)
  PROVE  EnqueuedInv' /\ LeasedInv'
<1> USE DEF HandsOn
<1>1. \A d \in Tasks \ {h} : Callee(d)' = Callee(d)
  BY DEF Callee
<1>2. ASSUME NEW d \in Tasks, status'[d] = "queued", HasJob(d) PROVE HasJob(d)'
  BY <1>2 DEF HasJob
<1>3. EnqueuedInv'
  <2> SUFFICES ASSUME faults' = 0, NEW d \in Tasks, status'[d] = "queued"
               PROVE  HasJob(d)' \/ BeingEnqueued(d)'
    BY DEF EnqueuedInv
  <2>1. HasJob(d) \/ BeingEnqueued(d)
    BY DEF EnqueuedInv
  <2>2. ASSUME NEW p \in Tasks, at[p] = "handoff", Callee(p) = d
        PROVE  HasJob(d)' \/ BeingEnqueued(d)'
    BY <1>1, <2>2 DEF BeingEnqueued
  <2>3. ASSUME NEW c \in Tasks, at[c] = "waking", Parent(c) = d, wake[c] = resume[d]
        PROVE  HasJob(d)' \/ BeingEnqueued(d)'
    BY <2>3 DEF BeingEnqueued
  <2>4. CASE pass.step = "waking" /\ pass.task = d
    BY <2>4 DEF BeingEnqueued
  <2> QED  BY <1>2, <2>1, <2>2, <2>3, <2>4 DEF BeingEnqueued
<1>4. LeasedInv'
  <2> SUFFICES ASSUME NEW d \in Tasks, status'[d] = "queued", FirstRun(d)
               PROVE  (HasJob(d)' \/ Leased(d)') /\ (Dropping(d)' => HasJob(d)')
    BY DEF LeasedInv, FirstRun
  <2>1. (HasJob(d) \/ Leased(d)) /\ (Dropping(d) => HasJob(d))
    BY DEF LeasedInv
  <2>2. HasJob(d)' \/ Leased(d)'
    <3>1. CASE HasJob(d)
      BY <1>2, <3>1
    <3>2. CASE Leased(d)
      BY <1>2, <2>1, <3>2 DEF Leased, LeasesOf
    <3> QED  BY <2>1, <3>1, <3>2
  <2>3. ASSUME Dropping(d)' PROVE Dropping(d) \/ HasJob(d)'
    <3>1. CASE \E p \in Tasks : at'[p] = "unlease" /\ Callee(p)' = d
      BY <1>1, <3>1 DEF Dropping
    <3>2. CASE \E c \in Tasks : at'[c] = "unleaseParent" /\ Parent(c) = d
      BY <3>2 DEF Dropping
    <3>3. CASE pass.step \in {"unlease", "unleaseParent"} /\ pass.task = d
      BY <3>3 DEF Dropping
    <3> QED  BY <2>3, <3>1, <3>2, <3>3 DEF Dropping
  <2> QED  BY <1>2, <2>1, <2>2, <2>3
<1> QED  BY <1>3, <1>4

\* The same for a step of the pass.
PassHandsOn ==
  /\ UNCHANGED <<status, resume, at, call, wake>> /\ (faults' = 0 => faults = 0)
  /\ created \subseteq created'
  /\ pass.step = "waking" /\ faults' = 0 =>
       (pass'.step = "waking" /\ pass'.task = pass.task)
         \/ \A d \in Tasks : pass.task = d /\ status[d] = "queued" => HasJob(d)'
  /\ \A l \in lease \ lease' : status[l[1]] = "queued" => Dropping(l[1])
  /\ \A d \in Tasks : pass'.step \in {"unlease", "unleaseParent"} /\ pass'.task = d
       /\ status[d] = "queued" /\ FirstRun(d) => HasJob(d)'

LEMMA PassCarries ==
  ASSUME TypeInv, EnqueuedInv, LeasedInv, PassHandsOn
  PROVE  EnqueuedInv' /\ LeasedInv'
<1> USE DEF PassHandsOn
<1>1. \A d \in Tasks : Callee(d)' = Callee(d)
  BY DEF Callee
<1>2. ASSUME NEW d \in Tasks, HasJob(d) PROVE HasJob(d)'
  BY <1>2 DEF HasJob
<1>3. EnqueuedInv'
  <2> SUFFICES ASSUME faults' = 0, NEW d \in Tasks, status[d] = "queued"
               PROVE  HasJob(d)' \/ BeingEnqueued(d)'
    BY DEF EnqueuedInv
  <2>1. HasJob(d) \/ BeingEnqueued(d)
    BY DEF EnqueuedInv
  <2> QED  BY <1>1, <1>2, <2>1 DEF BeingEnqueued
<1>4. LeasedInv'
  <2> SUFFICES ASSUME NEW d \in Tasks, status[d] = "queued", FirstRun(d)
               PROVE  (HasJob(d)' \/ Leased(d)') /\ (Dropping(d)' => HasJob(d)')
    BY DEF LeasedInv, FirstRun
  <2>1. (HasJob(d) \/ Leased(d)) /\ (Dropping(d) => HasJob(d))
    BY DEF LeasedInv
  <2>2. HasJob(d)' \/ Leased(d)'
    BY <1>2, <2>1 DEF Leased, LeasesOf
  <2>3. Dropping(d)' => Dropping(d) \/ HasJob(d)'
    BY <1>1 DEF Dropping
  <2> QED  BY <1>2, <2>1, <2>2, <2>3
<1> QED  BY <1>3, <1>4


(***************************************************************************)
(* A wake and a new child                                                  *)
(***************************************************************************)
\* Nobody is about to drop a lease of the root before it is woken.
LEMMA RootNotDropped ==
  ASSUME TypeInv, RootInv, ~woken
  PROVE  ~Dropping(Root)
<1>1. \A p \in Tasks : at[p] = "unlease" => Callee(p) # Root
  BY NamesOfRoot DEF Callee, TypeInv, TypeOK
<1> QED  BY <1>1 DEF Dropping, RootInv

\* The woken parent is on its way to the queue and has a lease; another task
\* keeps what it had.
LEMMA WakeCarries ==
  ASSUME TypeInv, KeyInv, RootInv, EnqueuedInv, LeasedInv, NEW p \in Tasks, WakeParent(p),
         BeingEnqueued(p)', faults' = faults,
         \A d \in Tasks \ {p} :
           (HasJob(d) => HasJob(d)') /\ (BeingEnqueued(d) => BeingEnqueued(d)'),
         \A d \in Tasks : Dropping(d)' => Dropping(d)
  PROVE  EnqueuedInv' /\ LeasedInv'
<1>1. /\ status' = [status EXCEPT ![p] = "queued"] /\ ~(p = Root /\ woken)
      /\ resume' = [resume EXCEPT ![p] = Callees(p)] /\ Callees(p) # {}
      /\ lease' = (lease \ LeasesOf(p)) \cup {<<p, Callees(p)>>}
  BY WakeReports
<1>2. \A d \in Tasks \ {p} : status'[d] = status[d] /\ resume'[d] = resume[d]
  BY <1>1 DEF TypeInv, TypeOK
<1>3. EnqueuedInv'
  BY <1>2 DEF EnqueuedInv
<1>4. ASSUME NEW d \in Tasks \ {p}, status'[d] = "queued", FirstRun(d)'
      PROVE  (HasJob(d)' \/ Leased(d)') /\ (Dropping(d)' => HasJob(d)')
  <2>1. status[d] = "queued" /\ FirstRun(d)
    BY <1>2, <1>4 DEF FirstRun
  <2>2. (HasJob(d) \/ Leased(d)) /\ (Dropping(d) => HasJob(d))
    BY <2>1 DEF LeasedInv
  <2>3. Leased(d) => Leased(d)'
    BY <1>1 DEF Leased, LeasesOf
  <2> QED  BY <2>2, <2>3
<1>5. ASSUME FirstRun(p)' PROVE Leased(p)' /\ ~Dropping(p)'
  <2>1. p = Root
    BY <1>1, <1>5 DEF FirstRun, TypeInv, TypeOK
  <2>2. ~Dropping(Root)
    BY <1>1, <2>1, RootNotDropped
  <2>3. <<p, Callees(p)>> \in LeasesOf(p)'
    BY <1>1 DEF LeasesOf
  <2> QED  BY <2>1, <2>2, <2>3 DEF Leased
<1> QED  BY <1>3, <1>4, <1>5 DEF LeasedInv

LEMMA HookCarries ==
  ASSUME TypeInv, KeyInv, RootInv, EnqueuedInv, LeasedInv,
         NEW t \in Tasks, EvaluateBarrier(t), WakeParent(Parent(t))
  PROVE  EnqueuedInv' /\ LeasedInv'
<1> PICK p \in Tasks : p = Parent(t)
  BY HookWakes
<1>1. /\ at[t] = "barrier" /\ wake' = [wake EXCEPT ![t] = Callees(p)]
      /\ at' = [at EXCEPT ![t] = "waking"] /\ UNCHANGED <<call, pass, faults>>
  BY HookWakes
<1>2. /\ resume' = [resume EXCEPT ![p] = Callees(p)] /\ UNCHANGED <<created, active>>
  BY WakeReports
<1>3. /\ \A d \in Tasks \ {t} : at'[d] = at[d] /\ wake'[d] = wake[d]
      /\ at'[t] = "waking" /\ wake'[t] = Callees(p)
      /\ \A d \in Tasks \ {p} : resume'[d] = resume[d]
      /\ resume'[p] = Callees(p)
  BY <1>1, <1>2 DEF TypeInv, TypeOK
<1>4. \A d \in Tasks : Callee(d)' = Callee(d)
  BY <1>1 DEF Callee
<1>5. BeingEnqueued(p)'
  BY <1>3 DEF BeingEnqueued
<1>6. ASSUME NEW d \in Tasks \ {p}
      PROVE  (HasJob(d) => HasJob(d)') /\ (BeingEnqueued(d) => BeingEnqueued(d)')
  BY <1>1, <1>2, <1>3, <1>4 DEF HasJob, BeingEnqueued
<1>7. \A d \in Tasks : Dropping(d)' => Dropping(d)
  BY <1>1, <1>3, <1>4 DEF Dropping
<1> QED  BY <1>1, <1>5, <1>6, <1>7, WakeCarries

LEMMA PassWakeCarries ==
  ASSUME TypeInv, KeyInv, RootInv, EnqueuedInv, LeasedInv,
         NEW p \in Tasks, ReconcileBarrier(p), WakeParent(p)
  PROVE  EnqueuedInv' /\ LeasedInv'
<1>1. /\ pass'.step = "waking" /\ pass'.task = p /\ pass.step = "barriers"
      /\ UNCHANGED <<at, call, wake, faults>>
  BY PassWakes
<1>2. /\ resume' = [resume EXCEPT ![p] = Callees(p)] /\ UNCHANGED <<created, active>>
  BY WakeReports
<1>3. \A d \in Tasks \ {p} : resume'[d] = resume[d]
  BY <1>2 DEF TypeInv, TypeOK
<1>4. \A d \in Tasks : Callee(d)' = Callee(d)
  BY <1>1 DEF Callee
<1>5. BeingEnqueued(p)'
  BY <1>1 DEF BeingEnqueued
<1>6. ASSUME NEW d \in Tasks \ {p}
      PROVE  (HasJob(d) => HasJob(d)') /\ (BeingEnqueued(d) => BeingEnqueued(d)')
  BY <1>1, <1>2, <1>3, <1>4 DEF HasJob, BeingEnqueued
<1>7. \A d \in Tasks : Dropping(d)' => Dropping(d)
  BY <1>1, <1>4 DEF Dropping
<1> QED  BY <1>1, <1>5, <1>6, <1>7, WakeCarries

LEMMA CreateCarries ==
  ASSUME TypeInv, TreeInv, KeyInv, EnqueuedInv, LeasedInv,
         NEW t \in Tasks, NEW a \in Agents, NEW mode \in Modes, CreateChild(t, a, mode)
  PROVE  EnqueuedInv' /\ LeasedInv'
<1> PICK c \in Tasks : c = Append(t, a)
  BY CreateMoves
<1>1. /\ c # t /\ at[t] = "turn" /\ status[c] = "absent"
      /\ \A d \in Tasks \ {t, c} : status'[d] = status[d]
      /\ status'[t] # "queued"
      /\ lease' = lease \cup {<<c, {}>>} /\ at' = [at EXCEPT ![t] = "handoff"]
      /\ call' = [call EXCEPT ![t] = [to |-> a, mode |-> mode]]
      /\ UNCHANGED <<resume, created, active, wake, pass, faults>>
  BY CreateMoves
<1>2. /\ at'[t] = "handoff" /\ call'[t].to = a
      /\ \A d \in Tasks \ {t} : at'[d] = at[d] /\ call'[d] = call[d]
  BY <1>1 DEF TypeInv, TypeOK
<1>3. Callee(t)' = c /\ \A d \in Tasks \ {t} : Callee(d)' = Callee(d)
  BY <1>2 DEF Callee
<1>4. ASSUME NEW d \in Tasks, status'[d] = "queued", d # c
      PROVE  /\ status[d] = "queued"
             /\ HasJob(d) => HasJob(d)'
             /\ BeingEnqueued(d) => BeingEnqueued(d)'
             /\ Leased(d) => Leased(d)'
  <2>1. status[d] = "queued" /\ d # t
    BY <1>1, <1>4
  <2>2. BeingEnqueued(d) => BeingEnqueued(d)'
    BY <1>1, <1>2, <1>3 DEF BeingEnqueued
  <2> QED  BY <1>1, <1>2, <2>1, <2>2 DEF HasJob, Leased, LeasesOf
<1>5. BeingEnqueued(c)' /\ Leased(c)'
  <2>1. <<c, {}>> \in LeasesOf(c)'
    BY <1>1 DEF LeasesOf
  <2> QED  BY <1>2, <1>3, <2>1 DEF BeingEnqueued, Leased
<1>6. ~Dropping(c)'
  <2>1. \A p \in Tasks : at'[p] = "unlease" => Callee(p)' # c
    <3>1. \A p \in Tasks : at[p] = "unlease" => status[Callee(p)] # "absent"
      BY DEF TypeInv, TypeOK, HandlerInv
    <3> QED  BY <1>1, <1>2, <1>3, <3>1
  <2>2. \A p \in Tasks : at'[p] = "unleaseParent" => Parent(p) # c
    BY <1>1, <1>2, ResumedExists DEF KeyInv
  <2> QED  BY <1>1, <2>1, <2>2 DEF Dropping, KeyInv
<1>7. \A d \in Tasks : Dropping(d)' => Dropping(d)
  BY <1>1, <1>2, <1>3 DEF Dropping
<1>8. EnqueuedInv'
  BY <1>1, <1>4, <1>5 DEF EnqueuedInv
<1>9. ASSUME NEW d \in Tasks, status'[d] = "queued", FirstRun(d)', d # c
      PROVE  (HasJob(d)' \/ Leased(d)') /\ (Dropping(d)' => HasJob(d)')
  <2>1. status[d] = "queued" /\ FirstRun(d)
    BY <1>1, <1>4, <1>9 DEF FirstRun
  <2> QED  BY <1>4, <1>7, <1>9, <2>1 DEF LeasedInv
<1> QED  BY <1>5, <1>6, <1>8, <1>9 DEF LeasedInv

\* A queued task that is enqueued has a job, or is about to be read.
LEMMA QueuedHasJob ==
  ASSUME TypeOK, GuardInv, NEW d \in Tasks, status[d] = "queued", Enqueue(<<d, resume[d]>>)
  PROVE  at[d] = "guard" \/ \E j \in created' : j[1] = d
BY DEF GuardInv, Enqueue

LEMMA CarryStep ==
  ASSUME TypeInv, TreeInv, KeyInv, GuardInv, RootInv, EnqueuedInv, LeasedInv, [Next]_vars
  PROVE  EnqueuedInv' /\ LeasedInv'
<1> USE JobFields, ParentIsTask, RootIsTask DEF TypeInv, TypeOK, HandlerInv, Goto, Enqueue, Fault, Terminal, TerminalStatus,
        TerminalEdge, LeasesOf, NoPass, Step, Leases, rows, jobs, queue, turn
<1>1. ASSUME NEW j \in created, FetchJob(j) PROVE HandsOn(j[1])
  BY <1>1 DEF FetchJob, HandsOn, HasJob, Callee
<1>2. ASSUME NEW t \in Tasks, StartTurn(t) PROVE HandsOn(t)
  BY <1>2 DEF StartTurn, HandsOn, HasJob, Callee, Dropping
<1>3. ASSUME NEW t \in Tasks, SkipTurn(t) PROVE HandsOn(t)
  BY <1>3 DEF SkipTurn, HandsOn, HasJob, Callee
<1>4. ASSUME NEW t \in Tasks, EndTurn(t) PROVE HandsOn(t)
  BY <1>4 DEF EndTurn, HandsOn, HasJob, Callee
<1>5. ASSUME NEW t \in Tasks, WatchdogFails(t) PROVE HandsOn(t)
  BY <1>5 DEF WatchdogFails, HandsOn, HasJob, Callee
<1>6. ASSUME NEW t \in Tasks, NEW a \in Agents, NEW mode \in Modes, CreateChild(t, a, mode)
      PROVE  EnqueuedInv' /\ LeasedInv'
  BY ONLY <1>6, CreateCarries, TypeInv, TreeInv, KeyInv, EnqueuedInv, LeasedInv
<1>7. ASSUME NEW t \in Tasks, NEW a \in Agents, NEW mode \in Modes, ReuseChild(t, a, mode) PROVE HandsOn(t)
  BY <1>7 DEF ReuseChild, HandsOn, HasJob, Callee
<1>8. ASSUME NEW t \in Tasks, NEW a \in Agents, RefuseChild(t, a) PROVE HandsOn(t)
  BY <1>8 DEF RefuseChild, HandsOn, HasJob, Callee
<1>9. ASSUME NEW t \in Tasks, EnqueueChild(t) PROVE HandsOn(t)
  <2>1. ASSUME NEW d \in Tasks, Callee(t) = d, status[d] = "queued"
        PROVE  HasJob(d)'
    <3>1. at[d] = "guard" \/ \E j \in created' : j[1] = d
      <4>1. Enqueue(<<d, resume[d]>>)
        BY ONLY <1>9, <2>1 DEF EnqueueChild
      <4>2. TypeOK
        BY ONLY TypeInv DEF TypeInv
      <4> QED  BY ONLY <2>1, <4>1, <4>2, QueuedHasJob, GuardInv
    <3>2. at[t] = "handoff" /\ at' = [at EXCEPT ![t] = "unlease"]
      BY <1>9 DEF EnqueueChild
    <3> QED  BY ONLY <2>1, <3>1, <3>2, TypeInv DEF TypeInv, TypeOK, HasJob
  <2> QED  BY <1>9, <2>1 DEF EnqueueChild, HandsOn, Callee
<1>10. ASSUME NEW t \in Tasks, DropChildLease(t) PROVE HandsOn(t)
  BY <1>10 DEF DropChildLease, HandedOff, HandsOn, HasJob, Callee, Dropping
<1>11. ASSUME NEW t \in Tasks, HandoffFails(t) PROVE HandsOn(t)
  BY <1>11 DEF HandoffFails, HandedOff, HandsOn, HasJob, Callee
<1>12. ASSUME NEW t \in Tasks, FinishTask(t) PROVE HandsOn(t)
  BY <1>12 DEF FinishTask, Outcome, HandsOn, HasJob, Callee
<1>13. ASSUME NEW t \in Tasks, ReadEdge(t) PROVE HandsOn(t)
  BY <1>13 DEF ReadEdge, HandsOn, HasJob, Callee
<1>14. ASSUME NEW t \in Tasks, WriteEdge(t) PROVE HandsOn(t)
  BY <1>14 DEF WriteEdge, HandsOn, HasJob, Callee
<1>15. ASSUME NEW t \in Tasks, EvaluateBarrier(t) PROVE EnqueuedInv' /\ LeasedInv'
  <2>1. ASSUME ~BarrierOpen(Parent(t)) PROVE HandsOn(t)
    BY <1>15, <2>1 DEF EvaluateBarrier, WakeParent, HandsOn, HasJob, Callee
  <2>2. ASSUME WakeParent(Parent(t)) PROVE EnqueuedInv' /\ LeasedInv'
    BY ONLY <1>15, <2>2, HookCarries, TypeInv, KeyInv, RootInv, EnqueuedInv, LeasedInv
  <2>3. HandsOn(t) => EnqueuedInv' /\ LeasedInv'
    BY ONLY HandlerCarries, TypeInv, KeyInv, RootInv, EnqueuedInv, LeasedInv, <1>15
  <2> QED  BY <1>15, <2>1, <2>2, <2>3 DEF EvaluateBarrier
<1>16. ASSUME NEW t \in Tasks, EnqueueParent(t) PROVE HandsOn(t)
  <2> DEFINE d == Parent(t)
  <2>1. d \in Tasks
    BY <1>16 DEF EnqueueParent
  <2>2. ASSUME wake[t] = resume[d], status[d] = "queued" PROVE HasJob(d)'
    <3>1. at[d] = "guard" \/ \E j \in created' : j[1] = d
      BY <1>16, <2>1, <2>2, QueuedHasJob DEF EnqueueParent
    <3>2. at[t] = "waking" /\ at' = [at EXCEPT ![t] = "unleaseParent"]
      BY <1>16 DEF EnqueueParent
    <3> QED  BY ONLY <2>1, <3>1, <3>2, TypeInv DEF TypeInv, TypeOK, HasJob
  <2>3. FirstRun(d) => wake[t] = resume[d]
    BY <1>16 DEF EnqueueParent, FirstRun, KeyInv, RootInv
  <2> HIDE DEF d
  <2>4. (status'[d] = "queued" => status[d] = "queued") /\ UNCHANGED d
    BY <1>16 DEF EnqueueParent, d
  <2> QED  BY <1>16, <2>2, <2>3, <2>4 DEF EnqueueParent, HandsOn, Callee, d
<1>17. ASSUME NEW t \in Tasks, DropParentLease(t) PROVE HandsOn(t)
  BY <1>17 DEF DropParentLease, HandsOn, HasJob, Callee, Dropping
<1>18. ASSUME NEW t \in Tasks, HookFails(t) PROVE HandsOn(t)
  BY <1>18 DEF HookFails, HandsOn, HasJob, Callee
<1>19. ASSUME NEW t \in Tasks, EndJob(t) PROVE HandsOn(t)
  BY <1>19 DEF EndJob, HandsOn, HasJob, Callee
<1>20. ASSUME BeginPass PROVE PassHandsOn
  BY <1>20 DEF BeginPass, PassHandsOn, HasJob, Callee
<1>21. ASSUME NEW j \in pass.due, Reschedule(j) PROVE PassHandsOn
  <2>1. j[1] \in Tasks /\ j = <<j[1], j[2]>> /\ j[2] \subseteq resume[j[1]]
    BY <1>21 DEF KeyInv, Jobs
  <2>2. FirstRun(j[1]) => j[2] = resume[j[1]]
    <3>1. j[1] = Root => j[2] = resume[Root]
      BY ONLY <1>21, RootInv DEF RootInv
    <3> QED  BY ONLY <2>1, <3>1 DEF FirstRun
  <2>3. ASSUME FirstRun(j[1]), status[j[1]] = "queued" PROVE HasJob(j[1])'
    <3>1. at[j[1]] = "guard" \/ \E k \in created' : k[1] = j[1]
      BY <1>21, <2>1, <2>2, <2>3, QueuedHasJob DEF Reschedule
    <3> QED  BY <1>21, <3>1 DEF Reschedule, HasJob
  <2> QED  BY <1>21, <2>3 DEF Reschedule, PassHandsOn, FirstRun, HasJob
<1>22. ASSUME DropLease PROVE PassHandsOn
  BY <1>22 DEF DropLease, PassHandsOn, HasJob, Callee, Dropping
<1>23. ASSUME ListEndedChildren PROVE PassHandsOn
  BY <1>23 DEF ListEndedChildren, Ended, PassHandsOn, HasJob, Callee
<1>24. ASSUME NEW t \in Tasks, ReconcileEdge(t) PROVE PassHandsOn
  BY <1>24 DEF ReconcileEdge, PassHandsOn, HasJob, Callee
<1>25. ASSUME ListReadyBarriers PROVE PassHandsOn
  BY <1>25 DEF ListReadyBarriers, Ready, PassHandsOn, HasJob, Callee
<1>26. ASSUME NEW t \in Tasks, ReconcileBarrier(t) PROVE EnqueuedInv' /\ LeasedInv'
  <2>1. ASSUME ~BarrierOpen(t) PROVE PassHandsOn
    BY <1>26, <2>1 DEF ReconcileBarrier, WakeParent, PassHandsOn, HasJob, Callee
  <2>2. ASSUME WakeParent(t) PROVE EnqueuedInv' /\ LeasedInv'
    BY ONLY <1>26, <2>2, PassWakeCarries, TypeInv, KeyInv, RootInv, EnqueuedInv, LeasedInv
  <2>3. PassHandsOn => EnqueuedInv' /\ LeasedInv'
    BY ONLY PassCarries, TypeInv, KeyInv, RootInv, EnqueuedInv, LeasedInv
  <2> QED  BY <1>26, <2>1, <2>2, <2>3 DEF ReconcileBarrier
<1>27. ASSUME PassEnqueuesParent PROVE PassHandsOn
  BY <1>27 DEF PassEnqueuesParent, PassHandsOn, HasJob, Callee, GuardInv, KeyInv
<1>28. ASSUME PassDropsParentLease PROVE PassHandsOn
  BY <1>28 DEF PassDropsParentLease, PassHandsOn, HasJob, Callee, Dropping
<1>29. ASSUME EndPass PROVE PassHandsOn
  BY <1>29 DEF EndPass, PassHandsOn, HasJob, Callee
<1>30. ASSUME PassFails PROVE PassHandsOn
  BY <1>30 DEF PassFails, PassHandsOn, HasJob, Callee
<1>31. ASSUME UNCHANGED vars PROVE PassHandsOn
  <2>1. /\ UNCHANGED <<status, resume, at, call, wake, created, lease, faults>>
        /\ pass' = pass
    BY <1>31 DEF vars
  <2>2. \A d \in Tasks : HasJob(d)' <=> HasJob(d)
    BY ONLY <2>1 DEF HasJob
  <2>3. \A d \in Tasks : pass.step \in {"unlease", "unleaseParent"} /\ pass.task = d
          /\ status[d] = "queued" /\ FirstRun(d) => HasJob(d)
    BY ONLY LeasedInv DEF LeasedInv, Dropping
  <2> QED  BY ONLY <2>1, <2>2, <2>3 DEF PassHandsOn
<1>32. \A t \in Tasks : HandsOn(t) => EnqueuedInv' /\ LeasedInv'
  BY ONLY HandlerCarries, TypeInv, EnqueuedInv, LeasedInv
<1>33. PassHandsOn => EnqueuedInv' /\ LeasedInv'
  BY ONLY PassCarries, TypeInv, EnqueuedInv, LeasedInv
<1>34. \A j \in created : j[1] \in Tasks
  OBVIOUS
<1> HIDE DEF TypeInv, TypeOK, HandlerInv, Goto, Enqueue, Fault, Terminal, TerminalStatus,
             TerminalEdge, LeasesOf, NoPass, Step, Leases, rows, jobs, queue, turn
<1> QED
  BY <1>1, <1>2, <1>3, <1>4, <1>5, <1>6, <1>7, <1>8, <1>9, <1>10, <1>11, <1>12, <1>13, <1>14,
     <1>15, <1>16, <1>17, <1>18, <1>19, <1>20, <1>21, <1>22, <1>23, <1>24, <1>25, <1>26,
     <1>27, <1>28, <1>29, <1>30, <1>31, <1>32, <1>33, <1>34
  DEF Next, HandlerTurn, PassTurn

(***************************************************************************)
(* The state machine of tasks                                              *)
(***************************************************************************)
LEMMA Legal ==
  /\ \A s : Lifecycle!MayBecome(s, s)
  /\ Lifecycle!MayBecome("queued", "running")
  /\ Lifecycle!MayBecome("running", "waiting_delegation")
  /\ \A s \in TerminalStatus : Lifecycle!MayBecome("running", s)
  /\ Lifecycle!MayBecome("waiting_delegation", "queued")
BY DEF Lifecycle!MayBecome, Lifecycle!CanTransition, Lifecycle!Successors, TerminalStatus

\* What may become of the status of t.
Obeys(t) ==
  IF status[t] = "absent" THEN status'[t] \in {"absent", "queued"}
                          ELSE Lifecycle!MayBecome(status[t], status'[t])

\* A task that is there gets another status.
LEMMA OneObeys ==
  ASSUME TypeOK, NEW t \in Tasks, NEW s, status[t] # "absent",
         status' = [status EXCEPT ![t] = s], Lifecycle!MayBecome(status[t], s)
  PROVE  \A d \in Tasks : Obeys(d)
BY Legal DEF Obeys, TypeOK

\* A child is born and its parent may wait.
LEMMA CreateObeys ==
  ASSUME TypeInv, TreeInv, NEW t \in Tasks, NEW a \in Agents, NEW mode \in Modes,
         CreateChild(t, a, mode)
  PROVE  \A d \in Tasks : Obeys(d)
<1>1. /\ Append(t, a) \in Tasks /\ Append(t, a) # t
      /\ status[t] = "running" /\ status[Append(t, a)] = "absent"
      /\ \A d \in Tasks \ {t, Append(t, a)} : status'[d] = status[d]
      /\ status'[Append(t, a)] = "queued"
      /\ status'[t] \in {"waiting_delegation", "running"}
  BY CreateMoves
<1> QED  BY <1>1, Legal DEF Obeys

LEMMA StatusesObey ==
  ASSUME TypeInv, TreeInv, [Next]_vars
  PROVE  \A d \in Tasks : Obeys(d)
<1>1. status' = status => \A d \in Tasks : Obeys(d)
  BY Legal DEF Obeys
<1>2. \A p \in Tasks : WakeParent(p) => \A d \in Tasks : Obeys(d)
  BY WakeMoves, OneObeys, Legal DEF TypeInv
<1>3. ASSUME NEW t \in Tasks, HandlerTurn(t) PROVE \A d \in Tasks : Obeys(d)
  <2>1. CASE StartTurn(t)
    BY <2>1, OneObeys, Legal DEF StartTurn, TypeInv
  <2>2. CASE FinishTask(t)
    <3>1. status[t] = "running" /\ Outcome(t) \in TerminalStatus
      BY <2>2 DEF FinishTask, TypeInv, TypeOK, Outcome, TerminalStatus
    <3>2. status' = [status EXCEPT ![t] = Outcome(t)]
      BY <2>2 DEF FinishTask
    <3> QED  BY <3>1, <3>2, OneObeys, Legal DEF TypeInv
  <2>3. CASE \E a \in Agents, mode \in Modes : CreateChild(t, a, mode)
    BY <2>3, CreateObeys
  <2>4. CASE EvaluateBarrier(t)
    <3>1. WakeParent(Parent(t)) \/ status' = status
      BY <2>4 DEF EvaluateBarrier, rows
    <3>2. Parent(t) \in Tasks
      BY <2>4, ParentIsTask DEF EvaluateBarrier, TypeInv, TypeOK
    <3> QED  BY <1>1, <1>2, <3>1, <3>2
  <2>5. CASE \/ \E j \in created : j[1] = t /\ FetchJob(j)
             \/ SkipTurn(t) \/ EndTurn(t)
             \/ \E a \in Agents, mode \in Modes : ReuseChild(t, a, mode)
             \/ \E a \in Agents : RefuseChild(t, a)
             \/ EnqueueChild(t) \/ DropChildLease(t) \/ ReadEdge(t) \/ WriteEdge(t)
             \/ EnqueueParent(t) \/ DropParentLease(t) \/ EndJob(t)
    BY <1>1, <2>5
    DEF FetchJob, SkipTurn, EndTurn, ReuseChild, RefuseChild, EnqueueChild, DropChildLease,
        ReadEdge, WriteEdge, EnqueueParent, DropParentLease, EndJob, rows
  <2> QED  BY <1>3, <2>1, <2>2, <2>3, <2>4, <2>5 DEF HandlerTurn
<1>4. ASSUME NEW t \in Tasks, WatchdogFails(t) PROVE \A d \in Tasks : Obeys(d)
  <2>1. status[t] = "running" /\ status' = [status EXCEPT ![t] = "failed"]
    BY <1>4 DEF WatchdogFails, TypeInv, TypeOK
  <2>2. Lifecycle!MayBecome(status[t], "failed")
    BY <2>1, Legal DEF TerminalStatus
  <2> QED  BY <2>1, <2>2, OneObeys DEF TypeInv
<1>5. ASSUME NEW t \in Tasks, HandoffFails(t) \/ HookFails(t) PROVE \A d \in Tasks : Obeys(d)
  BY <1>1, <1>5 DEF HandoffFails, HookFails, rows
<1>6. ASSUME PassTurn PROVE \A d \in Tasks : Obeys(d)
  <2>1. ASSUME NEW p \in Tasks, ReconcileBarrier(p) PROVE \A d \in Tasks : Obeys(d)
    BY <1>1, <1>2, <2>1 DEF ReconcileBarrier, rows
  <2>2. CASE ~\E p \in Tasks : ReconcileBarrier(p)
    BY <1>1, <1>6, <2>2
    DEF PassTurn, BeginPass, Reschedule, DropLease, ListEndedChildren, ReconcileEdge,
        ListReadyBarriers, PassEnqueuesParent, PassDropsParentLease, EndPass, rows
  <2> QED  BY <2>1, <2>2
<1>7. CASE PassFails \/ UNCHANGED vars
  BY <1>1, <1>7 DEF PassFails, vars, rows
<1> QED  BY <1>3, <1>4, <1>5, <1>6, <1>7 DEF Next

(***************************************************************************)
(* Theorems                                                                *)
(***************************************************************************)
LEMMA Invariance == Spec => []IInv
<1>1. Init => IInv
  BY Initially
<1>2. IInv /\ [Next]_vars => IInv'
  BY TypeStep, TreeStep, KeyStep, GuardStep, RootStep, TurnStep, CarryStep DEF IInv
<1> QED  BY <1>1, <1>2, PTL DEF Spec

\* Every variable of Delegation keeps its type.
THEOREM TypeCorrect == Spec => []TypeOK
<1>1. IInv => TypeOK
  BY DEF IInv, TypeInv
<1> QED  BY <1>1, Invariance, PTL

\* Every delegation was paid for, and neither the tree nor a fan-out exceeds its
\* budget (reserveDelegationBudget).
THEOREM BudgetsHold == Spec => []Budgets
<1>1. IInv => Budgets
  BY DEF IInv, TreeInv
<1> QED  BY <1>1, Invariance, PTL

\* An edge that has ended tells the child's outcome, whoever wrote it
\* (updateAgentDelegationStatus, reconcileTerminalChildDelegationEdges).
THEOREM EdgesAreTrue == Spec => []EdgesTellOutcome
<1>1. IInv => EdgesTellOutcome
  BY DEF IInv, TreeInv
<1> QED  BY <1>1, Invariance, PTL

\* A parent rests while a child works (evaluateDelegationBarrierForChildTask).
THEOREM ParentRests == Spec => []ParentIdle
<1>1. IInv => ParentIdle
  BY DEF IInv, TreeInv, FamilyInv, ParentIdle
<1> QED  BY <1>1, Invariance, PTL

\* No queued task is without a job to come, no parent waits for children it was
\* told of, no running task is without a turn (enqueueDelegatedChild,
\* deliverDelegationBarrierWake, runAdmissionReschedulerOnce).
THEOREM NobodyStranded == Spec => []NothingStranded
<1>1. IInv => NothingStranded
  <2> SUFFICES ASSUME IInv, NEW t \in Tasks
               PROVE  /\ status[t] = "queued" =>
                           \/ HasJob(t) \/ BeingEnqueued(t) \/ Leased(t)
                           \/ faults > 0 /\ resume[t] # {} /\ t # Root
                      /\ status[t] = "waiting_delegation" => Callees(t) \ resume[t] # {}
                      /\ status[t] = "running" =>
                           \/ at[t] \in {"turn", "handoff", "unlease", "succeeding", "failing"}
                           \/ resume[t] # {}
    BY DEF NothingStranded
  <2>1. faults = 0 \/ faults > 0
    BY DelegationAssumption DEF IInv, TypeInv, TypeOK
  <2>2. CASE FirstRun(t) \/ faults = 0
    BY <2>2 DEF IInv, EnqueuedInv, LeasedInv, KeyInv, TurnInv
  <2>3. CASE ~FirstRun(t) /\ faults > 0
    BY <2>3 DEF IInv, FirstRun, KeyInv, TurnInv
  <2> QED  BY <2>1, <2>2, <2>3
<1> QED  BY <1>1, Invariance, PTL

\* Each resumption of a parent has a job id of its own (delegationResumePhaseKey),
\* so the queue never takes it for a job that is still there.
THEOREM ResumptionsAreNew == Spec => ResumptionIsNew
<1>1. IInv /\ [Next]_vars =>
        (\A t \in Tasks :
           resume'[t] # resume[t] => <<t, resume'[t]>> \notin created \cup active)
  <2> SUFFICES ASSUME IInv, [Next]_vars, NEW t \in Tasks, resume'[t] # resume[t]
               PROVE  <<t, resume'[t]>> \notin created \cup active
    OBVIOUS
  <2>1. TypeInv /\ TypeOK /\ KeyInv
    BY DEF IInv, TypeInv
  <2>2. PICK p \in Tasks : WakeParent(p)
    BY <2>1, ResumedByWake
  <2>3. resume' = [resume EXCEPT ![p] = Callees(p)]
    BY <2>1, <2>2, WakeReports
  <2>4. p = t /\ resume'[t] = Callees(t)
    BY <2>1, <2>3 DEF TypeOK
  <2> QED  BY <2>1, <2>2, <2>4, ResumptionIsFresh
<1> QED  BY <1>1, Invariance, PTL DEF Spec, ResumptionIsNew

\* The delegation's own writes of statuses follow the state machine of the
\* orchestrator (task-state-machine.ts), past which they go.
THEOREM StatusesFollow == Spec => FollowsLifecycle
<1>1. IInv /\ [Next]_vars =>
        (\A t \in Tasks :
           IF status[t] = "absent" THEN status'[t] \in {"absent", "queued"}
                                   ELSE Lifecycle!MayBecome(status[t], status'[t]))
  BY StatusesObey DEF IInv, Obeys
<1> QED  BY <1>1, Invariance, PTL DEF Spec, FollowsLifecycle

===============================================================================
