----------------------------- MODULE TaskLifecycle -----------------------------
(***************************************************************************)
(* What the status of a task promises to whoever reads it: the state       *)
(* machine of packages/orchestrator/src/task-state-machine.ts, and the one *)
(* step outside it, by which a starting worker takes a task that its       *)
(* predecessor left running back to the queue (startup-recovery.ts).       *)
(***************************************************************************)
CONSTANT Tasks

VARIABLE status

Successors ==
  [absent             |-> {"pending"},
   pending            |-> {"queued", "failed", "cancelled"},
   queued             |-> {"running", "failed", "cancelled"},
   running            |-> {"waiting_approval", "waiting_delegation",
                           "completed", "failed", "cancelled"},
   waiting_approval   |-> {"completed", "failed", "cancelled"},
   waiting_delegation |-> {"queued", "failed", "cancelled"},
   completed          |-> {},
   failed             |-> {"pending"},
   cancelled          |-> {}]

Status == DOMAIN Successors

CanTransition(from, to) == to \in Successors[from]

IsTerminal(s) == s \in {"completed", "failed", "cancelled"}

\* What a write may make of an existing task.
MayBecome(from, to) ==
  \/ from = to \/ CanTransition(from, to)
  \/ from = "running" /\ to = "queued"

Init == status = [t \in Tasks |-> "absent"]

Transition(t) ==
  \E to \in Successors[status[t]] : status' = [status EXCEPT ![t] = to]

Recover(t) ==
  /\ status[t] = "running"
  /\ status' = [status EXCEPT ![t] = "queued"]

Next == \E t \in Tasks : Transition(t) \/ Recover(t)

Spec == Init /\ [][Next]_status
================================================================================
