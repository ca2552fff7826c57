---------------------------- MODULE EventDelivery ----------------------------
(***************************************************************************)
(* What the daemon protocol promises about the events of one dispatch: the *)
(* worker's stream yields the events of the runtime in order, each exactly *)
(* once, and ends with the first terminal one; or it is cut short, either  *)
(* by one failure of the server's making or by the worker itself.          *)
(***************************************************************************)
EXTENDS Naturals, Sequences

CONSTANTS
  Terminal,  \* the events that end a stream
  Failure    \* the failure the server makes up

VARIABLES
  log,      \* the events of the runtime
  yielded,  \* what the stream has yielded
  open      \* the stream is open

vars == <<log, yielded, open>>

Init == log = <<>> /\ yielded = <<>> /\ open = TRUE

Emit ==
  /\ Len(log') > Len(log)
  /\ log = SubSeq(log', 1, Len(log))
  /\ UNCHANGED <<yielded, open>>

Yield ==
  /\ open
  /\ Len(yielded) < Len(log)
  /\ yielded' = Append(yielded, log[Len(yielded) + 1])
  /\ open' = (log[Len(yielded) + 1] \notin Terminal)
  /\ UNCHANGED log

Fail ==
  /\ open
  /\ yielded' = Append(yielded, Failure)
  /\ open' = FALSE
  /\ UNCHANGED log

Stop == open /\ open' = FALSE /\ UNCHANGED <<log, yielded>>

Next == Emit \/ Yield \/ Fail \/ Stop

Spec == Init /\ [][Next]_vars
=============================================================================
