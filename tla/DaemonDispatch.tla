---------------------------- MODULE DaemonDispatch ----------------------------
(***************************************************************************)
(* Several dispatches of the worker to one machine, from the remote        *)
(* adapter's first step to the end of the runtime on the machine: the      *)
(* concurrency cap, acceptance, rejection, cancellation, and what a lost   *)
(* connection or a restart of either side leaves behind (apps/worker       *)
(* remote-runtime-adapter.ts and daemon-gateway, apps/daemon               *)
(* dispatch-manager.ts and connection.ts).                                 *)
(*                                                                         *)
(* DaemonStream has the stream of one accepted dispatch.  Here of all      *)
(* events only the terminal one is left, the adapter consumes it when it   *)
(* arrives, artifacts are settled with it, both ends notice a lost         *)
(* connection at once, and a connection lost during its handshake was      *)
(* never registered.                                                       *)
(***************************************************************************)
EXTENDS Integers, FiniteSets, Sequences, SequencesExt

CONSTANTS
  Dispatches,
  Cap,            \* maxConcurrent of the DispatchManager
  MaxFaults       \* bound: lost connections, restarts of worker and daemon

ASSUME DaemonDispatchAssumption ==
  IsFiniteSet(Dispatches) /\ {Cap, MaxFaults} \subseteq Nat

VARIABLES
  (* worker *)
  adapter,      \* the step of each RemoteRuntimeAdapter
  outcome,      \* what the turn was told
  doomed,       \* streams that hold a failure nobody has read (finished)
  misled,       \* streams that held the news of a loss before they were read
  cancelling,   \* turns the watchdog has cancelled
  abandoned,    \* turns that are over while their stream still waits
  (* connection *)
  link,
  hello,        \* runningDispatchIds of the hello under way
  toDaemon,
  toServer,
  (* daemon *)
  active,       \* the DispatchManager's map
  runtime,      \* what runs on the machine for each dispatch
  refusing,     \* cancelRequested while preparing
  unacked,      \* terminal events in replay buffers
  faults        \* bound

worker == <<adapter, outcome, doomed, misled, cancelling, abandoned>>
wire   == <<link, hello, toDaemon, toServer>>
daemon == <<active, runtime, refusing, unacked>>
vars   == <<worker, wire, daemon, faults>>

\* The bridge is registered at the gateway.
Registered == {d \in Dispatches : adapter[d] \in {"registered", "sent", "streaming"}}

\* The dispatch frame is sent (dispatchSent).
Sent == {d \in Dispatches : adapter[d] \in {"sent", "streaming"}}

\* A runtime is being prepared, runs or is being stopped.
Live == {d \in Dispatches : runtime[d] \in {"preparing", "starting", "running", "stopping"}}

Init ==
  /\ adapter = [d \in Dispatches |-> "idle"]
  /\ outcome = [d \in Dispatches |-> "none"]
  /\ doomed = {} /\ misled = {} /\ cancelling = {} /\ abandoned = {}
  /\ link = "down" /\ hello = {}
  /\ toDaemon = <<>> /\ toServer = <<>>
  /\ active = {} /\ refusing = {} /\ unacked = {}
  /\ runtime = [d \in Dispatches |-> "none"]
  /\ faults = 0

(***************************************************************************)
(* The connection                                                          *)
(***************************************************************************)
Frame(type, d) == [type |-> type, dispatch |-> d]
Ended(d, how)  == [type |-> "ended", dispatch |-> d, how |-> how]
HelloOk(resume, cancel) == [type |-> "hello_ok", resume |-> resume, cancel |-> cancel]

\* sendToMachine and sendFrame of the gateway, over a registered connection.
SendToDaemon(frames) ==
  /\ toDaemon' = toDaemon \o frames
  /\ UNCHANGED <<link, hello, toServer>>

Disconnect ==
  /\ link' = "down" /\ hello' = {}
  /\ toDaemon' = <<>> /\ toServer' = <<>>

\* FrameSink.send: what is sent before the handshake is done makes the gateway
\* close the connection ("expected hello first").
SendToServer(frames) ==
  CASE link = "up" ->
         toServer' = toServer \o frames /\ UNCHANGED <<link, hello, toDaemon>>
    [] link = "hello" /\ frames # <<>> -> Disconnect
    [] OTHER -> UNCHANGED wire

Fault == faults < MaxFaults /\ faults' = faults + 1

Drop ==
  /\ link # "down"
  /\ Fault
  /\ Disconnect
  /\ UNCHANGED <<worker, daemon>>

\* Mutant: a dispatch whose event is still to be acked is not announced.
RunningOnlyUnfinished == active \cap Live

\* runningDispatchIds
RunningDispatchIds == {d \in active : d \in Live \/ d \in unacked}

\* connect and sendHello
Connect ==
  /\ link = "down"
  /\ link' = "hello" /\ hello' = RunningDispatchIds
  /\ UNCHANGED <<toDaemon, toServer, worker, daemon, faults>>

\* Streams that get a failure: one that is being read ends its turn, another one
\* keeps the first failure it gets and is not stopped by it.
FailStreams(ds, why) ==
  LET read == {d \in ds : adapter[d] = "streaming"}
  IN
  /\ adapter' = [d \in Dispatches |-> IF d \in read THEN "over" ELSE adapter[d]]
  /\ outcome' = [d \in Dispatches |->
                   IF d \in read /\ outcome[d] = "none" THEN why ELSE outcome[d]]
  /\ doomed' = doomed \cup (ds \ read)
  /\ misled' = IF why = "lost" THEN misled \cup (ds \ (read \cup doomed)) ELSE misled
  /\ abandoned' = abandoned \ read
  /\ UNCHANGED cancelling

\* Mutant: dispatches the server knows nothing about are left alone.
NotOwned(ids) == {}

\* cancelDispatchIds
Unowned(ids) == ids \ Registered

\* Mutant: nobody is told.
NotMissed == {}

\* Owned, and absent from runningDispatchIds: the daemon restarted without them.
Missing == Registered \ hello

\* handleHello after markMachineOnline
HandleHello ==
  /\ link = "hello"
  /\ link' = "up" /\ hello' = {}
  /\ toDaemon' = <<HelloOk(Registered \cap hello, Unowned(hello))>>
  /\ FailStreams(Missing, "lost")
  /\ UNCHANGED <<toServer, daemon, faults>>

(***************************************************************************)
(* The worker: RemoteRuntimeAdapter and its turn                           *)
(***************************************************************************)
Finish(d, how) ==
  /\ adapter' = [adapter EXCEPT ![d] = "over"]
  /\ outcome' = [outcome EXCEPT ![d] = IF @ = "none" THEN how ELSE @]
  /\ doomed' = doomed \ {d}
  /\ abandoned' = abandoned \ {d}
  /\ UNCHANGED <<misled, cancelling>>

Advance(d, step) ==
  /\ adapter' = [adapter EXCEPT ![d] = step]
  /\ UNCHANGED <<outcome, doomed, misled, cancelling, abandoned>>

\* execute, resume: register the bridge, then wait for the images.
Execute(d) ==
  /\ adapter[d] = "idle"
  /\ IF d \in cancelling \/ link # "up" THEN Finish(d, "failed") ELSE Advance(d, "registered")
  /\ UNCHANGED <<wire, daemon, faults>>

\* dispatchAndAwaitAccept: a cancel that came meanwhile is not looked at.
Dispatch(d) ==
  /\ adapter[d] = "registered"
  /\ \/ link = "up" /\ Advance(d, "sent") /\ SendToDaemon(<<Frame("dispatch", d)>>)
     \/ link # "up" /\ Finish(d, "failed") /\ UNCHANGED wire
  /\ UNCHANGED <<daemon, faults>>

AcceptTimesOut(d) ==
  /\ adapter[d] = "sent"
  /\ Finish(d, "failed")
  /\ UNCHANGED <<wire, daemon, faults>>

\* The disconnect grace ends.
GraceExpires(d) ==
  /\ link # "up"
  /\ d \in Registered \ doomed
  /\ FailStreams({d}, "failed")
  /\ UNCHANGED <<wire, daemon, faults>>

\* RuntimeWatchdog.scan: cancel reports success unless a sent dispatch has no
\* connection; then the turn is failed, and its stream ends with the next event.
WatchdogCancels(d) ==
  /\ adapter[d] # "over" /\ d \notin cancelling \cup abandoned
  /\ \/ /\ d \notin Sent
        /\ cancelling' = cancelling \cup {d}
        /\ UNCHANGED <<adapter, outcome, doomed, misled, abandoned, wire>>
     \/ /\ d \in Sent /\ link = "up"
        /\ cancelling' = cancelling \cup {d}
        /\ SendToDaemon(<<Frame("cancel", d)>>)
        /\ UNCHANGED <<adapter, outcome, doomed, misled, abandoned>>
     \/ /\ d \in Sent /\ link # "up"
        /\ abandoned' = abandoned \cup {d}
        /\ outcome' = [outcome EXCEPT ![d] = "failed"]
        /\ UNCHANGED <<adapter, doomed, misled, cancelling, wire>>
  /\ UNCHANGED <<daemon, faults>>

\* The forced cancel of later scans; one frame at a time.
WatchdogForces(d) ==
  /\ d \in cancelling \cap Sent /\ link = "up"
  /\ ~Contains(toDaemon, Frame("cancel", d))
  /\ SendToDaemon(<<Frame("cancel", d)>>)
  /\ UNCHANGED <<worker, daemon, faults>>

\* A frame of the daemon is routed to its bridge.
Receive(type) ==
  /\ toServer # <<>> /\ Head(toServer).type = type
  /\ toServer' = Tail(toServer)
  /\ UNCHANGED <<link, hello, daemon, faults>>

\* The stream is read from its first event on, which may be a failure it holds.
ReceiveAccepted ==
  /\ Receive("accepted")
  /\ LET d == Head(toServer).dispatch
     IN CASE adapter[d] = "sent" /\ d \in doomed ->
                Finish(d, IF d \in misled THEN "lost" ELSE "failed")
          [] adapter[d] = "sent" /\ d \notin doomed -> Advance(d, "streaming")
          [] OTHER -> UNCHANGED worker
  /\ UNCHANGED toDaemon

ReceiveRejected ==
  /\ Receive("rejected")
  /\ LET d == Head(toServer).dispatch
     IN IF adapter[d] = "sent" THEN Finish(d, "rejected") ELSE UNCHANGED worker
  /\ UNCHANGED toDaemon

\* With a bridge or without one, the event is acked.
ReceiveEnded ==
  /\ Receive("ended")
  /\ LET d == Head(toServer).dispatch
     IN /\ IF adapter[d] = "streaming" THEN Finish(d, Head(toServer).how) ELSE UNCHANGED worker
        /\ toDaemon' = Append(toDaemon, Frame("ack", d))

ReceiveLost ==
  /\ Receive("lost")
  /\ LET d == Head(toServer).dispatch
     IN IF d \in Registered THEN FailStreams({d}, "lost") ELSE UNCHANGED worker
  /\ UNCHANGED toDaemon

\* Every bridge and every turn is gone with the process.
WorkerRestarts ==
  /\ Fault
  /\ adapter' = [d \in Dispatches |-> IF d \in Registered THEN "over" ELSE adapter[d]]
  /\ outcome' = [d \in Dispatches |->
                   IF d \in Registered /\ outcome[d] = "none" THEN "failed" ELSE outcome[d]]
  /\ doomed' = {} /\ abandoned' = {}
  /\ Disconnect
  /\ UNCHANGED <<misled, cancelling, daemon>>

(***************************************************************************)
(* The daemon: DispatchManager                                             *)
(***************************************************************************)
Take(type) ==
  /\ toDaemon # <<>> /\ Head(toDaemon).type = type
  /\ UNCHANGED <<worker, faults>>

\* The frame is taken; frames are sent in return.
Reply(frames) ==
  /\ toDaemon' = Tail(toDaemon)
  /\ toServer' = toServer \o frames
  /\ UNCHANGED <<link, hello>>

\* Mutant: a dispatch counts when it is prepared.
PreparedCount == Cardinality({d \in active \cap Live : runtime[d] # "preparing"})

\* activeCount
ActiveCount == Cardinality(active \cap Live)

\* handleDispatch up to its await
HandleDispatch ==
  /\ Take("dispatch")
  /\ LET d == Head(toDaemon).dispatch
     IN \/ /\ ActiveCount >= Cap
           /\ Reply(<<Frame("rejected", d)>>)
           /\ UNCHANGED daemon
        \/ /\ ActiveCount < Cap
           /\ active' = active \cup {d}
           /\ runtime' = [runtime EXCEPT ![d] = "preparing"]
           /\ Reply(<<>>)
           /\ UNCHANGED <<refusing, unacked>>

\* prepareDispatch fails, or was cancelled meanwhile.
Refuse(d) ==
  /\ runtime[d] = "preparing"
  /\ active' = active \ {d}
  /\ runtime' = [runtime EXCEPT ![d] = "none"]
  /\ refusing' = refusing \ {d}
  /\ SendToServer(<<Frame("rejected", d)>>)
  /\ UNCHANGED <<unacked, worker, faults>>

Accept(d) ==
  /\ runtime[d] = "preparing" /\ d \notin refusing
  /\ runtime' = [runtime EXCEPT ![d] = "starting"]
  /\ SendToServer(<<Frame("accepted", d)>>)
  /\ UNCHANGED <<active, refusing, unacked, worker, faults>>

\* The runtime's own prepare is done and its execution is registered.
Start(d) ==
  /\ runtime[d] = "starting"
  /\ runtime' = [runtime EXCEPT ![d] = "running"]
  /\ UNCHANGED <<active, refusing, unacked, worker, wire, faults>>

\* runLoop: the terminal event is buffered and sent.
End(d, how) ==
  /\ runtime[d] \in {"starting", "running", "stopping"}
  /\ runtime[d] = "starting" => how = "failed"
  /\ runtime' = [runtime EXCEPT ![d] = how]
  /\ unacked' = unacked \cup {d}
  /\ SendToServer(<<Ended(d, how)>>)
  /\ UNCHANGED <<active, refusing, worker, faults>>

\* cancel: a runtime that is not registered yet is not found and runs on.
CancelRuntimes(ds) ==
  /\ refusing' = refusing \cup {d \in ds : runtime[d] = "preparing"}
  /\ runtime' = [d \in Dispatches |->
                   IF d \in ds /\ runtime[d] = "running" THEN "stopping" ELSE runtime[d]]

HandleCancel ==
  /\ Take("cancel")
  /\ CancelRuntimes({Head(toDaemon).dispatch} \cap active)
  /\ Reply(<<>>)
  /\ UNCHANGED <<active, unacked>>

HandleAck ==
  /\ Take("ack")
  /\ LET d == Head(toDaemon).dispatch
     IN unacked' = unacked \ {d} /\ active' = active \ {d}
  /\ Reply(<<>>)
  /\ UNCHANGED <<runtime, refusing>>

\* onHelloOk: what the server resumes and the daemon does not know is lost.
ReportLost(resume) ==
  SetToSeq({Frame("lost", d) : d \in resume \ RunningDispatchIds})

\* onHelloOk and reconcileOnReconnect
HandleHelloOk ==
  /\ Take("hello_ok")
  /\ LET ok == Head(toDaemon)
     IN /\ CancelRuntimes(ok.cancel \cap active)
        /\ active' = active \ ok.cancel
        /\ unacked' = unacked \ ok.cancel
        /\ Reply(ReportLost(ok.resume)
                 \o SetToSeq({Ended(d, runtime[d]) : d \in ok.resume \cap active \cap unacked}))

DaemonRestarts ==
  /\ Fault
  /\ active' = {} /\ refusing' = {} /\ unacked' = {}
  /\ runtime' = [d \in Dispatches |-> IF d \in Live THEN "failed" ELSE runtime[d]]
  /\ Disconnect
  /\ UNCHANGED worker

(***************************************************************************)
(* The system                                                              *)
(***************************************************************************)
WorkerReceives ==
  \/ ReceiveAccepted
  \/ ReceiveRejected
  \/ ReceiveEnded
  \/ ReceiveLost

WorkerTimers ==
  \E d \in Dispatches :
    \/ Dispatch(d)
    \/ AcceptTimesOut(d)
    \/ GraceExpires(d)
    \/ WatchdogCancels(d)

DaemonReceives ==
  \/ HandleDispatch
  \/ HandleCancel
  \/ HandleAck
  \/ HandleHelloOk

\* What the daemon does by itself; a runtime that nobody stops may run for ever.
DaemonWorks ==
  \E d \in Dispatches :
    \/ Refuse(d)
    \/ Accept(d)
    \/ Start(d)
    \/ runtime[d] = "stopping" /\ \E how \in {"completed", "failed"} : End(d, how)

Next ==
  \/ \E d \in Dispatches :
       \/ Execute(d)
       \/ WatchdogForces(d)
       \/ \E how \in {"completed", "failed"} : End(d, how)
  \/ WorkerReceives
  \/ WorkerTimers
  \/ DaemonReceives
  \/ DaemonWorks
  \/ Connect
  \/ HandleHello
  \/ Drop
  \/ WorkerRestarts
  \/ DaemonRestarts

Spec == Init /\ [][Next]_vars

\* Event loops and timers of both processes; the daemon reconnects for ever.
Fairness ==
  /\ WF_vars(WorkerReceives)
  /\ WF_vars(WorkerTimers)
  /\ \A d \in Dispatches : WF_vars(WatchdogForces(d))
  /\ WF_vars(DaemonReceives)
  /\ WF_vars(DaemonWorks)
  /\ WF_vars(Connect \/ HandleHello)

FairSpec == Spec /\ Fairness

(***************************************************************************)
(* Properties                                                              *)
(***************************************************************************)
\* Every variable keeps its type; only registered streams hold a failure, and a
\* replay buffer keeps the event of a runtime that has ended.
TypeOK ==
  /\ adapter \in [Dispatches -> {"idle", "registered", "sent", "streaming", "over"}]
  /\ outcome \in [Dispatches -> {"none", "completed", "failed", "rejected", "lost"}]
  /\ doomed \subseteq Registered /\ abandoned \subseteq Sent /\ misled \subseteq Dispatches
  /\ cancelling \subseteq Dispatches
  /\ link \in {"down", "hello", "up"} /\ hello \subseteq Dispatches
  /\ link # "up" => toDaemon = <<>> /\ toServer = <<>>
  /\ active \subseteq Dispatches
  /\ refusing \subseteq {d \in Dispatches : runtime[d] = "preparing"}
  /\ unacked \subseteq Dispatches \ Live
  /\ runtime \in [Dispatches ->
       {"none", "preparing", "starting", "running", "stopping", "completed", "failed"}]
  /\ faults \in 0..MaxFaults

\* dispatch-manager.ts: a dispatch counts from before its first await, "otherwise
\* the cap is breached".  The runtimes the daemon keeps track of are never more
\* than its cap, whatever dispatches are prepared side by side.
WithinCap == Cardinality({d \in active : runtime[d] \in {"preparing", "starting", "running", "stopping"}}) <= Cap

\* The worker only tells its user what happened on the machine: success if the
\* runtime completed, a rejection if it never ran, and a loss only of a dispatch
\* the daemon does not hold - never of one that finished during a lost connection.
\* Excepted is a stream the gateway misled: it missed the dispatch in a hello
\* before the frame was sent, the adapter sent it all the same, and the turn reads
\* that it is lost while the machine runs it.
ToldTheTruth ==
  \A d \in Dispatches :
    /\ outcome[d] = "completed" => runtime[d] = "completed"
    /\ outcome[d] = "rejected" => runtime[d] = "none"
    /\ outcome[d] = "lost" => d \notin active \/ d \in misled

\* While the machine is connected a turn that reads its stream reads one that will
\* end: the daemon runs its dispatch, or the terminal event or the news of a loss
\* is on its way, or the answer to the hello is that makes the daemon send one of
\* them - whatever was sent, acked or cancelled over earlier connections.  A lost
\* connection has the grace timer, and an unanswered dispatch the accept timeout.
StreamIsFed ==
  \A d \in Dispatches :
    adapter[d] = "streaming" /\ link = "up" =>
      \/ d \in active /\ runtime[d] \in {"starting", "running", "stopping"}
      \/ \E f \in ToSet(toServer) : f.dispatch = d /\ f.type \in {"ended", "lost"}
      \/ \E f \in ToSet(toDaemon) : f.type = "hello_ok" /\ d \in f.resume

\* Every turn on a machine ends: it is accepted, rejected or timed out, its
\* terminal event or the news that the daemon lost it arrives, the grace expires,
\* or the watchdog's cancel gets through - in any order with reconnects.
DispatchSettles ==
  \A d \in Dispatches :
    d \in Registered ~> adapter[d] = "over" \/ d \in abandoned

\* A runtime of which nobody at the server wants to hear any more does not
\* outlive the next reconnect: the gateway asks to cancel what the daemon claims
\* and it no longer owns, whatever the two agreed on before the connection broke.
OrphanStops ==
  \A d \in Dispatches :
    /\ adapter[d] = "over" /\ link = "down"
    /\ d \in active /\ runtime[d] = "running"
    ~> runtime[d] # "running"

\* remote-runtime-adapter.ts: a cancel that came before the dispatch is latched;
\* "Reporting success without remembering it would let the dispatch proceed
\* afterwards".  No dispatch is sent for a turn that was cancelled.
CancelledIsNotSent ==
  [][\A d \in cancelling : d \in Sent' => d \in Sent]_vars
=============================================================================
