----------------------------- MODULE DaemonStream -----------------------------
(***************************************************************************)
(* The event stream of ONE dispatch between a user's daemon and the        *)
(* worker's gateway:                                                       *)
(*                                                                         *)
(*   daemon   DispatchManager.runLoop/emit/ack/reconcileOnReconnect with   *)
(*            the per-dispatch EventReplayBuffer, and ConnectionManager    *)
(*   wire     any number of WebSockets, one FIFO channel per direction;    *)
(*            each end notices a dead socket at a moment of its own        *)
(*   worker   DaemonGateway (handshake, routing, closing of sockets) and   *)
(*            RemoteRuntimeAdapter (SeqTracker, acks, grace timer, stream) *)
(*                                                                         *)
(* The model starts right after task_accepted: both ends know the dispatch *)
(* and the first socket is up.  One daemon process owns the machine; how   *)
(* dispatches are accepted, rejected and cancelled is outside.             *)
(***************************************************************************)
EXTENDS Integers, Sequences, FiniteSetsExt

CONSTANTS
  Sockets,         \* identities of WebSockets; reused once both ends forgot one
  NoSocket,
  Events,          \* what the runtime may yield: records [type, bytes]
  ArtifactChoices, \* whether artifact collection finds refs: a subset of BOOLEAN
  MaxCount,        \* EventReplayBuffer.maxCount
  MaxBytes,        \* EventReplayBuffer.maxBytes
  FrameCap,        \* MAX_FRAME_BYTES
  TruncatedBytes,  \* size of a truncated stdout/stderr event
  FailureBytes,    \* size of a synthetic `failed' event
  MaxEvents,       \* bound: events the runtime yields
  MaxDrops         \* bound: sockets the network kills

Event == [type : {"stdout", "status", "completed", "failed"}, bytes : Nat]

ASSUME ConstantsAssumption ==
  /\ NoSocket \notin Sockets
  /\ Events \subseteq Event
  /\ ArtifactChoices \subseteq BOOLEAN
  /\ {MaxCount, MaxBytes, FrameCap, TruncatedBytes, FailureBytes} \subseteq Nat
  /\ TruncatedBytes <= FrameCap
  /\ FailureBytes <= FrameCap
  /\ {MaxEvents, MaxDrops} \subseteq Nat

VARIABLES
  (* daemon: the entry of the dispatch in DispatchManager.active *)
  log,         \* history: log[n] is the event that buffer.append numbered n
  entries,     \* EventReplayBuffer.entries, the retained unacked events
  overflowed,  \* EventReplayBuffer.overflowed
  loop,        \* runLoop: "running", "settling" artifacts, or "over"
  terminal,    \* entry.terminal
  settled,     \* entry.artifactsSettled
  artifacts,   \* entry.artifacts holds refs
  tracked,     \* DispatchManager.active has the dispatch
  (* daemon: the process and its socket *)
  process,     \* "first" run of the process, "second" (restarted) or "exited"
  dsock,       \* ConnectionManager.ws
  (* wire *)
  d2s, s2d,    \* frames in flight on each socket
  drops,       \* sockets killed by the network so far
  (* worker: DaemonGateway *)
  ssock,       \* readyState of the server's end of each socket
  awaiting,    \* handleHello of the socket is inside await markMachineOnline
  announced,   \* runningDispatchIds of that hello contains the dispatch
  helloDone,   \* MachineConnection.helloDone
  registered,  \* connections.get(machineId)
  (* worker: RemoteRuntimeAdapter *)
  bridge,      \* the dispatch is registered in the gateway's bridges
  received,    \* daemon events pushed to the stream, in push order
  outOfOrder,  \* future events held until the gap fills
  failAt,      \* a server-made `failed' was pushed after this many of them
  failCause,   \* what made the server push it
  yielded,     \* events the generator has yielded to the worker
  connected,   \* RemoteRuntimeAdapter.connected
  grace,       \* the grace timer is armed
  lastAcked,   \* RemoteRuntimeAdapter.lastAckedSeq
  cached       \* artifactsCache holds the refs

bufferVars  == <<log, entries, overflowed>>
entryVars   == <<loop, terminal, settled, artifacts, tracked>>
daemonVars  == <<bufferVars, entryVars, process, dsock>>
gatewayVars == <<ssock, awaiting, announced, helloDone, registered>>
streamVars  == <<bridge, received, outOfOrder, failAt, failCause, yielded>>
adapterVars == <<streamVars, connected, grace, lastAcked, cached>>
vars == <<daemonVars, d2s, s2d, drops, gatewayVars, adapterVars>>

None == -1

Entry == [seq : Nat, event : Event]

DaemonFrame ==
  [type : {"hello"}, running : BOOLEAN]
    \cup [type : {"task_event"}, seq : Nat, event : Event]
    \cup [type : {"task_lost", "artifacts"}]

ServerFrame ==
  [type : {"hello_ok"}, resume : BOOLEAN, cancel : BOOLEAN]
    \cup [type : {"event_ack"}, lastSeq : Nat]
    \cup [type : {"superseded"}]

HelloFrame(running)    == [type |-> "hello", running |-> running]
EventFrame(seq, event) == [type |-> "task_event", seq |-> seq, event |-> event]
LostFrame              == [type |-> "task_lost"]
ArtifactsFrame         == [type |-> "artifacts"]
AckFrame(seq)          == [type |-> "event_ack", lastSeq |-> seq]
SupersededFrame        == [type |-> "superseded"]
HelloOkFrame(resume, cancel) ==
  [type |-> "hello_ok", resume |-> resume, cancel |-> cancel]

IsTerminal(event) == event.type \in {"completed", "failed"}
Failure           == [type |-> "failed", bytes |-> FailureBytes]

(***************************************************************************)
(* EventReplayBuffer.  totalBytes is the sum of the retained sizes.        *)
(***************************************************************************)
NextSeqTwiceCounted == Len(log) + 2
NextSeq == Len(log) + 1

TotalBytes == MapThenSumSet(LAMBDA i : entries[i].event.bytes, DOMAIN entries)

\* append retains the event it numbers unless a bound would be exceeded.
Retains(event) ==
  /\ ~overflowed
  /\ Len(entries) + 1 <= MaxCount
  /\ TotalBytes + event.bytes <= MaxBytes

BufferAppendUnmarked(event) ==
  /\ log' = Append(log, event)
  /\ overflowed' = overflowed
  /\ entries' = IF Retains(event)
                THEN Append(entries, [seq |-> NextSeq, event |-> event])
                ELSE entries
BufferAppend(event) ==
  /\ log' = Append(log, event)
  /\ overflowed' = ~Retains(event)
  /\ entries' = IF Retains(event)
                THEN Append(entries, [seq |-> NextSeq, event |-> event])
                ELSE entries

BufferAckOneMore(lastSeq) ==
  entries' = SubSeq(entries, Cardinality({i \in DOMAIN entries : entries[i].seq <= lastSeq}) + 2,
                    Len(entries))
\* ack drops the longest head whose seqs are all <= lastSeq.
BufferAck(lastSeq) ==
  \E n \in 0 .. Len(entries) :
    /\ \A i \in 1 .. n : entries[i].seq <= lastSeq
    /\ n < Len(entries) => entries[n + 1].seq > lastSeq
    /\ entries' = SubSeq(entries, n + 1, Len(entries))

(***************************************************************************)
(* The wire.  A frame sent on a socket whose other end is gone is lost.    *)
(***************************************************************************)
DaemonSends(frames) ==
  d2s' = IF dsock # NoSocket /\ ssock[dsock] # "closed"
         THEN [d2s EXCEPT ![dsock] = @ \o frames]
         ELSE d2s

\* The channels to the daemon after the server wrote frames on socket s.
Sent(channels, s, frames) ==
  IF ssock[s] = "open" /\ dsock = s
  THEN [channels EXCEPT ![s] = @ \o frames]
  ELSE channels

\* socket.close() by the server: only an open socket changes.
ClosedByServer(s) ==
  [ssock EXCEPT ![s] = IF @ = "open" THEN "closing" ELSE @]

(***************************************************************************)
(* Daemon: runLoop and emit.                                               *)
(***************************************************************************)
Fits(event) == event.bytes <= FrameCap

\* preflightEvent for the events that can be made to fit a frame.
Preflight(event) ==
  IF Fits(event) THEN event ELSE [event EXCEPT !.bytes = TruncatedBytes]

\* The runtime yields an event that the buffer retains.
EmitRetained(raw) ==
  LET event == Preflight(raw) IN
  /\ Fits(raw) \/ raw.type = "stdout"
  /\ Retains(event)
  /\ BufferAppend(event)
  /\ DaemonSends(<<EventFrame(NextSeq, event)>>)
  /\ terminal' = IsTerminal(event)
  /\ loop' = IF IsTerminal(event) THEN "settling" ELSE "running"

\* The event overflows the buffer: it takes a seq but is sent only when it is
\* itself `failed'; a synthetic failure takes the next seq, is sent and not
\* retained, and runLoop returns without collecting artifacts.
EmitOverflow(raw) ==
  LET event == Preflight(raw) IN
  /\ Fits(raw) \/ raw.type = "stdout"
  /\ ~Retains(event)
  /\ log' = log \o <<event, Failure>>
  /\ overflowed' = TRUE
  /\ DaemonSends((IF event.type = "failed" THEN <<EventFrame(NextSeq, event)>> ELSE <<>>)
                   \o <<EventFrame(NextSeq + 1, Failure)>>)
  /\ terminal' = TRUE
  /\ loop' = "over"
  /\ UNCHANGED entries

\* An oversized event that cannot be truncated is replaced by a failure.
EmitOversized(raw) ==
  /\ ~Fits(raw) /\ raw.type # "stdout"
  /\ BufferAppend(Failure)
  /\ DaemonSends(IF Retains(Failure) THEN <<EventFrame(NextSeq, Failure)>> ELSE <<>>)
  /\ terminal' = TRUE
  /\ loop' = "over"

\* One turn of the for-await loop of runLoop.
RuntimeYields(raw) ==
  /\ loop = "running"
  /\ IsTerminal(raw) \/ Len(log) < MaxEvents
  /\ EmitRetained(raw) \/ EmitOverflow(raw) \/ EmitOversized(raw)
  /\ UNCHANGED <<settled, artifacts, tracked, process, dsock, s2d, drops,
                 gatewayVars, adapterVars>>

\* The stream throws: a failure is emitted, and sent even if not retained.
RuntimeThrows ==
  /\ loop = "running"
  /\ BufferAppend(Failure)
  /\ DaemonSends(<<EventFrame(NextSeq, Failure)>>)
  /\ terminal' = TRUE
  /\ loop' = "settling"
  /\ UNCHANGED <<settled, artifacts, tracked, process, dsock, s2d, drops,
                 gatewayVars, adapterVars>>

\* The dispatch leaves DispatchManager.active: over, settled, all of it acked.
RetiredWithPending == terminal' /\ settled'
Retired            == terminal' /\ settled' /\ entries' = <<>>

\* Artifact refs are collected and sent, then the retirement that ack deferred.
SettleArtifacts(refs) ==
  /\ loop = "settling"
  /\ artifacts' = refs
  /\ DaemonSends(IF refs THEN <<ArtifactsFrame>> ELSE <<>>)
  /\ settled' = TRUE
  /\ UNCHANGED <<bufferVars, terminal>>
  /\ tracked' = (tracked /\ ~Retired)
  /\ loop' = "over"
  /\ UNCHANGED << process, dsock, s2d, drops, gatewayVars, adapterVars>>

(***************************************************************************)
(* Daemon: the socket.                                                     *)
(***************************************************************************)
\* What the daemon announces in hello.
RunningOnlyUnfinished == tracked /\ ~terminal
RunningDispatchIds    == tracked /\ (~terminal \/ entries # <<>>)

\* connect, the server's upgrade, and the hello sent when the socket opens.
Connect ==
  /\ process # "exited"
  /\ dsock = NoSocket
  /\ \E s \in Sockets :
       /\ ssock[s] = "closed" /\ ~awaiting[s] /\ registered # s
       /\ dsock' = s
       /\ ssock' = [ssock EXCEPT ![s] = "open"]
       /\ helloDone' = [helloDone EXCEPT ![s] = FALSE]
       /\ d2s' = [d2s EXCEPT ![s] = <<HelloFrame(RunningDispatchIds)>>]
  /\ UNCHANGED <<bufferVars, entryVars, process, s2d, drops, awaiting, announced,
                 registered, adapterVars>>

\* onClose at the daemon: the peer closed the socket, or the network did.
DaemonSocketClosed ==
  /\ dsock # NoSocket
  /\ \/ ssock[dsock] # "open" /\ UNCHANGED drops
     \/ ssock[dsock] = "open" /\ drops < MaxDrops /\ drops' = drops + 1
  /\ dsock' = NoSocket
  /\ s2d' = [s2d EXCEPT ![dsock] = <<>>]
  /\ UNCHANGED <<bufferVars, entryVars, process, d2s, gatewayVars, adapterVars>>

Receives(s, type) ==
  /\ s2d[s] # <<>>
  /\ Head(s2d[s]).type = type
  /\ s2d' = [s2d EXCEPT ![s] = Tail(@)]

\* What reconcileOnReconnect sends again: the unacked events, in seq order.
ReplayNothing(resume) == <<>>
Replay(resume) ==
  IF resume /\ tracked
  THEN [i \in 1 .. Len(entries) |-> EventFrame(entries[i].seq, entries[i].event)]
  ELSE <<>>

\* onHelloOk: task_lost for a wanted dispatch that is gone, then
\* reconcileOnReconnect replays what is unacked or discards the entry.
HelloOk ==
  /\ dsock # NoSocket
  /\ Receives(dsock, "hello_ok")
  /\ LET frame  == Head(s2d[dsock])
         lost   == IF frame.resume /\ ~RunningDispatchIds THEN <<LostFrame>> ELSE <<>>
         refs   == IF frame.resume /\ tracked /\ terminal /\ artifacts
                   THEN <<ArtifactsFrame>> ELSE <<>>
     IN /\ DaemonSends(lost \o Replay(frame.resume) \o refs)
        /\ tracked' = (tracked /\ ~frame.cancel)
  /\ UNCHANGED <<bufferVars, loop, terminal, settled, artifacts, process, dsock,
                 drops, gatewayVars, adapterVars>>

\* DispatchManager.ack; an entry that is no longer tracked ignores it.
EventAck ==
  /\ dsock # NoSocket
  /\ Receives(dsock, "event_ack")
  /\ IF tracked THEN BufferAck(Head(s2d[dsock]).lastSeq) ELSE UNCHANGED entries
  /\ UNCHANGED <<terminal, settled>>
  /\ tracked' = (tracked /\ ~Retired)
  /\ UNCHANGED <<log, overflowed, loop, artifacts, process, dsock, d2s, drops, gatewayVars, adapterVars>>

\* The process ends with everything it holds; its socket closes.
ProcessEnds(after) ==
  /\ process' = after
  /\ loop' = "over"
  /\ tracked' = FALSE
  /\ entries' = <<>>
  /\ dsock' = NoSocket
  /\ s2d' = [s \in Sockets |-> <<>>]
  /\ UNCHANGED <<log, overflowed, terminal, settled, artifacts, d2s, drops,
                 gatewayVars, adapterVars>>

\* onHelloError(superseded) is fatal.
HelloErrorSuperseded ==
  /\ dsock # NoSocket
  /\ s2d[dsock] # <<>>
  /\ Head(s2d[dsock]).type = "superseded"
  /\ ProcessEnds("exited")

\* The daemon is restarted once, the new process knowing no dispatch, or is
\* stopped for good.
ProcessStops ==
  /\ process = "first"
  /\ ProcessEnds("second") \/ ProcessEnds("exited")

(***************************************************************************)
(* Worker: RemoteRuntimeAdapter.                                           *)
(***************************************************************************)
LastDelivered == Len(received)

CanSend == registered # NoSocket /\ ssock[registered] = "open"

\* flushAck once n events are delivered: lastAckedSeq advances with a send that
\* the socket took, whether or not the daemon will ever read it.
FlushAck(n) ==
  IF n > lastAcked /\ CanSend
  THEN /\ s2d' = Sent(s2d, registered, <<AckFrame(n)>>)
       /\ lastAcked' = n
  ELSE UNCHANGED <<s2d, lastAcked>>

\* SeqTracker.accept and drain: seq is next in order and releases the run of
\* held events that follows it, up to seq m.
Deliver(seq, event, m) ==
  /\ \A q \in seq + 1 .. m : q \in DOMAIN outOfOrder
  /\ m + 1 \notin DOMAIN outOfOrder
  /\ received' = [i \in 1 .. m |-> IF i < seq THEN received[i]
                                   ELSE IF i = seq THEN event
                                   ELSE outOfOrder[i]]
  /\ outOfOrder' = [q \in DOMAIN outOfOrder \ (seq .. m) |-> outOfOrder[q]]
  /\ FlushAck(m)

\* A future seq is held; one already delivered is dropped.
Hold(seq, event) ==
  /\ outOfOrder' = IF seq > LastDelivered
                   THEN [q \in DOMAIN outOfOrder \cup {seq} |->
                           IF q = seq THEN event ELSE outOfOrder[q]]
                   ELSE outOfOrder
  /\ UNCHANGED received
  /\ FlushAck(LastDelivered)

HandleTaskEventTwice(seq, event) ==
  /\ received' = Append(received, event)
  /\ UNCHANGED outOfOrder
  /\ FlushAck(LastDelivered + 1)

HandleTaskEventEarly(seq, event) ==
  IF seq > LastDelivered THEN HandleTaskEventTwice(seq, event) ELSE Hold(seq, event)

HandleTaskEvent(seq, event) ==
  IF seq = LastDelivered + 1
  THEN \E m \in seq .. seq + Cardinality(DOMAIN outOfOrder) : Deliver(seq, event, m)
  ELSE Hold(seq, event)

\* failStream, and the end of the grace timer: at most one such failure.
FailStream(cause) ==
  IF failAt = None
  THEN failAt' = Len(received) /\ failCause' = cause
  ELSE UNCHANGED <<failAt, failCause>>

\* The generator yields the next pushed event and tears down after a terminal
\* one; a server-made failure is one.
Cleanup ==
  /\ bridge' = FALSE
  /\ grace' = FALSE

YieldFailure ==
  /\ bridge
  /\ failAt = Len(yielded)
  /\ yielded' = Append(yielded, Failure)
  /\ Cleanup
  /\ UNCHANGED <<daemonVars, d2s, s2d, drops, gatewayVars, received, outOfOrder,
                 failAt, failCause, connected, lastAcked, cached>>

YieldEvent ==
  /\ bridge
  /\ failAt # Len(yielded)
  /\ Len(yielded) < Len(received)
  /\ LET event == received[Len(yielded) + 1] IN
     /\ yielded' = Append(yielded, event)
     /\ IF IsTerminal(event) THEN Cleanup ELSE UNCHANGED <<bridge, grace>>
  /\ UNCHANGED <<daemonVars, d2s, s2d, drops, gatewayVars, received, outOfOrder,
                 failAt, failCause, connected, lastAcked, cached>>

\* The worker stops pulling (its watchdog settled the task, or it shuts down).
WorkerStops ==
  /\ bridge
  /\ Cleanup
  /\ UNCHANGED <<daemonVars, d2s, s2d, drops, gatewayVars, received, outOfOrder,
                 failAt, failCause, yielded, connected, lastAcked, cached>>

\* The ack interval: an ack that could not be sent before.
AckTick ==
  /\ bridge
  /\ LastDelivered > lastAcked
  /\ CanSend
  /\ FlushAck(LastDelivered)
  /\ UNCHANGED <<daemonVars, d2s, drops, gatewayVars, streamVars, connected, grace, cached>>

\* handleDisconnected's timer; it is cleared by cleanup.
GraceExpires ==
  /\ grace
  /\ grace' = FALSE
  /\ IF ~connected THEN FailStream("grace") ELSE UNCHANGED <<failAt, failCause>>
  /\ UNCHANGED <<daemonVars, d2s, s2d, drops, gatewayVars, bridge, received,
                 outOfOrder, yielded, connected, lastAcked, cached>>

HandleDisconnectedUntimed ==
  IF bridge THEN connected' = FALSE /\ UNCHANGED grace ELSE UNCHANGED <<connected, grace>>

HandleDisconnected ==
  IF bridge /\ connected
  THEN connected' = FALSE /\ grace' = TRUE
  ELSE UNCHANGED <<connected, grace>>

(***************************************************************************)
(* Worker: DaemonGateway.                                                  *)
(***************************************************************************)
\* The server takes the frame at the head of the socket.
Takes(s, type) ==
  /\ d2s[s] # <<>>
  /\ Head(d2s[s]).type = type
  /\ d2s' = [d2s EXCEPT ![s] = Tail(@)]

\* handleHello up to await markMachineOnline: a registered socket is superseded.
HelloBegins(s) ==
  /\ ~helloDone[s]
  /\ Takes(s, "hello")
  /\ awaiting' = [awaiting EXCEPT ![s] = TRUE]
  /\ announced' = [announced EXCEPT ![s] = Head(d2s[s]).running]
  /\ IF registered \notin {NoSocket, s}
     THEN /\ s2d' = Sent(s2d, registered, <<SupersededFrame>>)
          /\ ssock' = ClosedByServer(registered)
          /\ registered' = NoSocket
     ELSE UNCHANGED <<s2d, ssock, registered>>
  /\ UNCHANGED <<daemonVars, drops, helloDone, adapterVars>>

\* handleHello after the await: register the socket, answer hello_ok, and tell
\* the dispatch that it is reconnected or lost.
HelloFinishes(s) ==
  /\ awaiting[s]
  /\ awaiting' = [awaiting EXCEPT ![s] = FALSE]
  /\ announced' = [announced EXCEPT ![s] = FALSE]
  /\ helloDone' = [helloDone EXCEPT ![s] = TRUE]
  /\ registered' = s
  /\ LET resume  == bridge /\ announced[s]
         helloOk == HelloOkFrame(resume, announced[s] /\ ~bridge)
         reack   == resume /\ LastDelivered > lastAcked /\ ssock[s] = "open"
     IN /\ s2d' = Sent(s2d, s, IF reack THEN <<helloOk, AckFrame(LastDelivered)>>
                                        ELSE <<helloOk>>)
        /\ lastAcked' = IF reack THEN LastDelivered ELSE lastAcked
        /\ connected' = (connected \/ resume)
        /\ grace' = (grace /\ ~resume)
  /\ IF bridge /\ ~announced[s] THEN FailStream("lost") ELSE UNCHANGED <<failAt, failCause>>
  /\ UNCHANGED <<daemonVars, d2s, drops, ssock, bridge, received, outOfOrder,
                 yielded, cached>>

\* The database write of the await fails and the socket is closed.
HelloFails(s) ==
  /\ awaiting[s]
  /\ drops < MaxDrops
  /\ drops' = drops + 1
  /\ awaiting' = [awaiting EXCEPT ![s] = FALSE]
  /\ announced' = [announced EXCEPT ![s] = FALSE]
  /\ ssock' = ClosedByServer(s)
  /\ UNCHANGED <<daemonVars, d2s, s2d, helloDone, registered, adapterVars>>

\* onFrame before the handshake is done: any other frame closes the socket.
FrameBeforeHello(s) ==
  /\ ~helloDone[s]
  /\ \E type \in {"task_event", "task_lost", "artifacts"} : Takes(s, type)
  /\ ssock' = ClosedByServer(s)
  /\ UNCHANGED <<daemonVars, s2d, drops, awaiting, announced, helloDone, registered,
                 adapterVars>>

\* routeDispatchFrame: task_event for a registered dispatch.
RouteEvent(s) ==
  /\ helloDone[s]
  /\ Takes(s, "task_event")
  /\ bridge
  /\ HandleTaskEvent(Head(d2s[s]).seq, Head(d2s[s]).event)
  /\ UNCHANGED <<daemonVars, drops, gatewayVars, bridge, failAt, failCause, yielded,
                 connected, grace, cached>>

\* task_event of a finished dispatch: acked so that the daemon stops replaying.
RouteUnowned(s) ==
  /\ helloDone[s]
  /\ Takes(s, "task_event")
  /\ ~bridge
  /\ s2d' = Sent(s2d, s, <<AckFrame(Head(d2s[s]).seq)>>)
  /\ UNCHANGED <<daemonVars, drops, gatewayVars, adapterVars>>

RouteLost(s) ==
  /\ helloDone[s]
  /\ Takes(s, "task_lost")
  /\ IF bridge THEN FailStream("lost") ELSE UNCHANGED <<failAt, failCause>>
  /\ UNCHANGED <<daemonVars, s2d, drops, gatewayVars, bridge, received, outOfOrder,
                 yielded, connected, grace, lastAcked, cached>>

RouteArtifacts(s) ==
  /\ helloDone[s]
  /\ Takes(s, "artifacts")
  /\ cached' = (cached \/ bridge)
  /\ UNCHANGED <<daemonVars, s2d, drops, gatewayVars, streamVars, connected, grace,
                 lastAcked>>

\* The server's close event of a socket that the daemon left, that the server
\* closed itself (superseded, revoked, bad first frame), or that the network or
\* the liveness sweep killed; frames not yet read are gone.
ServerSocketClosed(s) ==
  /\ ssock[s] # "closed"
  /\ IF dsock = s /\ ssock[s] = "open"
     THEN drops < MaxDrops /\ drops' = drops + 1
     ELSE UNCHANGED drops
  /\ ssock' = [ssock EXCEPT ![s] = "closed"]
  /\ d2s' = [d2s EXCEPT ![s] = <<>>]
  /\ IF registered = s
     THEN registered' = NoSocket /\ HandleDisconnected
     ELSE UNCHANGED <<registered, connected, grace>>
  /\ UNCHANGED <<daemonVars, s2d, awaiting, announced, helloDone, streamVars, lastAcked,
                 cached>>

(***************************************************************************)
(* The specification.                                                      *)
(***************************************************************************)
Init ==
  /\ log = <<>> /\ entries = <<>> /\ overflowed = FALSE
  /\ loop = "running" /\ terminal = FALSE /\ settled = FALSE /\ artifacts = FALSE
  /\ tracked = TRUE /\ process = "first"
  /\ dsock \in Sockets /\ registered = dsock
  /\ d2s = [s \in Sockets |-> <<>>] /\ s2d = [s \in Sockets |-> <<>>] /\ drops = 0
  /\ ssock = [s \in Sockets |-> IF s = dsock THEN "open" ELSE "closed"]
  /\ awaiting = [s \in Sockets |-> FALSE] /\ announced = [s \in Sockets |-> FALSE]
  /\ helloDone = [s \in Sockets |-> s = dsock]
  /\ bridge = TRUE /\ received = <<>> /\ outOfOrder = <<>> /\ yielded = <<>>
  /\ failAt = None /\ failCause = "none"
  /\ connected = TRUE /\ grace = FALSE /\ lastAcked = 0 /\ cached = FALSE

Runtime == (\E raw \in Events : RuntimeYields(raw)) \/ RuntimeThrows

DaemonStep ==
  \/ \E refs \in ArtifactChoices : SettleArtifacts(refs)
  \/ Connect \/ HelloOk \/ EventAck \/ HelloErrorSuperseded

ServerStep(s) ==
  \/ HelloBegins(s) \/ HelloFinishes(s) \/ FrameBeforeHello(s)
  \/ RouteEvent(s) \/ RouteUnowned(s) \/ RouteLost(s) \/ RouteArtifacts(s)

Environment ==
  \/ Runtime \/ ProcessStops \/ WorkerStops \/ DaemonSocketClosed
  \/ \E s \in Sockets : HelloFails(s) \/ ServerSocketClosed(s)

Adapter == YieldEvent \/ YieldFailure \/ AckTick \/ GraceExpires

Next ==
  \/ DaemonStep
  \/ \E s \in Sockets : ServerStep(s)
  \/ Adapter
  \/ Environment

Spec == Init /\ [][Next]_vars

\* Timers fire, sockets that one end left are noticed by the other, the event
\* loops of both processes run every callback, and a daemon that is alive
\* reconnects.  Nothing is assumed of the runtime, of the network, of the
\* database, or of a daemon that was stopped.
Fairness ==
  /\ WF_vars(DaemonStep)
  /\ WF_vars(dsock # NoSocket /\ ssock[dsock] # "open" /\ DaemonSocketClosed)
  /\ \A s \in Sockets :
       /\ WF_vars(ServerStep(s))
       /\ WF_vars((dsock # s \/ ssock[s] = "closing") /\ ServerSocketClosed(s))
  /\ WF_vars(YieldEvent \/ YieldFailure)
  /\ WF_vars(AckTick)
  /\ WF_vars(GraceExpires)

FairSpec == Spec /\ Fairness

(***************************************************************************)
(* Properties.                                                             *)
(***************************************************************************)
DaemonTypeOK ==
  /\ log \in Seq(Event) /\ entries \in Seq(Entry) /\ overflowed \in BOOLEAN
  /\ loop \in {"running", "settling", "over"}
  /\ terminal \in BOOLEAN /\ settled \in BOOLEAN /\ artifacts \in BOOLEAN
  /\ tracked \in BOOLEAN
  /\ process \in {"first", "second", "exited"}
  /\ dsock \in Sockets \cup {NoSocket}

WireTypeOK ==
  /\ d2s \in [Sockets -> Seq(DaemonFrame)]
  /\ s2d \in [Sockets -> Seq(ServerFrame)]
  /\ drops \in 0 .. MaxDrops

GatewayTypeOK ==
  /\ ssock \in [Sockets -> {"open", "closing", "closed"}]
  /\ awaiting \in [Sockets -> BOOLEAN] /\ announced \in [Sockets -> BOOLEAN]
  /\ helloDone \in [Sockets -> BOOLEAN]
  /\ registered \in Sockets \cup {NoSocket}

AdapterTypeOK ==
  /\ bridge \in BOOLEAN
  /\ received \in Seq(Event) /\ yielded \in Seq(Event)
  /\ DOMAIN outOfOrder \subseteq 1 .. Len(log)
  /\ outOfOrder \in [DOMAIN outOfOrder -> Event]
  /\ failAt \in {None} \cup Nat /\ failCause \in {"none", "lost", "grace"}
  /\ connected \in BOOLEAN /\ grace \in BOOLEAN /\ cached \in BOOLEAN
  /\ lastAcked \in Nat

\* Every variable has its type, and no event is held that the daemon has not
\* numbered (SeqTracker's and EventReplayBuffer's sequence numbers agree).
TypeOK == DaemonTypeOK /\ WireTypeOK /\ GatewayTypeOK /\ AdapterTypeOK

\* The events pushed to the stream are the daemon's first events, in order and
\* each once, whatever sockets they travelled on and however often they were
\* replayed (SeqTracker, handleTaskEvent).
InOrder == received = SubSeq(log, 1, Len(received))

\* While the stream is open and the daemon tracks the dispatch, an event that
\* the worker does not have yet is still in the replay buffer: no ack, stale,
\* duplicated or of another socket, drops it (EventReplayBuffer.ack, flushAck).
NothingLost ==
  bridge /\ tracked /\ ~overflowed =>
    \A q \in 1 .. Len(log) : q <= Len(received) \/ \E i \in DOMAIN entries : entries[i].seq = q

\* The daemon retires a dispatch only when the worker has all its events: the
\* retirement in ack and the deferred one after artifacts never run early.
RetiredOnlyWhenDelivered ==
  bridge /\ ~tracked /\ process = "first" /\ ~overflowed =>
    terminal /\ Len(received) = Len(log)

\* A dispatch is reported lost only if its daemon was restarted or its buffer
\* overflowed; otherwise the worker has its true terminal event before the
\* made-up failure (runningDispatchIds, handleHello, onHelloOk).
LostMeansLost ==
  failCause = "lost" /\ process = "first" /\ ~overflowed =>
    terminal /\ failAt = Len(log)

\* No grace timer runs while the worker believes the machine is connected, and
\* one runs or has fired whenever an open stream was told of a disconnect.
GraceMatchesConnection ==
  bridge => (connected => ~grace) /\ (~connected => grace \/ failAt # None)

\* A dispatch whose runtime ended gets its stream closed: the terminal event
\* crosses every reconnect (no overflow within the bounds of the run).
TerminalSettles == terminal /\ process = "first" ~> ~bridge \/ process # "first"

\* The worker's stream is one the abstract delivery specification allows.
Delivery == INSTANCE EventDelivery WITH
  Terminal <- {e \in Event : IsTerminal(e)}, open <- bridge

DeliversInOrder == Delivery!Spec

\* server-mode.md:206, a disconnect longer than the grace period fails the task.
GoneDaemonFails == process = "exited" ~> ~bridge
=============================================================================
