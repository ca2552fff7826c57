-------------------------- MODULE DaemonStreamProofs --------------------------
(***************************************************************************)
(* Proofs about DaemonStream: its six safety invariants, for any number of *)
(* sockets, events and buffer bounds, and that it implements               *)
(* EventDelivery.                                                          *)
(***************************************************************************)
EXTENDS DaemonStream, SequenceTheorems, TLAPS

(***************************************************************************)
(* The inductive invariant.                                                *)
(***************************************************************************)
\* An event, wherever it is, is the one the daemon gave its number to.
Numbered(seq, event) == seq \in 1 .. Len(log) /\ event = log[seq]

FramesInv ==
  \A s \in Sockets : \A i \in 1 .. Len(d2s[s]) :
    d2s[s][i].type = "task_event" => Numbered(d2s[s][i].seq, d2s[s][i].event)

EntriesInv ==
  \A i \in 1 .. Len(entries) : Numbered(entries[i].seq, entries[i].event)

HeldInv == \A q \in DOMAIN outOfOrder : Numbered(q, outOfOrder[q])

ReceivedInv ==
  /\ Len(received) <= Len(log)
  /\ \A i \in 1 .. Len(received) : received[i] = log[i]

LogInv == FramesInv /\ EntriesInv /\ HeldInv /\ ReceivedInv

\* The buffer is the suffix of the log behind what the worker has.
SuffixInv ==
  tracked /\ ~overflowed =>
    /\ Len(entries) <= Len(log)
    /\ \A i \in 1 .. Len(entries) : entries[i].seq = Len(log) - Len(entries) + i
    /\ bridge => Len(log) - Len(entries) <= Len(received)

\* Acks in flight never exceed what the worker has, and it asks the daemon to
\* discard only what it does not own.
ServerFramesInv ==
  bridge =>
    \A s \in Sockets : \A i \in 1 .. Len(s2d[s]) :
      /\ s2d[s][i].type = "event_ack" => s2d[s][i].lastSeq <= Len(received)
      /\ s2d[s][i].type = "hello_ok" => ~s2d[s][i].cancel

\* What a claim "the daemon does not have it" entails, however late it is read.
Delivered ==
  bridge /\ process = "first" /\ ~overflowed => terminal /\ Len(received) = Len(log)

AnnouncesLost(frame) ==
  frame.type = "task_lost" \/ (frame.type = "hello" /\ ~frame.running)

ClaimsInv ==
  \A s \in Sockets :
    /\ awaiting[s] /\ ~announced[s] => Delivered
    /\ \A i \in 1 .. Len(d2s[s]) : AnnouncesLost(d2s[s][i]) => Delivered

BufferInv ==
  /\ terminal => loop # "running"
  /\ SuffixInv
  /\ ServerFramesInv
  /\ RetiredOnlyWhenDelivered
  /\ ClaimsInv
  /\ LostMeansLost

IInv == TypeOK /\ LogInv /\ BufferInv /\ GraceMatchesConnection

(***************************************************************************)
(* Frames and channels.                                                    *)
(***************************************************************************)
LEMMA Constants ==
  /\ Failure \in Event
  /\ IsTerminal(Failure)
  /\ \A event \in Event : Preflight(event) \in Event
BY ConstantsAssumption DEF Failure, Event, IsTerminal, Preflight

LEMMA DaemonFrames ==
  /\ \A b \in BOOLEAN : HelloFrame(b) \in DaemonFrame
  /\ \A seq \in Nat, event \in Event : EventFrame(seq, event) \in DaemonFrame
  /\ LostFrame \in DaemonFrame /\ ArtifactsFrame \in DaemonFrame
BY DEF DaemonFrame, HelloFrame, EventFrame, LostFrame, ArtifactsFrame

LEMMA DaemonFrameFields ==
  ASSUME NEW frame \in DaemonFrame
  PROVE  /\ frame.type = "hello" => frame.running \in BOOLEAN
         /\ frame.type = "task_event" => frame.seq \in Nat /\ frame.event \in Event
BY DEF DaemonFrame

LEMMA ServerFrames ==
  /\ \A a, b \in BOOLEAN : HelloOkFrame(a, b) \in ServerFrame
  /\ \A seq \in Nat : AckFrame(seq) \in ServerFrame
  /\ SupersededFrame \in ServerFrame
BY DEF ServerFrame, HelloOkFrame, AckFrame, SupersededFrame

LEMMA ServerFrameFields ==
  ASSUME NEW frame \in ServerFrame
  PROVE  /\ frame.type = "hello_ok" => frame.resume \in BOOLEAN /\ frame.cancel \in BOOLEAN
         /\ frame.type = "event_ack" => frame.lastSeq \in Nat
BY DEF ServerFrame

\* What the daemon sends joins what was in flight and nothing else does.
LEMMA DaemonSendsFrames ==
  ASSUME TypeOK, NEW frames \in Seq(DaemonFrame), DaemonSends(frames)
  PROVE  /\ d2s' \in [Sockets -> Seq(DaemonFrame)]
         /\ \A s \in Sockets : \A i \in 1 .. Len(d2s'[s]) :
              \/ \E j \in 1 .. Len(d2s[s]) : d2s'[s][i] = d2s[s][j]
              \/ \E j \in 1 .. Len(frames) : d2s'[s][i] = frames[j]
<1>1. CASE dsock # NoSocket /\ ssock[dsock] # "closed"
  <2>1. dsock \in Sockets /\ d2s' = [d2s EXCEPT ![dsock] = d2s[dsock] \o frames]
    BY <1>1 DEF DaemonSends, TypeOK, DaemonTypeOK
  <2>2. d2s[dsock] \in Seq(DaemonFrame)
    BY <2>1 DEF TypeOK, WireTypeOK
  <2>3. /\ d2s[dsock] \o frames \in Seq(DaemonFrame)
        /\ Len(d2s[dsock] \o frames) = Len(d2s[dsock]) + Len(frames)
        /\ \A i \in 1 .. Len(d2s[dsock]) + Len(frames) :
             (d2s[dsock] \o frames)[i] = IF i <= Len(d2s[dsock]) THEN d2s[dsock][i]
                                         ELSE frames[i - Len(d2s[dsock])]
    BY <2>2, ConcatProperties
  <2>4. Len(d2s[dsock]) \in Nat /\ Len(frames) \in Nat
    BY <2>2, LenProperties
  <2>5. d2s \in [Sockets -> Seq(DaemonFrame)]
    BY DEF TypeOK, WireTypeOK
  <2>6. d2s' \in [Sockets -> Seq(DaemonFrame)]
    BY <2>1, <2>3, <2>5
  <2>7. ASSUME NEW s \in Sockets, NEW i \in 1 .. Len(d2s'[s])
        PROVE  \/ \E j \in 1 .. Len(d2s[s]) : d2s'[s][i] = d2s[s][j]
               \/ \E j \in 1 .. Len(frames) : d2s'[s][i] = frames[j]
    <3>1. CASE s # dsock
      BY <3>1, <2>1, <2>5, <2>7
    <3>2. CASE s = dsock /\ i <= Len(d2s[dsock])
      BY <3>2, <2>1, <2>3, <2>4, <2>5, <2>7
    <3>3. CASE s = dsock /\ ~(i <= Len(d2s[dsock]))
      <4>1. d2s'[s] = d2s[dsock] \o frames
        BY <3>3, <2>1, <2>5
      <4>2. i - Len(d2s[dsock]) \in 1 .. Len(frames)
        BY <3>3, <4>1, <2>3, <2>4, <2>7
      <4> QED  BY <3>3, <4>1, <4>2, <2>3, <2>4, <2>7
    <3> QED  BY <3>1, <3>2, <3>3
  <2> QED  BY <2>6, <2>7
<1>2. CASE ~(dsock # NoSocket /\ ssock[dsock] # "closed")
  BY <1>2 DEF DaemonSends, TypeOK, WireTypeOK
<1> QED  BY <1>1, <1>2

LEMMA ServerSendsFrames ==
  ASSUME NEW channels \in [Sockets -> Seq(ServerFrame)], NEW k \in Sockets,
         NEW frames \in Seq(ServerFrame)
  PROVE  /\ Sent(channels, k, frames) \in [Sockets -> Seq(ServerFrame)]
         /\ \A s \in Sockets : \A i \in 1 .. Len(Sent(channels, k, frames)[s]) :
              \/ \E j \in 1 .. Len(channels[s]) :
                   Sent(channels, k, frames)[s][i] = channels[s][j]
              \/ \E j \in 1 .. Len(frames) : Sent(channels, k, frames)[s][i] = frames[j]
<1>1. CASE ssock[k] = "open" /\ dsock = k
  <2>1. Sent(channels, k, frames) = [channels EXCEPT ![k] = channels[k] \o frames]
    BY <1>1 DEF Sent
  <2>2. channels[k] \in Seq(ServerFrame)
    OBVIOUS
  <2>3. /\ channels[k] \o frames \in Seq(ServerFrame)
        /\ Len(channels[k] \o frames) = Len(channels[k]) + Len(frames)
        /\ \A i \in 1 .. Len(channels[k]) + Len(frames) :
             (channels[k] \o frames)[i] = IF i <= Len(channels[k]) THEN channels[k][i]
                                          ELSE frames[i - Len(channels[k])]
    BY <2>2, ConcatProperties
  <2>4. Len(channels[k]) \in Nat /\ Len(frames) \in Nat
    BY <2>2, LenProperties
  <2>5. Sent(channels, k, frames) \in [Sockets -> Seq(ServerFrame)]
    BY <2>1, <2>3
  <2>6. ASSUME NEW s \in Sockets, NEW i \in 1 .. Len(Sent(channels, k, frames)[s])
        PROVE  \/ \E j \in 1 .. Len(channels[s]) :
                    Sent(channels, k, frames)[s][i] = channels[s][j]
               \/ \E j \in 1 .. Len(frames) : Sent(channels, k, frames)[s][i] = frames[j]
    <3>1. CASE s # k
      BY <3>1, <2>1, <2>6
    <3>2. CASE s = k /\ i <= Len(channels[k])
      BY <3>2, <2>1, <2>3, <2>4, <2>6
    <3>3. CASE s = k /\ ~(i <= Len(channels[k]))
      <4>1. Sent(channels, k, frames)[s] = channels[k] \o frames
        BY <3>3, <2>1
      <4>2. i - Len(channels[k]) \in 1 .. Len(frames)
        BY <3>3, <4>1, <2>3, <2>4, <2>6
      <4> QED  BY <3>3, <4>1, <4>2, <2>3, <2>4, <2>6
    <3> QED  BY <3>1, <3>2, <3>3
  <2> QED  BY <2>5, <2>6
<1>2. CASE ~(ssock[k] = "open" /\ dsock = k)
  BY <1>2 DEF Sent
<1> QED  BY <1>1, <1>2

\* Taking the head of a channel leaves frames that were in it.
LEMMA DaemonFrameTaken ==
  ASSUME TypeOK, NEW k \in Sockets, d2s[k] # <<>>, d2s' = [d2s EXCEPT ![k] = Tail(@)]
  PROVE  /\ d2s' \in [Sockets -> Seq(DaemonFrame)]
         /\ Head(d2s[k]) \in DaemonFrame
         /\ Len(d2s[k]) \in Nat \ {0} /\ Head(d2s[k]) = d2s[k][1]
         /\ \A s \in Sockets : \A i \in 1 .. Len(d2s'[s]) :
              \E j \in 1 .. Len(d2s[s]) : d2s'[s][i] = d2s[s][j]
<1>1. d2s[k] \in Seq(DaemonFrame)
  BY DEF TypeOK, WireTypeOK
<1>2. /\ Tail(d2s[k]) \in Seq(DaemonFrame)
      /\ Head(d2s[k]) \in DaemonFrame
      /\ Len(Tail(d2s[k])) = Len(d2s[k]) - 1
      /\ \A i \in 1 .. Len(Tail(d2s[k])) : Tail(d2s[k])[i] = d2s[k][i + 1]
  BY <1>1, HeadTailProperties
<1>3. Len(d2s[k]) \in Nat \ {0} /\ Head(d2s[k]) = d2s[k][1]
  BY <1>1, EmptySeq
<1> QED  BY <1>1, <1>2, <1>3 DEF TypeOK, WireTypeOK

LEMMA ServerFrameTaken ==
  ASSUME TypeOK, NEW k \in Sockets, s2d[k] # <<>>, s2d' = [s2d EXCEPT ![k] = Tail(@)]
  PROVE  /\ s2d' \in [Sockets -> Seq(ServerFrame)]
         /\ Head(s2d[k]) \in ServerFrame
         /\ Len(s2d[k]) \in Nat \ {0} /\ Head(s2d[k]) = s2d[k][1]
         /\ \A s \in Sockets : \A i \in 1 .. Len(s2d'[s]) :
              \E j \in 1 .. Len(s2d[s]) : s2d'[s][i] = s2d[s][j]
<1>1. s2d[k] \in Seq(ServerFrame)
  BY DEF TypeOK, WireTypeOK
<1>2. /\ Tail(s2d[k]) \in Seq(ServerFrame)
      /\ Head(s2d[k]) \in ServerFrame
      /\ Len(Tail(s2d[k])) = Len(s2d[k]) - 1
      /\ \A i \in 1 .. Len(Tail(s2d[k])) : Tail(s2d[k])[i] = s2d[k][i + 1]
  BY <1>1, HeadTailProperties
<1>3. Len(s2d[k]) \in Nat \ {0} /\ Head(s2d[k]) = s2d[k][1]
  BY <1>1, EmptySeq
<1> QED  BY <1>1, <1>2, <1>3 DEF TypeOK, WireTypeOK

(***************************************************************************)
(* The daemon's emissions.                                                 *)
(***************************************************************************)
\* Numbering more events, sending some of them and retaining the new one or
\* declaring an overflow preserves the invariant.
LEMMA EmissionPreserves ==
  ASSUME IInv, loop = "running",
         log' \in Seq(Event), Len(log) < Len(log'),
         \A i \in 1 .. Len(log) : log'[i] = log[i],
         NEW frames \in Seq(DaemonFrame), DaemonSends(frames),
         \A j \in 1 .. Len(frames) :
           /\ frames[j].type = "task_event"
           /\ frames[j].seq \in 1 .. Len(log')
           /\ frames[j].event = log'[frames[j].seq],
         \/ /\ Len(log') = Len(log) + 1 /\ ~overflowed /\ ~overflowed'
            /\ entries' = Append(entries, [seq |-> Len(log'), event |-> log'[Len(log')]])
         \/ entries' = entries /\ overflowed' = TRUE,
         overflowed' \in BOOLEAN, terminal' \in BOOLEAN,
         loop' \in {"running", "settling", "over"}, terminal' => loop' # "running",
         UNCHANGED <<settled, artifacts, tracked, process, dsock, s2d, drops,
                     gatewayVars, adapterVars>>
  PROVE  IInv'
<1> USE DEF IInv
<1>1. /\ Len(log) \in Nat /\ Len(log') \in Nat /\ Len(entries) \in Nat
      /\ Len(received) \in Nat /\ Len(frames) \in Nat
  BY LenProperties DEF TypeOK, DaemonTypeOK, AdapterTypeOK
<1>2. /\ d2s' \in [Sockets -> Seq(DaemonFrame)]
      /\ \A s \in Sockets : \A i \in 1 .. Len(d2s'[s]) :
           \/ \E j \in 1 .. Len(d2s[s]) : d2s'[s][i] = d2s[s][j]
           \/ \E j \in 1 .. Len(frames) : d2s'[s][i] = frames[j]
  BY DaemonSendsFrames
<1>3. log'[Len(log')] \in Event
  BY <1>1, ElementOfSeq
<1>4. ~terminal
  BY DEF BufferInv
<1>5. /\ entries' \in Seq(Entry)
      /\ \/ entries' = entries
         \/ /\ Len(entries') = Len(entries) + 1 /\ Len(log') = Len(log) + 1
            /\ ~overflowed /\ ~overflowed'
            /\ \A i \in 1 .. Len(entries) : entries'[i] = entries[i]
            /\ entries'[Len(entries')] = [seq |-> Len(log'), event |-> log'[Len(log')]]
  <2>1. entries \in Seq(Entry)
    BY DEF TypeOK, DaemonTypeOK
  <2>2. [seq |-> Len(log'), event |-> log'[Len(log')]] \in Entry
    BY <1>1, <1>3 DEF Entry
  <2>3. CASE entries' = entries
    BY <2>1, <2>3
  <2>4. CASE /\ Len(log') = Len(log) + 1 /\ ~overflowed /\ ~overflowed'
             /\ entries' = Append(entries, [seq |-> Len(log'), event |-> log'[Len(log')]])
    <3> DEFINE new == [seq |-> Len(log'), event |-> log'[Len(log')]]
    <3>1. /\ Append(entries, new) \in Seq(Entry)
          /\ Len(Append(entries, new)) = Len(entries) + 1
          /\ \A i \in 1 .. Len(entries) : Append(entries, new)[i] = entries[i]
          /\ Append(entries, new)[Len(entries) + 1] = new
      BY <2>1, <2>2, AppendProperties
    <3> QED  BY <2>4, <3>1
  <2> QED  BY <2>3, <2>4
<1>6. TypeOK'
  <2>1. DaemonTypeOK'
    BY <1>5 DEF TypeOK, DaemonTypeOK
  <2>2. WireTypeOK'
    BY <1>2 DEF TypeOK, WireTypeOK
  <2>3. GatewayTypeOK'
    BY DEF TypeOK, GatewayTypeOK, gatewayVars
  <2>4. AdapterTypeOK'
    BY <1>1 DEF TypeOK, AdapterTypeOK, adapterVars, streamVars
  <2> QED  BY <2>1, <2>2, <2>3, <2>4 DEF TypeOK
<1>7. LogInv'
  <2>1. FramesInv'
    <3>1. ASSUME NEW s \in Sockets, NEW i \in 1 .. Len(d2s'[s]),
                 d2s'[s][i].type = "task_event"
          PROVE  Numbered(d2s[s][i].seq, d2s[s][i].event)'
      <4>1. CASE \E j \in 1 .. Len(d2s[s]) : d2s'[s][i] = d2s[s][j]
        <5>1. PICK j \in 1 .. Len(d2s[s]) : d2s'[s][i] = d2s[s][j]
          BY <4>1
        <5>2. d2s[s][j].seq \in 1 .. Len(log) /\ d2s[s][j].event = log[d2s[s][j].seq]
          BY <3>1, <5>1 DEF LogInv, FramesInv, Numbered
        <5> QED  BY <1>1, <5>1, <5>2 DEF Numbered
      <4>2. CASE \E j \in 1 .. Len(frames) : d2s'[s][i] = frames[j]
        BY <3>1, <4>2 DEF Numbered
      <4> QED  BY <1>2, <3>1, <4>1, <4>2
    <3> QED  BY <3>1 DEF FramesInv
  <2>2. EntriesInv'
    <3> SUFFICES ASSUME NEW i \in 1 .. Len(entries')
                 PROVE  /\ entries'[i].seq \in 1 .. Len(log')
                        /\ entries'[i].event = log'[entries'[i].seq]
      BY DEF EntriesInv, Numbered
    <3>1. CASE i \in 1 .. Len(entries) /\ entries'[i] = entries[i]
      BY <1>1, <3>1 DEF LogInv, EntriesInv, Numbered
    <3>2. CASE entries'[i] = [seq |-> Len(log'), event |-> log'[Len(log')]]
      BY <1>1, <3>2
    <3> QED  BY <1>1, <1>5, <3>1, <3>2
  <2>3. HeldInv'
    BY <1>1 DEF LogInv, HeldInv, Numbered, adapterVars, streamVars
  <2>4. ReceivedInv'
    BY <1>1 DEF LogInv, ReceivedInv, adapterVars, streamVars
  <2> QED  BY <2>1, <2>2, <2>3, <2>4 DEF LogInv
<1>8. BufferInv'
  <2>1. SuffixInv'
    <3> SUFFICES ASSUME tracked', ~overflowed'
                 PROVE  /\ Len(entries') <= Len(log')
                        /\ \A i \in 1 .. Len(entries') :
                             entries'[i].seq = Len(log') - Len(entries') + i
                        /\ bridge' => Len(log') - Len(entries') <= Len(received')
      BY DEF SuffixInv
    <3>1. /\ Len(entries') = Len(entries) + 1 /\ Len(log') = Len(log) + 1
          /\ ~overflowed
          /\ \A i \in 1 .. Len(entries) : entries'[i] = entries[i]
          /\ entries'[Len(entries')].seq = Len(log')
      BY <1>5
    <3>2. /\ Len(entries) <= Len(log)
          /\ \A i \in 1 .. Len(entries) : entries[i].seq = Len(log) - Len(entries) + i
          /\ bridge => Len(log) - Len(entries) <= Len(received)
      BY <3>1 DEF BufferInv, SuffixInv
    <3>3. bridge' = bridge /\ received' = received
      BY DEF adapterVars, streamVars
    <3>4. Len(entries') <= Len(log') /\ (bridge' => Len(log') - Len(entries') <= Len(received'))
      BY <1>1, <3>1, <3>2, <3>3
    <3>5. ASSUME NEW i \in 1 .. Len(entries')
          PROVE  entries'[i].seq = Len(log') - Len(entries') + i
      <4>1. CASE i \in 1 .. Len(entries)
        BY <1>1, <3>1, <3>2, <4>1
      <4>2. CASE i = Len(entries')
        BY <1>1, <3>1, <4>2
      <4> QED  BY <1>1, <3>1, <4>1, <4>2
    <3> QED  BY <3>4, <3>5
  <2>2. ServerFramesInv'
    BY DEF BufferInv, ServerFramesInv, adapterVars, streamVars
  <2>3. RetiredOnlyWhenDelivered'
    BY <1>4 DEF BufferInv, RetiredOnlyWhenDelivered, adapterVars, streamVars
  <2>4. Delivered => Delivered'
    BY <1>4 DEF Delivered, adapterVars, streamVars
  <2>5. ClaimsInv'
    <3>1. awaiting' = awaiting /\ announced' = announced
      BY DEF gatewayVars
    <3>2. ASSUME NEW s \in Sockets, NEW i \in 1 .. Len(d2s'[s]), AnnouncesLost(d2s'[s][i])
          PROVE  Delivered'
      <4>1. CASE \E j \in 1 .. Len(d2s[s]) : d2s'[s][i] = d2s[s][j]
        BY <2>4, <3>2, <4>1 DEF BufferInv, ClaimsInv
      <4>2. CASE \E j \in 1 .. Len(frames) : d2s'[s][i] = frames[j]
        BY <3>2, <4>2 DEF AnnouncesLost
      <4> QED  BY <1>2, <3>2, <4>1, <4>2
    <3> QED  BY <2>4, <3>1, <3>2 DEF BufferInv, ClaimsInv, AnnouncesLost
  <2>6. LostMeansLost'
    BY <1>4 DEF BufferInv, LostMeansLost, adapterVars, streamVars
  <2> QED  BY <2>1, <2>2, <2>3, <2>5, <2>6 DEF BufferInv
<1>9. GraceMatchesConnection'
  BY DEF GraceMatchesConnection, adapterVars, streamVars
<1> QED  BY <1>6, <1>7, <1>8, <1>9

LEMMA BufferAppendNumbers ==
  ASSUME TypeOK, NEW event \in Event, BufferAppend(event)
  PROVE  /\ log' \in Seq(Event) /\ Len(log) < Len(log') /\ Len(log') = NextSeq
         /\ \A i \in 1 .. Len(log) : log'[i] = log[i]
         /\ log'[NextSeq] = event
         /\ NextSeq \in Nat /\ NextSeq \in 1 .. Len(log')
         /\ \/ /\ Len(log') = Len(log) + 1 /\ ~overflowed /\ ~overflowed'
               /\ entries' = Append(entries, [seq |-> Len(log'), event |-> log'[Len(log')]])
            \/ entries' = entries /\ overflowed' = TRUE
         /\ overflowed' \in BOOLEAN
<1>1. log \in Seq(Event) /\ Len(log) \in Nat
  BY LenProperties DEF TypeOK, DaemonTypeOK
<1>2. /\ Append(log, event) \in Seq(Event)
      /\ Len(Append(log, event)) = Len(log) + 1
      /\ \A i \in 1 .. Len(log) : Append(log, event)[i] = log[i]
      /\ Append(log, event)[Len(log) + 1] = event
  BY <1>1, AppendProperties
<1>3. CASE Retains(event)
  <2>1. ~overflowed /\ ~overflowed'
    BY <1>3 DEF BufferAppend, Retains
  <2>2. entries' = Append(entries, [seq |-> NextSeq, event |-> event])
    BY <1>3 DEF BufferAppend
  <2> QED  BY <1>1, <1>2, <2>1, <2>2 DEF BufferAppend, NextSeq
<1>4. CASE ~Retains(event)
  <2>1. entries' = entries /\ overflowed' = TRUE
    BY <1>4 DEF BufferAppend
  <2> QED  BY <1>1, <1>2, <2>1 DEF BufferAppend, NextSeq
<1> QED  BY <1>3, <1>4

LEMMA OneEventFrame ==
  ASSUME NEW seq \in Nat, NEW event \in Event
  PROVE  /\ <<EventFrame(seq, event)>> \in Seq(DaemonFrame) /\ <<>> \in Seq(DaemonFrame)
         /\ \A j \in 1 .. Len(<<EventFrame(seq, event)>>) :
              /\ <<EventFrame(seq, event)>>[j].type = "task_event"
              /\ <<EventFrame(seq, event)>>[j].seq = seq
              /\ <<EventFrame(seq, event)>>[j].event = event
<1>1. EventFrame(seq, event) \in DaemonFrame
  BY DaemonFrames
<1> QED  BY <1>1 DEF EventFrame

LEMMA RuntimeThrowsInv ==
  ASSUME IInv, RuntimeThrows
  PROVE  IInv'
<1>1. BufferAppend(Failure) /\ Failure \in Event /\ TypeOK
  BY Constants DEF RuntimeThrows, IInv
<1>2. DaemonSends(<<EventFrame(NextSeq, Failure)>>)
  BY DEF RuntimeThrows
<1>3. /\ NextSeq \in Nat /\ NextSeq \in 1 .. Len(log') /\ log'[NextSeq] = Failure
      /\ log' \in Seq(Event) /\ Len(log) < Len(log')
      /\ \A i \in 1 .. Len(log) : log'[i] = log[i]
      /\ \/ /\ Len(log') = Len(log) + 1 /\ ~overflowed /\ ~overflowed'
            /\ entries' = Append(entries, [seq |-> Len(log'), event |-> log'[Len(log')]])
         \/ entries' = entries /\ overflowed' = TRUE
      /\ overflowed' \in BOOLEAN
  BY <1>1, BufferAppendNumbers
<1>4. /\ <<EventFrame(NextSeq, Failure)>> \in Seq(DaemonFrame)
      /\ \A j \in 1 .. Len(<<EventFrame(NextSeq, Failure)>>) :
           /\ <<EventFrame(NextSeq, Failure)>>[j].type = "task_event"
           /\ <<EventFrame(NextSeq, Failure)>>[j].seq \in 1 .. Len(log')
           /\ <<EventFrame(NextSeq, Failure)>>[j].event
                = log'[<<EventFrame(NextSeq, Failure)>>[j].seq]
  BY <1>1, <1>3, OneEventFrame
<1>5. /\ loop = "running" /\ terminal' = TRUE /\ loop' = "settling"
      /\ UNCHANGED <<settled, artifacts, tracked, process, dsock, s2d, drops,
                     gatewayVars, adapterVars>>
  BY DEF RuntimeThrows
<1> QED  BY <1>2, <1>3, <1>4, <1>5, EmissionPreserves

LEMMA EmitRetainedInv ==
  ASSUME IInv, NEW raw \in Events, loop = "running", EmitRetained(raw),
         UNCHANGED <<settled, artifacts, tracked, process, dsock, s2d, drops,
                     gatewayVars, adapterVars>>
  PROVE  IInv'
<1> DEFINE event == Preflight(raw)
<1>1. event \in Event /\ BufferAppend(event) /\ TypeOK
  BY Constants, ConstantsAssumption DEF EmitRetained, IInv
<1> HIDE DEF event
<1>2. DaemonSends(<<EventFrame(NextSeq, event)>>)
  BY DEF EmitRetained, event
<1>3. /\ NextSeq \in Nat /\ NextSeq \in 1 .. Len(log') /\ log'[NextSeq] = event
      /\ log' \in Seq(Event) /\ Len(log) < Len(log')
      /\ \A i \in 1 .. Len(log) : log'[i] = log[i]
      /\ \/ /\ Len(log') = Len(log) + 1 /\ ~overflowed /\ ~overflowed'
            /\ entries' = Append(entries, [seq |-> Len(log'), event |-> log'[Len(log')]])
         \/ entries' = entries /\ overflowed' = TRUE
      /\ overflowed' \in BOOLEAN
  BY <1>1, BufferAppendNumbers
<1>4. /\ <<EventFrame(NextSeq, event)>> \in Seq(DaemonFrame)
      /\ \A j \in 1 .. Len(<<EventFrame(NextSeq, event)>>) :
           /\ <<EventFrame(NextSeq, event)>>[j].type = "task_event"
           /\ <<EventFrame(NextSeq, event)>>[j].seq \in 1 .. Len(log')
           /\ <<EventFrame(NextSeq, event)>>[j].event
                = log'[<<EventFrame(NextSeq, event)>>[j].seq]
  BY <1>1, <1>3, OneEventFrame
<1>5. /\ terminal' \in BOOLEAN /\ loop' \in {"running", "settling", "over"}
      /\ terminal' => loop' # "running"
  <2>1. IsTerminal(event) \in BOOLEAN
    BY DEF IsTerminal
  <2> QED  BY <2>1 DEF EmitRetained, event
<1> QED  BY <1>2, <1>3, <1>4, <1>5, EmissionPreserves

LEMMA EmitOversizedInv ==
  ASSUME IInv, NEW raw \in Events, loop = "running", EmitOversized(raw),
         UNCHANGED <<settled, artifacts, tracked, process, dsock, s2d, drops,
                     gatewayVars, adapterVars>>
  PROVE  IInv'
<1>1. BufferAppend(Failure) /\ Failure \in Event /\ TypeOK
  BY Constants DEF EmitOversized, IInv
<1>2. PICK frames \in {<<EventFrame(NextSeq, Failure)>>, <<>>} : DaemonSends(frames)
  BY DEF EmitOversized
<1>3. /\ NextSeq \in Nat /\ NextSeq \in 1 .. Len(log') /\ log'[NextSeq] = Failure
      /\ log' \in Seq(Event) /\ Len(log) < Len(log')
      /\ \A i \in 1 .. Len(log) : log'[i] = log[i]
      /\ \/ /\ Len(log') = Len(log) + 1 /\ ~overflowed /\ ~overflowed'
            /\ entries' = Append(entries, [seq |-> Len(log'), event |-> log'[Len(log')]])
         \/ entries' = entries /\ overflowed' = TRUE
      /\ overflowed' \in BOOLEAN
  BY <1>1, BufferAppendNumbers
<1>4. /\ frames \in Seq(DaemonFrame)
      /\ \A j \in 1 .. Len(frames) :
           /\ frames[j].type = "task_event"
           /\ frames[j].seq \in 1 .. Len(log')
           /\ frames[j].event = log'[frames[j].seq]
  <2>1. CASE frames = <<>>
    BY <2>1, <1>1, <1>3, OneEventFrame
  <2>2. CASE frames = <<EventFrame(NextSeq, Failure)>>
    BY <2>2, <1>1, <1>3, OneEventFrame
  <2> QED  BY <1>2, <2>1, <2>2
<1>5. terminal' = TRUE /\ loop' = "over"
  BY DEF EmitOversized
<1> QED  BY <1>2, <1>3, <1>4, <1>5, EmissionPreserves

LEMMA EmitOverflowInv ==
  ASSUME IInv, NEW raw \in Events, loop = "running", EmitOverflow(raw),
         UNCHANGED <<settled, artifacts, tracked, process, dsock, s2d, drops,
                     gatewayVars, adapterVars>>
  PROVE  IInv'
<1> DEFINE event == Preflight(raw)
           first == IF event.type = "failed" THEN <<EventFrame(NextSeq, event)>> ELSE <<>>
           second == <<EventFrame(NextSeq + 1, Failure)>>
<1>1. event \in Event /\ Failure \in Event
  BY Constants, ConstantsAssumption
<1>2. /\ log' = log \o <<event, Failure>> /\ overflowed' = TRUE /\ entries' = entries
      /\ DaemonSends(first \o second) /\ terminal' = TRUE /\ loop' = "over"
  BY DEF EmitOverflow
<1> HIDE DEF event
<1>3. log \in Seq(Event) /\ Len(log) \in Nat /\ NextSeq = Len(log) + 1
  BY LenProperties DEF IInv, TypeOK, DaemonTypeOK, NextSeq
<1>4. /\ log' \in Seq(Event) /\ Len(log') = Len(log) + 2
      /\ \A i \in 1 .. Len(log) : log'[i] = log[i]
      /\ log'[NextSeq] = event /\ log'[NextSeq + 1] = Failure
  <2>1. /\ <<event, Failure>> \in Seq(Event) /\ Len(<<event, Failure>>) = 2
        /\ <<event, Failure>>[1] = event /\ <<event, Failure>>[2] = Failure
    BY <1>1
  <2>2. /\ log \o <<event, Failure>> \in Seq(Event)
        /\ Len(log \o <<event, Failure>>) = Len(log) + 2
        /\ \A i \in 1 .. Len(log) + 2 :
             (log \o <<event, Failure>>)[i] =
                IF i <= Len(log) THEN log[i] ELSE <<event, Failure>>[i - Len(log)]
    BY <1>3, <2>1, ConcatProperties
  <2> QED  BY <1>2, <1>3, <2>1, <2>2
<1>5. /\ first \in Seq(DaemonFrame) /\ second \in Seq(DaemonFrame)
      /\ \A j \in 1 .. Len(first) :
           first[j].type = "task_event" /\ first[j].seq = NextSeq /\ first[j].event = event
      /\ \A j \in 1 .. Len(second) :
           /\ second[j].type = "task_event" /\ second[j].seq = NextSeq + 1
           /\ second[j].event = Failure
  <2>1. NextSeq \in Nat /\ NextSeq + 1 \in Nat
    BY <1>3
  <2>2. /\ second \in Seq(DaemonFrame)
        /\ \A j \in 1 .. Len(second) :
             /\ second[j].type = "task_event" /\ second[j].seq = NextSeq + 1
             /\ second[j].event = Failure
    BY <1>1, <2>1, OneEventFrame
  <2>3. CASE event.type = "failed"
    BY <2>1, <2>2, <2>3, <1>1, OneEventFrame
  <2>4. CASE event.type # "failed"
    BY <2>2, <2>4
  <2> QED  BY <2>3, <2>4
<1> HIDE DEF first, second
<1>6. /\ first \o second \in Seq(DaemonFrame)
      /\ \A j \in 1 .. Len(first \o second) :
           /\ (first \o second)[j].type = "task_event"
           /\ (first \o second)[j].seq \in 1 .. Len(log')
           /\ (first \o second)[j].event = log'[(first \o second)[j].seq]
  <2>1. /\ first \o second \in Seq(DaemonFrame)
        /\ Len(first \o second) = Len(first) + Len(second)
        /\ \A j \in 1 .. Len(first) + Len(second) :
             (first \o second)[j] = IF j <= Len(first) THEN first[j] ELSE second[j - Len(first)]
    BY <1>5, ConcatProperties
  <2>2. Len(first) \in Nat /\ Len(second) \in Nat
    BY <1>5, LenProperties
  <2>3. ASSUME NEW j \in 1 .. Len(first \o second)
        PROVE  \/ \E i \in 1 .. Len(first) : (first \o second)[j] = first[i]
               \/ \E i \in 1 .. Len(second) : (first \o second)[j] = second[i]
    <3>1. CASE j <= Len(first)
      BY <2>1, <2>2, <2>3, <3>1
    <3>2. CASE ~(j <= Len(first))
      <4>1. j - Len(first) \in 1 .. Len(second)
        BY <2>1, <2>2, <2>3, <3>2
      <4> QED  BY <2>1, <2>3, <3>2, <4>1
    <3> QED  BY <3>1, <3>2
  <2>4. NextSeq \in 1 .. Len(log') /\ NextSeq + 1 \in 1 .. Len(log')
    BY <1>3, <1>4
  <2>5. ASSUME NEW j \in 1 .. Len(first \o second)
        PROVE  /\ (first \o second)[j].type = "task_event"
               /\ (first \o second)[j].seq \in 1 .. Len(log')
               /\ (first \o second)[j].event = log'[(first \o second)[j].seq]
    BY <1>4, <1>5, <2>3, <2>4
  <2> QED  BY <2>1, <2>5
<1>7. /\ Len(log) < Len(log') /\ overflowed' \in BOOLEAN /\ terminal' \in BOOLEAN
      /\ loop' \in {"running", "settling", "over"} /\ (terminal' => loop' # "running")
  BY <1>2, <1>3, <1>4
<1> DEFINE frames == first \o second
<1>8. /\ frames \in Seq(DaemonFrame) /\ DaemonSends(frames)
      /\ \A j \in 1 .. Len(frames) :
           /\ frames[j].type = "task_event"
           /\ frames[j].seq \in 1 .. Len(log')
           /\ frames[j].event = log'[frames[j].seq]
  BY <1>2, <1>6
<1> HIDE DEF frames
<1> QED  BY <1>2, <1>4, <1>7, <1>8, EmissionPreserves

LEMMA RuntimeYieldsInv ==
  ASSUME IInv, NEW raw \in Events, RuntimeYields(raw)
  PROVE  IInv'
BY EmitRetainedInv, EmitOversizedInv, EmitOverflowInv DEF RuntimeYields

(***************************************************************************)
(* Steps that number no event.                                             *)
(***************************************************************************)
LEMMA Lengths ==
  ASSUME TypeOK
  PROVE  /\ Len(log) \in Nat /\ Len(entries) \in Nat /\ Len(received) \in Nat
         /\ Len(yielded) \in Nat
BY LenProperties DEF TypeOK, DaemonTypeOK, AdapterTypeOK

LEMMA LogInvKept ==
  ASSUME IInv, UNCHANGED <<log, outOfOrder, received>>,
         \A i \in 1 .. Len(entries') : \E j \in 1 .. Len(entries) : entries'[i] = entries[j],
         \A s \in Sockets : \A i \in 1 .. Len(d2s'[s]) :
           d2s'[s][i].type = "task_event" =>
             \/ \E j \in 1 .. Len(d2s[s]) : d2s'[s][i] = d2s[s][j]
             \/ \E j \in 1 .. Len(entries) :
                  /\ d2s'[s][i].seq = entries[j].seq
                  /\ d2s'[s][i].event = entries[j].event
  PROVE  LogInv'
<1>1. LogInv
  BY DEF IInv
<1>2. FramesInv'
  <2>1. ASSUME NEW s \in Sockets, NEW i \in 1 .. Len(d2s'[s]), d2s'[s][i].type = "task_event"
        PROVE  Numbered(d2s[s][i].seq, d2s[s][i].event)'
    <3>1. CASE \E j \in 1 .. Len(d2s[s]) : d2s'[s][i] = d2s[s][j]
      <4>1. PICK j \in 1 .. Len(d2s[s]) : d2s'[s][i] = d2s[s][j]
        BY <3>1
      <4>2. d2s[s][j].seq \in 1 .. Len(log) /\ d2s[s][j].event = log[d2s[s][j].seq]
        BY <1>1, <2>1, <4>1 DEF LogInv, FramesInv, Numbered
      <4> QED  BY <4>1, <4>2 DEF Numbered
    <3>2. CASE \E j \in 1 .. Len(entries) :
                 /\ d2s'[s][i].seq = entries[j].seq
                 /\ d2s'[s][i].event = entries[j].event
      BY <1>1, <3>2 DEF LogInv, EntriesInv, Numbered
    <3> QED  BY <2>1, <3>1, <3>2
  <2> QED  BY <2>1 DEF FramesInv
<1>3. EntriesInv'
  BY <1>1 DEF LogInv, EntriesInv, Numbered
<1>4. HeldInv' /\ ReceivedInv'
  BY <1>1 DEF LogInv, HeldInv, ReceivedInv, Numbered
<1> QED  BY <1>2, <1>3, <1>4 DEF LogInv

LEMMA BufferInvKept ==
  ASSUME IInv, UNCHANGED <<log, overflowed, terminal, received>>,
         bridge' => bridge, process' = "first" => process = "first",
         loop # "running" => loop' # "running",
         SuffixInv', RetiredOnlyWhenDelivered',
         bridge' => \A s \in Sockets : \A i \in 1 .. Len(s2d'[s]) :
           \/ \E j \in 1 .. Len(s2d[s]) : s2d'[s][i] = s2d[s][j]
           \/ /\ s2d'[s][i].type = "event_ack" => s2d'[s][i].lastSeq <= Len(received)
              /\ s2d'[s][i].type = "hello_ok" => ~s2d'[s][i].cancel,
         \A s \in Sockets :
           awaiting'[s] /\ ~announced'[s] => (awaiting[s] /\ ~announced[s]) \/ Delivered,
         \A s \in Sockets : \A i \in 1 .. Len(d2s'[s]) :
           AnnouncesLost(d2s'[s][i]) =>
             Delivered \/ \E j \in 1 .. Len(d2s[s]) : d2s'[s][i] = d2s[s][j],
         \/ UNCHANGED <<failAt, failCause>>
         \/ failCause' = "grace"
         \/ failAt' = Len(received) /\ bridge /\ Delivered
  PROVE  BufferInv'
<1>1. BufferInv
  BY DEF IInv
<1>2. ServerFramesInv'
  <2>1. ASSUME bridge', NEW s \in Sockets, NEW i \in 1 .. Len(s2d'[s])
        PROVE  /\ s2d'[s][i].type = "event_ack" => s2d'[s][i].lastSeq <= Len(received')
               /\ s2d'[s][i].type = "hello_ok" => ~s2d'[s][i].cancel
    <3>1. CASE \E j \in 1 .. Len(s2d[s]) : s2d'[s][i] = s2d[s][j]
      BY <1>1, <2>1, <3>1 DEF BufferInv, ServerFramesInv
    <3> QED  BY <2>1, <3>1
  <2> QED  BY <2>1 DEF ServerFramesInv
<1>3. Delivered => Delivered'
  BY DEF Delivered
<1>4. ClaimsInv'
  <2>1. ASSUME NEW s \in Sockets, NEW i \in 1 .. Len(d2s'[s]), AnnouncesLost(d2s'[s][i])
        PROVE  Delivered'
    BY <1>1, <1>3, <2>1 DEF BufferInv, ClaimsInv
  <2>2. ASSUME NEW s \in Sockets, awaiting'[s], ~announced'[s]
        PROVE  Delivered'
    BY <1>1, <1>3, <2>2 DEF BufferInv, ClaimsInv
  <2> QED  BY <2>1, <2>2 DEF ClaimsInv, AnnouncesLost
<1>5. LostMeansLost'
  BY <1>1 DEF BufferInv, LostMeansLost, Delivered
<1> QED  BY <1>1, <1>2, <1>4, <1>5 DEF BufferInv

LEMMA SuffixKept ==
  ASSUME IInv, UNCHANGED <<log, entries, overflowed, received>>,
         tracked' => tracked, bridge' => bridge
  PROVE  SuffixInv'
BY DEF IInv, BufferInv, SuffixInv

LEMMA RetiredKept ==
  ASSUME IInv, UNCHANGED <<log, overflowed, terminal, tracked, received>>,
         bridge' => bridge, process' = "first" => process = "first"
  PROVE  RetiredOnlyWhenDelivered'
BY DEF IInv, BufferInv, RetiredOnlyWhenDelivered

\* An empty buffer means that the worker has every event.
LEMMA EmptyBufferMeansReceived ==
  ASSUME IInv, tracked, ~overflowed, bridge, entries = <<>>
  PROVE  Len(received) = Len(log)
<1>1. Len(entries) = 0 /\ Len(log) \in Nat /\ Len(received) \in Nat
  BY Lengths DEF IInv
<1> QED  BY <1>1 DEF IInv, BufferInv, SuffixInv, LogInv, ReceivedInv

\* What the daemon does not announce, the worker has.
LEMMA NotAnnounced ==
  ASSUME IInv, ~RunningDispatchIds
  PROVE  Delivered
BY EmptyBufferMeansReceived
   DEF IInv, BufferInv, RetiredOnlyWhenDelivered, Delivered, RunningDispatchIds

\* A step that leaves the log, the buffer and what the worker has alone, and
\* puts nothing but harmless acks on the wire.
LEMMA QuietKept ==
  ASSUME IInv,
         UNCHANGED <<log, entries, overflowed, terminal, tracked, received, outOfOrder>>,
         bridge' => bridge, process' = "first" => process = "first",
         loop # "running" => loop' # "running",
         \A s \in Sockets : \A i \in 1 .. Len(d2s'[s]) :
           \E j \in 1 .. Len(d2s[s]) : d2s'[s][i] = d2s[s][j],
         bridge' => \A s \in Sockets : \A i \in 1 .. Len(s2d'[s]) :
           \/ \E j \in 1 .. Len(s2d[s]) : s2d'[s][i] = s2d[s][j]
           \/ /\ s2d'[s][i].type = "event_ack" => s2d'[s][i].lastSeq <= Len(received)
              /\ s2d'[s][i].type = "hello_ok" => ~s2d'[s][i].cancel,
         \A s \in Sockets :
           awaiting'[s] /\ ~announced'[s] => (awaiting[s] /\ ~announced[s]) \/ Delivered,
         \/ UNCHANGED <<failAt, failCause>>
         \/ failCause' = "grace"
         \/ failAt' = Len(received) /\ bridge /\ Delivered
  PROVE  LogInv' /\ BufferInv'
<1>1. LogInv'
  BY LogInvKept
<1>2. SuffixInv'
  BY SuffixKept
<1>3. RetiredOnlyWhenDelivered'
  BY RetiredKept
<1> QED  BY <1>1, <1>2, <1>3, BufferInvKept

\* The parts of the type invariant that a step leaves alone.
LEMMA TypeUnchanged ==
  ASSUME TypeOK
  PROVE  /\ UNCHANGED daemonVars => DaemonTypeOK'
         /\ UNCHANGED <<d2s, s2d, drops>> => WireTypeOK'
         /\ UNCHANGED gatewayVars => GatewayTypeOK'
         /\ UNCHANGED <<log, adapterVars>> => AdapterTypeOK'
BY DEF TypeOK, DaemonTypeOK, WireTypeOK, GatewayTypeOK, AdapterTypeOK, daemonVars,
       bufferVars, entryVars, gatewayVars, adapterVars, streamVars

(***************************************************************************)
(* The worker's stream.                                                    *)
(***************************************************************************)
LEMMA YieldFailureInv ==
  ASSUME IInv, YieldFailure
  PROVE  IInv'
<1>1. TypeOK'
  <2>1. Failure \in Event /\ yielded \in Seq(Event)
    BY Constants DEF IInv, TypeOK, AdapterTypeOK
  <2>2. Append(yielded, Failure) \in Seq(Event)
    BY <2>1, AppendProperties
  <2>3. AdapterTypeOK'
    BY <2>2 DEF IInv, TypeOK, AdapterTypeOK, YieldFailure, Cleanup, daemonVars, bufferVars
  <2> QED  BY <2>3, TypeUnchanged DEF IInv, TypeOK, YieldFailure
<1>2. LogInv' /\ BufferInv'
  <2>1. /\ UNCHANGED <<daemonVars, d2s, s2d, gatewayVars, received, outOfOrder,
                       failAt, failCause>>
        /\ bridge' => bridge
    BY DEF YieldFailure, Cleanup
  <2> QED  BY <2>1, QuietKept DEF daemonVars, bufferVars, entryVars, gatewayVars
<1>3. GraceMatchesConnection'
  BY DEF YieldFailure, Cleanup, GraceMatchesConnection
<1> QED  BY <1>1, <1>2, <1>3 DEF IInv

LEMMA YieldEventInv ==
  ASSUME IInv, YieldEvent
  PROVE  IInv'
<1>1. TypeOK'
  <2>1. received[Len(yielded) + 1] \in Event /\ yielded \in Seq(Event)
    BY Lengths, ElementOfSeq DEF IInv, TypeOK, AdapterTypeOK, YieldEvent
  <2>2. yielded' \in Seq(Event)
    BY <2>1, AppendProperties DEF YieldEvent
  <2>3. bridge' \in BOOLEAN /\ grace' \in BOOLEAN
    BY DEF IInv, TypeOK, AdapterTypeOK, YieldEvent, Cleanup
  <2>4. AdapterTypeOK'
    BY <2>2, <2>3 DEF IInv, TypeOK, AdapterTypeOK, YieldEvent, daemonVars, bufferVars
  <2> QED  BY <2>4, TypeUnchanged DEF IInv, TypeOK, YieldEvent
<1>2. LogInv' /\ BufferInv'
  <2>1. /\ UNCHANGED <<daemonVars, d2s, s2d, gatewayVars, received, outOfOrder,
                       failAt, failCause>>
        /\ bridge' => bridge
    BY DEF YieldEvent, Cleanup
  <2> QED  BY <2>1, QuietKept DEF daemonVars, bufferVars, entryVars, gatewayVars
<1>3. GraceMatchesConnection'
  BY DEF IInv, YieldEvent, Cleanup, GraceMatchesConnection
<1> QED  BY <1>1, <1>2, <1>3 DEF IInv

LEMMA WorkerStopsInv ==
  ASSUME IInv, WorkerStops
  PROVE  IInv'
<1>1. TypeOK'
  <2>1. AdapterTypeOK'
    BY DEF IInv, TypeOK, AdapterTypeOK, WorkerStops, Cleanup, daemonVars, bufferVars
  <2> QED  BY <2>1, TypeUnchanged DEF IInv, TypeOK, WorkerStops
<1>2. LogInv' /\ BufferInv'
  <2>1. /\ UNCHANGED <<daemonVars, d2s, s2d, gatewayVars, received, outOfOrder,
                       failAt, failCause>>
        /\ bridge' => bridge
    BY DEF WorkerStops, Cleanup
  <2> QED  BY <2>1, QuietKept DEF daemonVars, bufferVars, entryVars, gatewayVars
<1>3. GraceMatchesConnection'
  BY DEF WorkerStops, Cleanup, GraceMatchesConnection
<1> QED  BY <1>1, <1>2, <1>3 DEF IInv

LEMMA GraceExpiresInv ==
  ASSUME IInv, GraceExpires
  PROVE  IInv'
<1>0. Len(received) \in Nat
  BY Lengths DEF IInv
<1>1. TypeOK'
  <2>1. failAt' \in {None} \cup Nat /\ failCause' \in {"none", "lost", "grace"}
    BY <1>0 DEF IInv, TypeOK, AdapterTypeOK, GraceExpires, FailStream
  <2>2. AdapterTypeOK'
    BY <2>1 DEF IInv, TypeOK, AdapterTypeOK, GraceExpires, daemonVars, bufferVars
  <2> QED  BY <2>2, TypeUnchanged DEF IInv, TypeOK, GraceExpires
<1>2. LogInv' /\ BufferInv'
  <2>1. /\ UNCHANGED <<daemonVars, d2s, s2d, gatewayVars, received, outOfOrder, bridge>>
        /\ UNCHANGED <<failAt, failCause>> \/ failCause' = "grace"
    BY DEF GraceExpires, FailStream
  <2> QED  BY <2>1, QuietKept DEF daemonVars, bufferVars, entryVars, gatewayVars
<1>3. GraceMatchesConnection'
  BY <1>0 DEF IInv, GraceExpires, FailStream, GraceMatchesConnection, None
<1> QED  BY <1>1, <1>2, <1>3 DEF IInv

\* An ack on the wire names what the worker has by then.
LEMMA FlushAckFrames ==
  ASSUME IInv, NEW n \in Nat, FlushAck(n)
  PROVE  /\ s2d' \in [Sockets -> Seq(ServerFrame)] /\ lastAcked' \in Nat
         /\ \A s \in Sockets : \A i \in 1 .. Len(s2d'[s]) :
              \/ \E j \in 1 .. Len(s2d[s]) : s2d'[s][i] = s2d[s][j]
              \/ s2d'[s][i].type = "event_ack" /\ s2d'[s][i].lastSeq = n
<1>1. s2d \in [Sockets -> Seq(ServerFrame)] /\ lastAcked \in Nat
  BY DEF IInv, TypeOK, WireTypeOK, AdapterTypeOK
<1>2. CASE n > lastAcked /\ CanSend
  <2>1. registered \in Sockets /\ s2d' = Sent(s2d, registered, <<AckFrame(n)>>) /\ lastAcked' = n
    BY <1>2 DEF IInv, TypeOK, GatewayTypeOK, FlushAck, CanSend
  <2> DEFINE frames == <<AckFrame(n)>>
  <2>2. frames \in Seq(ServerFrame)
    BY ServerFrames
  <2>3. \A j \in 1 .. Len(frames) : frames[j].type = "event_ack" /\ frames[j].lastSeq = n
    BY DEF AckFrame
  <2> HIDE DEF frames
  <2>4. /\ Sent(s2d, registered, frames) \in [Sockets -> Seq(ServerFrame)]
        /\ \A s \in Sockets : \A i \in 1 .. Len(Sent(s2d, registered, frames)[s]) :
             \/ \E j \in 1 .. Len(s2d[s]) : Sent(s2d, registered, frames)[s][i] = s2d[s][j]
             \/ \E j \in 1 .. Len(frames) : Sent(s2d, registered, frames)[s][i] = frames[j]
    BY <1>1, <2>1, <2>2, ServerSendsFrames
  <2>5. s2d' = Sent(s2d, registered, frames)
    BY <2>1 DEF frames
  <2>6. ASSUME NEW s \in Sockets, NEW i \in 1 .. Len(s2d'[s])
        PROVE  \/ \E j \in 1 .. Len(s2d[s]) : s2d'[s][i] = s2d[s][j]
               \/ s2d'[s][i].type = "event_ack" /\ s2d'[s][i].lastSeq = n
    BY <2>3, <2>4, <2>5
  <2> QED  BY <2>1, <2>4, <2>5, <2>6
<1>3. CASE ~(n > lastAcked /\ CanSend)
  BY <1>1, <1>3 DEF FlushAck
<1> QED  BY <1>2, <1>3

LEMMA AckTickInv ==
  ASSUME IInv, AckTick
  PROVE  IInv'
<1>1. LastDelivered = Len(received) /\ LastDelivered \in Nat /\ FlushAck(LastDelivered)
  BY Lengths DEF IInv, AckTick, LastDelivered
<1>2. /\ s2d' \in [Sockets -> Seq(ServerFrame)] /\ lastAcked' \in Nat
      /\ \A s \in Sockets : \A i \in 1 .. Len(s2d'[s]) :
           \/ \E j \in 1 .. Len(s2d[s]) : s2d'[s][i] = s2d[s][j]
           \/ s2d'[s][i].type = "event_ack" /\ s2d'[s][i].lastSeq = Len(received)
  BY <1>1, FlushAckFrames
<1>3. TypeOK'
  <2>1. AdapterTypeOK'
    BY <1>2 DEF IInv, TypeOK, AdapterTypeOK, AckTick, daemonVars, bufferVars, streamVars
  <2>2. WireTypeOK'
    BY <1>2 DEF IInv, TypeOK, WireTypeOK, AckTick
  <2> QED  BY <2>1, <2>2, TypeUnchanged DEF IInv, TypeOK, AckTick
<1>4. LogInv' /\ BufferInv'
  <2>1. UNCHANGED <<daemonVars, d2s, gatewayVars, streamVars>>
    BY DEF AckTick
  <2>2. Len(received) \in Nat
    BY <1>1
  <2> QED  BY <1>2, <2>1, <2>2, QuietKept
           DEF daemonVars, bufferVars, entryVars, gatewayVars, streamVars
<1>5. GraceMatchesConnection'
  BY DEF IInv, AckTick, GraceMatchesConnection, streamVars
<1> QED  BY <1>3, <1>4, <1>5 DEF IInv

(***************************************************************************)
(* The gateway.                                                            *)
(***************************************************************************)
LEMMA TakesFrame ==
  ASSUME IInv, NEW k \in Sockets, NEW type, Takes(k, type)
  PROVE  /\ d2s' \in [Sockets -> Seq(DaemonFrame)]
         /\ Head(d2s[k]) \in DaemonFrame /\ Head(d2s[k]).type = type
         /\ Len(d2s[k]) \in Nat \ {0} /\ Head(d2s[k]) = d2s[k][1]
         /\ \A s \in Sockets : \A i \in 1 .. Len(d2s'[s]) :
              \E j \in 1 .. Len(d2s[s]) : d2s'[s][i] = d2s[s][j]
BY DaemonFrameTaken DEF IInv, Takes

LEMMA HelloFailsInv ==
  ASSUME IInv, NEW k \in Sockets, HelloFails(k)
  PROVE  IInv'
<1>1. TypeOK'
  <2>1. GatewayTypeOK'
    BY DEF IInv, TypeOK, GatewayTypeOK, HelloFails, ClosedByServer
  <2>2. WireTypeOK'
    BY ConstantsAssumption DEF IInv, TypeOK, WireTypeOK, HelloFails
  <2> QED  BY <2>1, <2>2, TypeUnchanged
           DEF IInv, TypeOK, HelloFails, daemonVars, bufferVars
<1>2. LogInv' /\ BufferInv'
  <2>1. /\ UNCHANGED <<daemonVars, d2s, s2d, adapterVars>>
        /\ \A s \in Sockets :
             awaiting'[s] /\ ~announced'[s] => awaiting[s] /\ ~announced[s]
    BY DEF IInv, TypeOK, GatewayTypeOK, HelloFails
  <2> QED  BY <2>1, QuietKept DEF daemonVars, bufferVars, entryVars, adapterVars, streamVars
<1>3. GraceMatchesConnection'
  BY DEF IInv, HelloFails, GraceMatchesConnection, adapterVars, streamVars
<1> QED  BY <1>1, <1>2, <1>3 DEF IInv

LEMMA FrameBeforeHelloInv ==
  ASSUME IInv, NEW k \in Sockets, FrameBeforeHello(k)
  PROVE  IInv'
<1>1. /\ d2s' \in [Sockets -> Seq(DaemonFrame)]
      /\ \A s \in Sockets : \A i \in 1 .. Len(d2s'[s]) :
           \E j \in 1 .. Len(d2s[s]) : d2s'[s][i] = d2s[s][j]
  BY TakesFrame DEF FrameBeforeHello
<1>2. TypeOK'
  <2>1. GatewayTypeOK'
    BY DEF IInv, TypeOK, GatewayTypeOK, FrameBeforeHello, ClosedByServer
  <2>2. WireTypeOK'
    BY <1>1 DEF IInv, TypeOK, WireTypeOK, FrameBeforeHello
  <2> QED  BY <2>1, <2>2, TypeUnchanged
           DEF IInv, TypeOK, FrameBeforeHello, daemonVars, bufferVars
<1>3. LogInv' /\ BufferInv'
  <2>1. UNCHANGED <<daemonVars, s2d, awaiting, announced, adapterVars>>
    BY DEF FrameBeforeHello
  <2> QED  BY <1>1, <2>1, QuietKept
           DEF daemonVars, bufferVars, entryVars, adapterVars, streamVars
<1>4. GraceMatchesConnection'
  BY DEF IInv, FrameBeforeHello, GraceMatchesConnection, adapterVars, streamVars
<1> QED  BY <1>2, <1>3, <1>4 DEF IInv

LEMMA RouteArtifactsInv ==
  ASSUME IInv, NEW k \in Sockets, RouteArtifacts(k)
  PROVE  IInv'
<1>1. /\ d2s' \in [Sockets -> Seq(DaemonFrame)]
      /\ \A s \in Sockets : \A i \in 1 .. Len(d2s'[s]) :
           \E j \in 1 .. Len(d2s[s]) : d2s'[s][i] = d2s[s][j]
  BY TakesFrame DEF RouteArtifacts
<1>2. TypeOK'
  <2>1. AdapterTypeOK'
    BY DEF IInv, TypeOK, AdapterTypeOK, RouteArtifacts, streamVars, daemonVars, bufferVars
  <2>2. WireTypeOK'
    BY <1>1 DEF IInv, TypeOK, WireTypeOK, RouteArtifacts
  <2> QED  BY <2>1, <2>2, TypeUnchanged DEF IInv, TypeOK, RouteArtifacts
<1>3. LogInv' /\ BufferInv'
  <2>1. UNCHANGED <<daemonVars, s2d, gatewayVars, streamVars>>
    BY DEF RouteArtifacts
  <2> QED  BY <1>1, <2>1, QuietKept
           DEF daemonVars, bufferVars, entryVars, gatewayVars, streamVars
<1>4. GraceMatchesConnection'
  BY DEF IInv, RouteArtifacts, GraceMatchesConnection, streamVars
<1> QED  BY <1>2, <1>3, <1>4 DEF IInv

\* task_lost is believed only where it is true.
LEMMA RouteLostInv ==
  ASSUME IInv, NEW k \in Sockets, RouteLost(k)
  PROVE  IInv'
<1>1. /\ d2s' \in [Sockets -> Seq(DaemonFrame)]
      /\ Head(d2s[k]).type = "task_lost" /\ Head(d2s[k]) = d2s[k][1]
      /\ Len(d2s[k]) \in Nat \ {0}
      /\ \A s \in Sockets : \A i \in 1 .. Len(d2s'[s]) :
           \E j \in 1 .. Len(d2s[s]) : d2s'[s][i] = d2s[s][j]
  BY TakesFrame DEF RouteLost
<1>2. Delivered
  BY <1>1 DEF IInv, BufferInv, ClaimsInv, AnnouncesLost
<1>3. Len(received) \in Nat
  BY Lengths DEF IInv
<1>4. TypeOK'
  <2>1. failAt' \in {None} \cup Nat /\ failCause' \in {"none", "lost", "grace"}
    BY <1>3 DEF IInv, TypeOK, AdapterTypeOK, RouteLost, FailStream
  <2>2. AdapterTypeOK'
    BY <2>1 DEF IInv, TypeOK, AdapterTypeOK, RouteLost, daemonVars, bufferVars
  <2>3. WireTypeOK'
    BY <1>1 DEF IInv, TypeOK, WireTypeOK, RouteLost
  <2> QED  BY <2>2, <2>3, TypeUnchanged DEF IInv, TypeOK, RouteLost
<1>5. LogInv' /\ BufferInv'
  <2>1. /\ UNCHANGED <<daemonVars, s2d, gatewayVars, bridge, received, outOfOrder>>
        /\ UNCHANGED <<failAt, failCause>> \/ (failAt' = Len(received) /\ bridge)
    BY DEF RouteLost, FailStream
  <2> QED  BY <1>1, <1>2, <2>1, QuietKept DEF daemonVars, bufferVars, entryVars, gatewayVars
<1>6. GraceMatchesConnection'
  BY <1>3 DEF IInv, RouteLost, FailStream, GraceMatchesConnection, None
<1> QED  BY <1>4, <1>5, <1>6 DEF IInv

LEMMA RouteUnownedInv ==
  ASSUME IInv, NEW k \in Sockets, RouteUnowned(k)
  PROVE  IInv'
<1>1. /\ d2s' \in [Sockets -> Seq(DaemonFrame)]
      /\ Head(d2s[k]) \in DaemonFrame /\ Head(d2s[k]).type = "task_event"
      /\ \A s \in Sockets : \A i \in 1 .. Len(d2s'[s]) :
           \E j \in 1 .. Len(d2s[s]) : d2s'[s][i] = d2s[s][j]
  BY TakesFrame DEF RouteUnowned
<1>2. s2d' \in [Sockets -> Seq(ServerFrame)]
  <2>1. <<AckFrame(Head(d2s[k]).seq)>> \in Seq(ServerFrame)
    BY <1>1, DaemonFrameFields, ServerFrames
  <2> QED  BY <2>1, ServerSendsFrames DEF IInv, TypeOK, WireTypeOK, RouteUnowned
<1>3. TypeOK'
  <2>1. WireTypeOK'
    BY <1>1, <1>2 DEF IInv, TypeOK, WireTypeOK, RouteUnowned
  <2> QED  BY <2>1, TypeUnchanged DEF IInv, TypeOK, RouteUnowned, daemonVars, bufferVars
<1>4. LogInv' /\ BufferInv'
  <2>1. /\ UNCHANGED <<daemonVars, gatewayVars, adapterVars>>
        /\ ~bridge'
    BY DEF RouteUnowned, adapterVars, streamVars
  <2> QED  BY <1>1, <2>1, QuietKept
           DEF daemonVars, bufferVars, entryVars, gatewayVars, adapterVars, streamVars
<1>5. GraceMatchesConnection'
  BY DEF IInv, RouteUnowned, GraceMatchesConnection, adapterVars, streamVars
<1> QED  BY <1>3, <1>4, <1>5 DEF IInv

LEMMA ServerSocketClosedInv ==
  ASSUME IInv, NEW k \in Sockets, ServerSocketClosed(k)
  PROVE  IInv'
<1>1. /\ d2s' = [d2s EXCEPT ![k] = <<>>] /\ drops' \in 0 .. MaxDrops
      /\ ssock' = [ssock EXCEPT ![k] = "closed"]
      /\ registered' \in Sockets \cup {NoSocket}
      /\ UNCHANGED <<daemonVars, s2d, awaiting, announced, helloDone, streamVars, lastAcked,
                     cached>>
  BY ConstantsAssumption
     DEF IInv, TypeOK, WireTypeOK, GatewayTypeOK, ServerSocketClosed
<1>2. /\ connected' \in BOOLEAN /\ grace' \in BOOLEAN
      /\ UNCHANGED <<connected, grace>> \/ (bridge /\ connected' = FALSE /\ grace' = TRUE)
  BY DEF IInv, TypeOK, AdapterTypeOK, ServerSocketClosed, HandleDisconnected
<1>3. /\ d2s' \in [Sockets -> Seq(DaemonFrame)]
      /\ \A s \in Sockets : \A i \in 1 .. Len(d2s'[s]) :
           \E j \in 1 .. Len(d2s[s]) : d2s'[s][i] = d2s[s][j]
  <2>1. d2s \in [Sockets -> Seq(DaemonFrame)] /\ <<>> \in Seq(DaemonFrame)
    BY DEF IInv, TypeOK, WireTypeOK
  <2>2. Len(<<>>) = 0
    OBVIOUS
  <2> QED  BY <1>1, <2>1, <2>2
<1>4. TypeOK'
  <2>1. GatewayTypeOK'
    BY <1>1 DEF IInv, TypeOK, GatewayTypeOK
  <2>2. WireTypeOK'
    BY <1>1, <1>3 DEF IInv, TypeOK, WireTypeOK
  <2>3. AdapterTypeOK'
    BY <1>1, <1>2 DEF IInv, TypeOK, AdapterTypeOK, streamVars, daemonVars, bufferVars
  <2> QED  BY <1>1, <2>1, <2>2, <2>3, TypeUnchanged DEF IInv, TypeOK
<1>5. LogInv' /\ BufferInv'
  BY <1>1, <1>3, QuietKept DEF daemonVars, bufferVars, entryVars, streamVars
<1>6. GraceMatchesConnection'
  BY <1>1, <1>2 DEF IInv, GraceMatchesConnection, streamVars
<1> QED  BY <1>4, <1>5, <1>6 DEF IInv

LEMMA HelloBeginsInv ==
  ASSUME IInv, NEW k \in Sockets, HelloBegins(k)
  PROVE  IInv'
<1>1. /\ d2s' \in [Sockets -> Seq(DaemonFrame)]
      /\ Head(d2s[k]) \in DaemonFrame /\ Head(d2s[k]).type = "hello"
      /\ Len(d2s[k]) \in Nat \ {0} /\ Head(d2s[k]) = d2s[k][1]
      /\ \A s \in Sockets : \A i \in 1 .. Len(d2s'[s]) :
           \E j \in 1 .. Len(d2s[s]) : d2s'[s][i] = d2s[s][j]
  BY TakesFrame DEF HelloBegins
<1>2. Head(d2s[k]).running \in BOOLEAN
  BY <1>1, DaemonFrameFields
<1>3. ~Head(d2s[k]).running => Delivered
  BY <1>1 DEF IInv, BufferInv, ClaimsInv, AnnouncesLost
<1>4. /\ s2d' \in [Sockets -> Seq(ServerFrame)]
      /\ \A s \in Sockets : \A i \in 1 .. Len(s2d'[s]) :
           \/ \E j \in 1 .. Len(s2d[s]) : s2d'[s][i] = s2d[s][j]
           \/ s2d'[s][i].type = "superseded"
  <2>1. s2d \in [Sockets -> Seq(ServerFrame)]
    BY DEF IInv, TypeOK, WireTypeOK
  <2>2. CASE registered \notin {NoSocket, k}
    <3> DEFINE frames == <<SupersededFrame>>
    <3>1. registered \in Sockets /\ s2d' = Sent(s2d, registered, frames)
      BY <2>2 DEF IInv, TypeOK, GatewayTypeOK, HelloBegins
    <3>2. /\ frames \in Seq(ServerFrame)
          /\ \A j \in 1 .. Len(frames) : frames[j].type = "superseded"
      BY ServerFrames DEF SupersededFrame
    <3> HIDE DEF frames
    <3>3. /\ Sent(s2d, registered, frames) \in [Sockets -> Seq(ServerFrame)]
          /\ \A s \in Sockets : \A i \in 1 .. Len(Sent(s2d, registered, frames)[s]) :
               \/ \E j \in 1 .. Len(s2d[s]) : Sent(s2d, registered, frames)[s][i] = s2d[s][j]
               \/ \E j \in 1 .. Len(frames) : Sent(s2d, registered, frames)[s][i] = frames[j]
      BY <2>1, <3>1, <3>2, ServerSendsFrames
    <3>4. ASSUME NEW s \in Sockets, NEW i \in 1 .. Len(s2d'[s])
          PROVE  \/ \E j \in 1 .. Len(s2d[s]) : s2d'[s][i] = s2d[s][j]
                 \/ s2d'[s][i].type = "superseded"
      BY <3>1, <3>2, <3>3
    <3> QED  BY <3>1, <3>3, <3>4
  <2>3. CASE registered \in {NoSocket, k}
    BY <2>1, <2>3 DEF HelloBegins
  <2> QED  BY <2>2, <2>3
<1>5. TypeOK'
  <2>1. GatewayTypeOK'
    BY <1>2 DEF IInv, TypeOK, GatewayTypeOK, HelloBegins, ClosedByServer
  <2>2. WireTypeOK'
    BY <1>1, <1>4 DEF IInv, TypeOK, WireTypeOK, HelloBegins
  <2> QED  BY <2>1, <2>2, TypeUnchanged DEF IInv, TypeOK, HelloBegins, daemonVars, bufferVars
<1>6. LogInv' /\ BufferInv'
  <2>1. UNCHANGED <<daemonVars, adapterVars>>
    BY DEF HelloBegins
  <2>2. ASSUME NEW s \in Sockets, awaiting'[s], ~announced'[s]
        PROVE  (awaiting[s] /\ ~announced[s]) \/ Delivered
    BY <1>3, <2>2 DEF IInv, TypeOK, GatewayTypeOK, HelloBegins
  <2> QED  BY <1>1, <1>4, <2>1, <2>2, QuietKept
           DEF daemonVars, bufferVars, entryVars, adapterVars, streamVars
<1>7. GraceMatchesConnection'
  BY DEF IInv, HelloBegins, GraceMatchesConnection, adapterVars, streamVars
<1> QED  BY <1>5, <1>6, <1>7 DEF IInv

LEMMA HelloFinishesInv ==
  ASSUME IInv, NEW k \in Sockets, HelloFinishes(k)
  PROVE  IInv'
<1> DEFINE resume  == bridge /\ announced[k]
           cancel  == announced[k] /\ ~bridge
           reack   == resume /\ LastDelivered > lastAcked /\ ssock[k] = "open"
           helloOk == HelloOkFrame(resume, cancel)
           frames  == IF reack THEN <<helloOk, AckFrame(LastDelivered)>> ELSE <<helloOk>>
<1>0. LastDelivered = Len(received) /\ LastDelivered \in Nat
  BY Lengths DEF IInv, LastDelivered
<1>1. /\ s2d' = Sent(s2d, k, frames)
      /\ lastAcked' = IF reack THEN LastDelivered ELSE lastAcked
      /\ awaiting[k]
  BY DEF HelloFinishes
<1>2. /\ frames \in Seq(ServerFrame)
      /\ \A j \in 1 .. Len(frames) :
           /\ frames[j].type = "event_ack" => frames[j].lastSeq = Len(received)
           /\ frames[j].type = "hello_ok" /\ bridge => ~frames[j].cancel
  <2>1. helloOk \in ServerFrame /\ AckFrame(LastDelivered) \in ServerFrame
    <3>1. resume \in BOOLEAN /\ cancel \in BOOLEAN
      OBVIOUS
    <3> QED  BY <1>0, <3>1, ServerFrames
  <2>2. /\ helloOk.type = "hello_ok" /\ (bridge => ~helloOk.cancel)
        /\ AckFrame(LastDelivered).type = "event_ack"
        /\ AckFrame(LastDelivered).lastSeq = Len(received)
    BY <1>0 DEF HelloOkFrame, AckFrame
  <2> HIDE DEF helloOk, reack
  <2>3. CASE reack
    BY <2>1, <2>2, <2>3
  <2>4. CASE ~reack
    BY <2>1, <2>2, <2>4
  <2> QED  BY <2>3, <2>4
<1> HIDE DEF frames, reack, helloOk
<1>3. /\ s2d' \in [Sockets -> Seq(ServerFrame)]
      /\ bridge => \A s \in Sockets : \A i \in 1 .. Len(s2d'[s]) :
           \/ \E j \in 1 .. Len(s2d[s]) : s2d'[s][i] = s2d[s][j]
           \/ /\ s2d'[s][i].type = "event_ack" => s2d'[s][i].lastSeq = Len(received)
              /\ s2d'[s][i].type = "hello_ok" => ~s2d'[s][i].cancel
  <2>1. s2d \in [Sockets -> Seq(ServerFrame)]
    BY DEF IInv, TypeOK, WireTypeOK
  <2>2. /\ Sent(s2d, k, frames) \in [Sockets -> Seq(ServerFrame)]
        /\ \A s \in Sockets : \A i \in 1 .. Len(Sent(s2d, k, frames)[s]) :
             \/ \E j \in 1 .. Len(s2d[s]) : Sent(s2d, k, frames)[s][i] = s2d[s][j]
             \/ \E j \in 1 .. Len(frames) : Sent(s2d, k, frames)[s][i] = frames[j]
    BY <1>2, <2>1, ServerSendsFrames
  <2>3. ASSUME bridge, NEW s \in Sockets, NEW i \in 1 .. Len(s2d'[s])
        PROVE  \/ \E j \in 1 .. Len(s2d[s]) : s2d'[s][i] = s2d[s][j]
               \/ /\ s2d'[s][i].type = "event_ack" => s2d'[s][i].lastSeq = Len(received)
                  /\ s2d'[s][i].type = "hello_ok" => ~s2d'[s][i].cancel
    <3>1. \/ \E j \in 1 .. Len(s2d[s]) : s2d'[s][i] = s2d[s][j]
          \/ \E j \in 1 .. Len(frames) : s2d'[s][i] = frames[j]
      BY <1>1, <2>2, <2>3
    <3>2. CASE \E j \in 1 .. Len(frames) : s2d'[s][i] = frames[j]
      BY <1>2, <2>3, <3>2
    <3> QED  BY <3>1, <3>2
  <2> QED  BY <1>1, <2>2, <2>3
<1>4. /\ \/ UNCHANGED <<failAt, failCause>>
         \/ failAt' = Len(received) /\ failCause' = "lost" /\ bridge /\ Delivered
      /\ failAt' = failAt \/ failAt' \in Nat
  BY <1>0, <1>1 DEF IInv, BufferInv, ClaimsInv, HelloFinishes, FailStream, LastDelivered
<1>5. /\ connected' = (connected \/ resume) /\ grace' = (grace /\ ~resume)
      /\ UNCHANGED <<daemonVars, d2s, drops, ssock, bridge, received, outOfOrder,
                     yielded, cached>>
  BY DEF HelloFinishes
<1>6. TypeOK'
  <2>1. GatewayTypeOK'
    BY DEF IInv, TypeOK, GatewayTypeOK, HelloFinishes
  <2>2. WireTypeOK'
    BY <1>3, <1>5 DEF IInv, TypeOK, WireTypeOK
  <2>3. lastAcked' \in Nat
    BY <1>0, <1>1 DEF IInv, TypeOK, AdapterTypeOK
  <2>4. AdapterTypeOK'
    BY <1>0, <1>4, <1>5, <2>3 DEF IInv, TypeOK, AdapterTypeOK, daemonVars, bufferVars
  <2> QED  BY <1>5, <2>1, <2>2, <2>4, TypeUnchanged DEF IInv, TypeOK
<1>7. LogInv' /\ BufferInv'
  <2>1. ASSUME NEW s \in Sockets, awaiting'[s], ~announced'[s]
        PROVE  awaiting[s] /\ ~announced[s]
    BY <2>1 DEF IInv, TypeOK, GatewayTypeOK, HelloFinishes
  <2>2. bridge' => \A s \in Sockets : \A i \in 1 .. Len(s2d'[s]) :
           \/ \E j \in 1 .. Len(s2d[s]) : s2d'[s][i] = s2d[s][j]
           \/ /\ s2d'[s][i].type = "event_ack" => s2d'[s][i].lastSeq <= Len(received)
              /\ s2d'[s][i].type = "hello_ok" => ~s2d'[s][i].cancel
    BY <1>0, <1>3, <1>5
  <2> QED  BY <1>4, <1>5, <2>1, <2>2, QuietKept DEF daemonVars, bufferVars, entryVars
<1>8. GraceMatchesConnection'
  <2>1. failAt' = failAt \/ failAt' # None
    BY <1>4 DEF None
  <2> QED  BY <1>5, <2>1 DEF IInv, TypeOK, AdapterTypeOK, GraceMatchesConnection
<1> QED  BY <1>6, <1>7, <1>8 DEF IInv

\* Handling a numbered event leaves the worker with a longer prefix of the log.
LEMMA HandleTaskEventOrders ==
  ASSUME IInv, NEW seq, NEW event, Numbered(seq, event), HandleTaskEvent(seq, event)
  PROVE  /\ received' \in Seq(Event)
         /\ Len(received) <= Len(received') /\ Len(received') <= Len(log)
         /\ \A i \in 1 .. Len(received') : received'[i] = log[i]
         /\ DOMAIN outOfOrder' \subseteq 1 .. Len(log)
         /\ outOfOrder' \in [DOMAIN outOfOrder' -> Event]
         /\ \A q \in DOMAIN outOfOrder' : Numbered(q, outOfOrder'[q])
         /\ FlushAck(Len(received'))
<1>1. /\ log \in Seq(Event) /\ Len(log) \in Nat
      /\ received \in Seq(Event) /\ Len(received) \in Nat /\ Len(received) <= Len(log)
      /\ \A i \in 1 .. Len(received) : received[i] = log[i]
      /\ DOMAIN outOfOrder \subseteq 1 .. Len(log)
      /\ outOfOrder \in [DOMAIN outOfOrder -> Event]
      /\ \A q \in DOMAIN outOfOrder : outOfOrder[q] = log[q]
  BY Lengths DEF IInv, TypeOK, DaemonTypeOK, AdapterTypeOK, LogInv, ReceivedInv, HeldInv,
                 Numbered
<1>2. seq \in 1 .. Len(log) /\ event = log[seq] /\ event \in Event
  BY <1>1, ElementOfSeq DEF Numbered
<1>3. CASE seq = LastDelivered + 1
  <2>1. PICK m \in seq .. seq + Cardinality(DOMAIN outOfOrder) : Deliver(seq, event, m)
    BY <1>3 DEF HandleTaskEvent
  <2>2. m \in Int /\ seq <= m
    BY <1>2, <2>1
  <2>3. \A q \in seq + 1 .. m : q \in DOMAIN outOfOrder
    BY <2>1 DEF Deliver
  <2>4. m \in 1 .. Len(log)
    <3>1. CASE m = seq
      BY <1>2, <3>1
    <3>2. CASE m # seq
      <4>1. m \in seq + 1 .. m
        BY <1>2, <2>2, <3>2
      <4> QED  BY <1>1, <2>3, <4>1
    <3> QED  BY <3>1, <3>2
  <2>5. /\ received' = [i \in 1 .. m |-> IF i < seq THEN received[i]
                                         ELSE IF i = seq THEN event ELSE outOfOrder[i]]
        /\ outOfOrder' = [q \in DOMAIN outOfOrder \ (seq .. m) |-> outOfOrder[q]]
        /\ FlushAck(m)
    BY <2>1 DEF Deliver
  <2>6. seq = Len(received) + 1
    BY <1>3 DEF LastDelivered
  <2>7. ASSUME NEW i \in 1 .. m
        PROVE  received'[i] = log[i] /\ log[i] \in Event
    <3>1. log[i] \in Event
      BY <1>1, <2>4, <2>7, ElementOfSeq
    <3>2. CASE i < seq
      BY <1>1, <2>4, <2>5, <2>6, <3>1, <3>2
    <3>3. CASE i = seq
      BY <1>2, <2>5, <3>1, <3>3
    <3>4. CASE seq < i
      <4>1. i \in DOMAIN outOfOrder
        BY <1>2, <2>2, <2>3, <2>7, <3>4
      <4> QED  BY <1>1, <1>2, <2>4, <2>5, <3>1, <3>4, <4>1
    <3> QED  BY <1>2, <3>2, <3>3, <3>4
  <2>8. received' \in Seq(Event) /\ Len(received') = m
    BY <2>4, <2>5, <2>7
  <2>9. /\ DOMAIN outOfOrder' \subseteq 1 .. Len(log)
        /\ outOfOrder' \in [DOMAIN outOfOrder' -> Event]
        /\ \A q \in DOMAIN outOfOrder' : Numbered(q, outOfOrder'[q])
    BY <1>1, <2>5 DEF Numbered
  <2> QED  BY <1>1, <2>2, <2>4, <2>5, <2>6, <2>7, <2>8, <2>9
<1>4. CASE seq # LastDelivered + 1
  <2>1. received' = received /\ FlushAck(Len(received))
    BY <1>4 DEF HandleTaskEvent, Hold, LastDelivered
  <2>2. CASE seq > LastDelivered
    <3>1. outOfOrder' = [q \in DOMAIN outOfOrder \cup {seq} |->
                           IF q = seq THEN event ELSE outOfOrder[q]]
      BY <1>4, <2>2 DEF HandleTaskEvent, Hold
    <3> QED  BY <1>1, <1>2, <2>1, <3>1 DEF Numbered
  <2>3. CASE ~(seq > LastDelivered)
    <3>1. outOfOrder' = outOfOrder
      BY <1>4, <2>3 DEF HandleTaskEvent, Hold
    <3> QED  BY <1>1, <2>1, <3>1 DEF Numbered
  <2> QED  BY <2>2, <2>3
<1> QED  BY <1>3, <1>4

LEMMA RouteEventInv ==
  ASSUME IInv, NEW k \in Sockets, RouteEvent(k)
  PROVE  IInv'
<1>1. /\ d2s' \in [Sockets -> Seq(DaemonFrame)]
      /\ Head(d2s[k]).type = "task_event" /\ Head(d2s[k]) = d2s[k][1]
      /\ Len(d2s[k]) \in Nat \ {0}
      /\ \A s \in Sockets : \A i \in 1 .. Len(d2s'[s]) :
           \E j \in 1 .. Len(d2s[s]) : d2s'[s][i] = d2s[s][j]
  BY TakesFrame DEF RouteEvent
<1>2. Numbered(Head(d2s[k]).seq, Head(d2s[k]).event)
  BY <1>1 DEF IInv, LogInv, FramesInv
<1>3. /\ received' \in Seq(Event)
      /\ Len(received) <= Len(received') /\ Len(received') <= Len(log)
      /\ \A i \in 1 .. Len(received') : received'[i] = log[i]
      /\ DOMAIN outOfOrder' \subseteq 1 .. Len(log)
      /\ outOfOrder' \in [DOMAIN outOfOrder' -> Event]
      /\ \A q \in DOMAIN outOfOrder' : Numbered(q, outOfOrder'[q])
      /\ FlushAck(Len(received'))
  BY <1>2, HandleTaskEventOrders DEF RouteEvent
<1>4. Len(received) \in Nat /\ Len(received') \in Nat /\ Len(log) \in Nat /\ Len(entries) \in Nat
  BY <1>3, Lengths, LenProperties DEF IInv
<1>5. /\ s2d' \in [Sockets -> Seq(ServerFrame)] /\ lastAcked' \in Nat
      /\ \A s \in Sockets : \A i \in 1 .. Len(s2d'[s]) :
           \/ \E j \in 1 .. Len(s2d[s]) : s2d'[s][i] = s2d[s][j]
           \/ s2d'[s][i].type = "event_ack" /\ s2d'[s][i].lastSeq = Len(received')
  BY <1>3, <1>4, FlushAckFrames
<1>6. UNCHANGED <<daemonVars, drops, gatewayVars, bridge, failAt, failCause, yielded,
                  connected, grace, cached>>
  BY DEF RouteEvent
<1>7. TypeOK'
  <2>1. WireTypeOK'
    BY <1>1, <1>5, <1>6 DEF IInv, TypeOK, WireTypeOK
  <2>2. AdapterTypeOK'
    BY <1>3, <1>5, <1>6 DEF IInv, TypeOK, AdapterTypeOK, daemonVars, bufferVars
  <2> QED  BY <1>6, <2>1, <2>2, TypeUnchanged DEF IInv, TypeOK
<1>8. LogInv'
  <2>1. FramesInv'
    <3>1. ASSUME NEW s \in Sockets, NEW i \in 1 .. Len(d2s'[s]), d2s'[s][i].type = "task_event"
          PROVE  Numbered(d2s[s][i].seq, d2s[s][i].event)'
      <4>1. PICK j \in 1 .. Len(d2s[s]) : d2s'[s][i] = d2s[s][j]
        BY <1>1, <3>1
      <4>2. d2s[s][j].seq \in 1 .. Len(log) /\ d2s[s][j].event = log[d2s[s][j].seq]
        BY <3>1, <4>1 DEF IInv, LogInv, FramesInv, Numbered
      <4> QED  BY <1>6, <4>1, <4>2 DEF Numbered, daemonVars, bufferVars
    <3> QED  BY <3>1 DEF FramesInv
  <2>2. EntriesInv' /\ HeldInv' /\ ReceivedInv'
    BY <1>3, <1>6 DEF IInv, LogInv, EntriesInv, HeldInv, ReceivedInv, Numbered, daemonVars,
                      bufferVars
  <2> QED  BY <2>1, <2>2 DEF LogInv
<1>9. BufferInv'
  <2>1. SuffixInv'
    BY <1>3, <1>4, <1>6 DEF IInv, BufferInv, SuffixInv, daemonVars, bufferVars, entryVars
  <2>2. ServerFramesInv'
    <3>1. ASSUME bridge', NEW s \in Sockets, NEW i \in 1 .. Len(s2d'[s])
          PROVE  /\ s2d'[s][i].type = "event_ack" => s2d'[s][i].lastSeq <= Len(received')
                 /\ s2d'[s][i].type = "hello_ok" => ~s2d'[s][i].cancel
      <4>1. CASE \E j \in 1 .. Len(s2d[s]) : s2d'[s][i] = s2d[s][j]
        <5>1. PICK j \in 1 .. Len(s2d[s]) : s2d'[s][i] = s2d[s][j]
          BY <4>1
        <5>2. s2d[s][j] \in ServerFrame
          BY ElementOfSeq DEF IInv, TypeOK, WireTypeOK
        <5>3. /\ s2d[s][j].type = "event_ack" =>
                   s2d[s][j].lastSeq \in Nat /\ s2d[s][j].lastSeq <= Len(received)
              /\ s2d[s][j].type = "hello_ok" => ~s2d[s][j].cancel
          BY <1>6, <3>1, <5>2, ServerFrameFields DEF IInv, BufferInv, ServerFramesInv
        <5> QED  BY <1>3, <1>4, <5>1, <5>3
      <4>2. CASE s2d'[s][i].type = "event_ack" /\ s2d'[s][i].lastSeq = Len(received')
        BY <1>4, <4>2
      <4> QED  BY <1>5, <3>1, <4>1, <4>2
    <3> QED  BY <3>1 DEF ServerFramesInv
  <2>3. Delivered => Delivered'
    BY <1>3, <1>4, <1>6 DEF Delivered, daemonVars, bufferVars, entryVars
  <2>4. RetiredOnlyWhenDelivered' /\ LostMeansLost' /\ (terminal' => loop' # "running")
    BY <1>3, <1>4, <1>6 DEF IInv, BufferInv, RetiredOnlyWhenDelivered, LostMeansLost,
                            daemonVars, bufferVars, entryVars
  <2>5. ClaimsInv'
    <3>1. ASSUME NEW s \in Sockets, NEW i \in 1 .. Len(d2s'[s]), AnnouncesLost(d2s'[s][i])
          PROVE  Delivered'
      BY <1>1, <2>3, <3>1 DEF IInv, BufferInv, ClaimsInv
    <3>2. ASSUME NEW s \in Sockets, awaiting'[s], ~announced'[s]
          PROVE  Delivered'
      BY <1>6, <2>3, <3>2 DEF IInv, BufferInv, ClaimsInv, gatewayVars
    <3> QED  BY <3>1, <3>2 DEF ClaimsInv, AnnouncesLost
  <2> QED  BY <2>1, <2>2, <2>4, <2>5 DEF BufferInv
<1>10. GraceMatchesConnection'
  BY <1>6 DEF IInv, GraceMatchesConnection
<1> QED  BY <1>7, <1>8, <1>9, <1>10 DEF IInv

(***************************************************************************)
(* The daemon's other steps.                                               *)
(***************************************************************************)
\* The daemon sends frames that are neither events nor claims of a loss.
LEMMA HarmlessFrames ==
  ASSUME IInv, NEW frames \in Seq(DaemonFrame), DaemonSends(frames),
         \A j \in 1 .. Len(frames) : frames[j].type = "artifacts"
  PROVE  /\ d2s' \in [Sockets -> Seq(DaemonFrame)]
         /\ \A s \in Sockets : \A i \in 1 .. Len(d2s'[s]) :
              /\ d2s'[s][i].type = "task_event" =>
                   \E j \in 1 .. Len(d2s[s]) : d2s'[s][i] = d2s[s][j]
              /\ AnnouncesLost(d2s'[s][i]) =>
                   \E j \in 1 .. Len(d2s[s]) : d2s'[s][i] = d2s[s][j]
<1>1. /\ d2s' \in [Sockets -> Seq(DaemonFrame)]
      /\ \A s \in Sockets : \A i \in 1 .. Len(d2s'[s]) :
           \/ \E j \in 1 .. Len(d2s[s]) : d2s'[s][i] = d2s[s][j]
           \/ \E j \in 1 .. Len(frames) : d2s'[s][i] = frames[j]
  BY DaemonSendsFrames DEF IInv
<1>2. ASSUME NEW s \in Sockets, NEW i \in 1 .. Len(d2s'[s]),
             d2s'[s][i].type = "task_event" \/ AnnouncesLost(d2s'[s][i])
      PROVE  \E j \in 1 .. Len(d2s[s]) : d2s'[s][i] = d2s[s][j]
  <2>1. CASE \E j \in 1 .. Len(frames) : d2s'[s][i] = frames[j]
    BY <1>2, <2>1 DEF AnnouncesLost
  <2> QED  BY <1>1, <1>2, <2>1
<1> QED  BY <1>1, <1>2

LEMMA SettleArtifactsInv ==
  ASSUME IInv, NEW refs \in ArtifactChoices, SettleArtifacts(refs)
  PROVE  IInv'
<1>1. PICK frames \in {<<ArtifactsFrame>>, <<>>} : DaemonSends(frames)
  BY DEF SettleArtifacts
<1>2. /\ frames \in Seq(DaemonFrame)
      /\ \A j \in 1 .. Len(frames) : frames[j].type = "artifacts"
  <2>1. CASE frames = <<>>
    BY <2>1
  <2>2. CASE frames = <<ArtifactsFrame>>
    BY <2>2, DaemonFrames DEF ArtifactsFrame
  <2> QED  BY <1>1, <2>1, <2>2
<1>3. /\ d2s' \in [Sockets -> Seq(DaemonFrame)]
      /\ \A s \in Sockets : \A i \in 1 .. Len(d2s'[s]) :
           /\ d2s'[s][i].type = "task_event" =>
                \E j \in 1 .. Len(d2s[s]) : d2s'[s][i] = d2s[s][j]
           /\ AnnouncesLost(d2s'[s][i]) =>
                \E j \in 1 .. Len(d2s[s]) : d2s'[s][i] = d2s[s][j]
  BY <1>1, <1>2, HarmlessFrames
<1>4. /\ UNCHANGED <<bufferVars, terminal, process, dsock, s2d, drops, gatewayVars,
                     adapterVars>>
      /\ loop' = "over" /\ artifacts' = refs /\ settled' = TRUE
      /\ tracked' = (tracked /\ ~Retired)
  BY DEF SettleArtifacts
<1>5. TypeOK'
  <2>1. tracked' \in BOOLEAN /\ artifacts' \in BOOLEAN
    BY <1>4, ConstantsAssumption DEF IInv, TypeOK, DaemonTypeOK
  <2>2. DaemonTypeOK'
    BY <1>4, <2>1 DEF IInv, TypeOK, DaemonTypeOK, bufferVars
  <2>3. WireTypeOK'
    BY <1>3, <1>4 DEF IInv, TypeOK, WireTypeOK
  <2> QED  BY <1>4, <2>2, <2>3, TypeUnchanged DEF IInv, TypeOK, bufferVars
<1>6. LogInv'
  BY <1>3, <1>4, LogInvKept DEF bufferVars, adapterVars, streamVars
<1>7. SuffixInv'
  BY <1>4, SuffixKept DEF bufferVars, adapterVars, streamVars
<1>8. RetiredOnlyWhenDelivered'
  <2>1. CASE tracked /\ Retired
    BY <1>4, <2>1, EmptyBufferMeansReceived
       DEF RetiredOnlyWhenDelivered, Retired, bufferVars, adapterVars, streamVars
  <2>2. CASE ~(tracked /\ Retired)
    <3>1. tracked' => tracked
      BY <1>4
    <3>2. ~tracked' => ~tracked
      BY <1>4, <2>2
    <3> QED
      BY <1>4, <3>1, <3>2 DEF IInv, BufferInv, RetiredOnlyWhenDelivered, bufferVars,
                              adapterVars, streamVars
  <2> QED  BY <2>1, <2>2
<1>9. BufferInv'
  BY <1>3, <1>4, <1>7, <1>8, BufferInvKept
     DEF bufferVars, gatewayVars, adapterVars, streamVars
<1>10. GraceMatchesConnection'
  BY <1>4 DEF IInv, GraceMatchesConnection, adapterVars, streamVars
<1> QED  BY <1>5, <1>6, <1>9, <1>10 DEF IInv

LEMMA ConnectInv ==
  ASSUME IInv, Connect
  PROVE  IInv'
<1>1. PICK k \in Sockets :
        /\ ~awaiting[k]
        /\ dsock' = k
        /\ ssock' = [ssock EXCEPT ![k] = "open"]
        /\ helloDone' = [helloDone EXCEPT ![k] = FALSE]
        /\ d2s' = [d2s EXCEPT ![k] = <<HelloFrame(RunningDispatchIds)>>]
  BY DEF Connect
<1>2. UNCHANGED <<bufferVars, entryVars, process, s2d, drops, awaiting, announced,
                  registered, adapterVars>>
  BY DEF Connect
<1>3. /\ d2s' \in [Sockets -> Seq(DaemonFrame)]
      /\ \A s \in Sockets : \A i \in 1 .. Len(d2s'[s]) :
           \/ \E j \in 1 .. Len(d2s[s]) : d2s'[s][i] = d2s[s][j]
           \/ d2s'[s][i].type = "hello" /\ d2s'[s][i].running = RunningDispatchIds
  <2>1. RunningDispatchIds \in BOOLEAN
    BY DEF IInv, TypeOK, DaemonTypeOK, RunningDispatchIds
  <2>2. HelloFrame(RunningDispatchIds) \in DaemonFrame
    BY <2>1, DaemonFrames
  <2>3. /\ HelloFrame(RunningDispatchIds).type = "hello"
        /\ HelloFrame(RunningDispatchIds).running = RunningDispatchIds
    BY DEF HelloFrame
  <2>4. d2s \in [Sockets -> Seq(DaemonFrame)]
    BY DEF IInv, TypeOK, WireTypeOK
  <2> QED  BY <1>1, <2>2, <2>3, <2>4
<1>4. TypeOK'
  <2>1. DaemonTypeOK'
    BY <1>1, <1>2 DEF IInv, TypeOK, DaemonTypeOK, bufferVars, entryVars
  <2>2. WireTypeOK'
    BY <1>2, <1>3 DEF IInv, TypeOK, WireTypeOK
  <2>3. GatewayTypeOK'
    BY <1>1, <1>2 DEF IInv, TypeOK, GatewayTypeOK
  <2> QED  BY <1>2, <2>1, <2>2, <2>3, TypeUnchanged DEF IInv, TypeOK, bufferVars
<1>5. LogInv'
  BY <1>2, <1>3, LogInvKept DEF bufferVars, adapterVars, streamVars
<1>6. SuffixInv' /\ RetiredOnlyWhenDelivered'
  BY <1>2, SuffixKept, RetiredKept DEF bufferVars, entryVars, adapterVars, streamVars
<1>7. ASSUME NEW s \in Sockets, NEW i \in 1 .. Len(d2s'[s]), AnnouncesLost(d2s'[s][i])
      PROVE  Delivered \/ \E j \in 1 .. Len(d2s[s]) : d2s'[s][i] = d2s[s][j]
  BY <1>3, <1>7, NotAnnounced DEF AnnouncesLost
<1>8. BufferInv'
  BY <1>2, <1>6, <1>7, BufferInvKept DEF bufferVars, entryVars, adapterVars, streamVars
<1>9. GraceMatchesConnection'
  BY <1>2 DEF IInv, GraceMatchesConnection, adapterVars, streamVars
<1> QED  BY <1>4, <1>5, <1>8, <1>9 DEF IInv

LEMMA DaemonSocketClosedInv ==
  ASSUME IInv, DaemonSocketClosed
  PROVE  IInv'
<1>1. /\ dsock \in Sockets /\ dsock' = NoSocket /\ s2d' = [s2d EXCEPT ![dsock] = <<>>]
      /\ drops' \in 0 .. MaxDrops
      /\ UNCHANGED <<bufferVars, entryVars, process, d2s, gatewayVars, adapterVars>>
  BY ConstantsAssumption
     DEF IInv, TypeOK, DaemonTypeOK, WireTypeOK, DaemonSocketClosed
<1>2. /\ s2d' \in [Sockets -> Seq(ServerFrame)]
      /\ \A s \in Sockets : \A i \in 1 .. Len(s2d'[s]) :
           \E j \in 1 .. Len(s2d[s]) : s2d'[s][i] = s2d[s][j]
  <2>1. s2d \in [Sockets -> Seq(ServerFrame)] /\ <<>> \in Seq(ServerFrame)
    BY DEF IInv, TypeOK, WireTypeOK
  <2>2. Len(<<>>) = 0
    OBVIOUS
  <2> QED  BY <1>1, <2>1, <2>2
<1>3. TypeOK'
  <2>1. DaemonTypeOK'
    BY <1>1 DEF IInv, TypeOK, DaemonTypeOK, bufferVars, entryVars
  <2>2. WireTypeOK'
    BY <1>1, <1>2 DEF IInv, TypeOK, WireTypeOK
  <2> QED  BY <1>1, <2>1, <2>2, TypeUnchanged DEF IInv, TypeOK, bufferVars
<1>4. LogInv' /\ BufferInv'
  BY <1>1, <1>2, QuietKept DEF bufferVars, entryVars, gatewayVars, adapterVars, streamVars
<1>5. GraceMatchesConnection'
  BY <1>1 DEF IInv, GraceMatchesConnection, adapterVars, streamVars
<1> QED  BY <1>3, <1>4, <1>5 DEF IInv

LEMMA ReceivesFrame ==
  ASSUME IInv, dsock # NoSocket, NEW type, Receives(dsock, type)
  PROVE  /\ dsock \in Sockets
         /\ s2d' \in [Sockets -> Seq(ServerFrame)]
         /\ Head(s2d[dsock]) \in ServerFrame /\ Head(s2d[dsock]).type = type
         /\ Len(s2d[dsock]) \in Nat \ {0} /\ Head(s2d[dsock]) = s2d[dsock][1]
         /\ \A s \in Sockets : \A i \in 1 .. Len(s2d'[s]) :
              \E j \in 1 .. Len(s2d[s]) : s2d'[s][i] = s2d[s][j]
<1>1. dsock \in Sockets
  BY DEF IInv, TypeOK, DaemonTypeOK
<1> QED  BY <1>1, ServerFrameTaken DEF IInv, Receives

\* What onHelloOk sends: a true claim of a loss, unacked events, artifacts.
LEMMA HelloOkInv ==
  ASSUME IInv, HelloOk
  PROVE  IInv'
<1> DEFINE frame == Head(s2d[dsock])
           lost  == IF frame.resume /\ ~RunningDispatchIds THEN <<LostFrame>> ELSE <<>>
           refs  == IF frame.resume /\ tracked /\ terminal /\ artifacts
                    THEN <<ArtifactsFrame>> ELSE <<>>
           again == Replay(frame.resume)
           sent  == lost \o again \o refs
<1>1. /\ dsock \in Sockets
      /\ s2d' \in [Sockets -> Seq(ServerFrame)]
      /\ Head(s2d[dsock]) \in ServerFrame /\ Head(s2d[dsock]).type = "hello_ok"
      /\ Len(s2d[dsock]) \in Nat \ {0} /\ Head(s2d[dsock]) = s2d[dsock][1]
      /\ \A s \in Sockets : \A i \in 1 .. Len(s2d'[s]) :
           \E j \in 1 .. Len(s2d[s]) : s2d'[s][i] = s2d[s][j]
  BY ReceivesFrame DEF HelloOk
<1>2. frame.resume \in BOOLEAN /\ frame.cancel \in BOOLEAN
  BY <1>1, ServerFrameFields
<1>3. bridge => ~frame.cancel
  BY <1>1 DEF IInv, BufferInv, ServerFramesInv
<1>4. /\ DaemonSends(sent) /\ tracked' = (tracked /\ ~frame.cancel)
      /\ UNCHANGED <<bufferVars, loop, terminal, settled, artifacts, process, dsock,
                     drops, gatewayVars, adapterVars>>
  BY DEF HelloOk
<1>5. /\ lost \in Seq(DaemonFrame)
      /\ \A j \in 1 .. Len(lost) : lost[j].type = "task_lost" /\ Delivered
  <2>1. CASE frame.resume /\ ~RunningDispatchIds
    BY <2>1, NotAnnounced, DaemonFrames DEF LostFrame
  <2>2. CASE ~(frame.resume /\ ~RunningDispatchIds)
    BY <2>2
  <2> QED  BY <2>1, <2>2
<1>6. /\ refs \in Seq(DaemonFrame)
      /\ \A j \in 1 .. Len(refs) : refs[j].type = "artifacts"
  BY DaemonFrames DEF ArtifactsFrame
<1>7. /\ again \in Seq(DaemonFrame)
      /\ \A j \in 1 .. Len(again) :
           /\ again[j].type = "task_event"
           /\ \E n \in 1 .. Len(entries) :
                again[j].seq = entries[n].seq /\ again[j].event = entries[n].event
  <2>1. CASE frame.resume /\ tracked
    <3>1. again = [i \in 1 .. Len(entries) |-> EventFrame(entries[i].seq, entries[i].event)]
      BY <2>1 DEF Replay
    <3>2. entries \in Seq(Entry) /\ Len(entries) \in Nat
      BY Lengths DEF IInv, TypeOK, DaemonTypeOK
    <3>3. \A i \in 1 .. Len(entries) :
            EventFrame(entries[i].seq, entries[i].event) \in DaemonFrame
      <4>1. \A i \in 1 .. Len(entries) :
              entries[i].seq \in Nat /\ entries[i].event \in Event
        <5>1. \A i \in 1 .. Len(entries) : entries[i] \in Entry
          BY <3>2, ElementOfSeq
        <5> QED  BY <5>1 DEF Entry
      <4> QED  BY <4>1, DaemonFrames
    <3>4. again \in Seq(DaemonFrame) /\ Len(again) = Len(entries)
      BY <3>1, <3>2, <3>3
    <3> QED  BY <3>1, <3>4 DEF EventFrame
  <2>2. CASE ~(frame.resume /\ tracked)
    BY <2>2 DEF Replay
  <2> QED  BY <2>1, <2>2
<1> HIDE DEF lost, refs, again
<1>8. /\ sent \in Seq(DaemonFrame)
      /\ \A j \in 1 .. Len(sent) :
           \/ \E n \in 1 .. Len(lost) : sent[j] = lost[n]
           \/ \E n \in 1 .. Len(again) : sent[j] = again[n]
           \/ \E n \in 1 .. Len(refs) : sent[j] = refs[n]
  <2>1. /\ Len(lost) \in Nat /\ Len(again) \in Nat /\ Len(refs) \in Nat
    BY <1>5, <1>6, <1>7, LenProperties
  <2>2. /\ lost \o again \in Seq(DaemonFrame)
        /\ Len(lost \o again) = Len(lost) + Len(again)
        /\ \A j \in 1 .. Len(lost) + Len(again) :
             (lost \o again)[j] = IF j <= Len(lost) THEN lost[j] ELSE again[j - Len(lost)]
    BY <1>5, <1>7, ConcatProperties
  <2> DEFINE both == lost \o again
  <2>3. ASSUME NEW j \in 1 .. Len(both)
        PROVE  \/ \E n \in 1 .. Len(lost) : both[j] = lost[n]
               \/ \E n \in 1 .. Len(again) : both[j] = again[n]
    <3>1. CASE j <= Len(lost)
      BY <2>1, <2>2, <2>3, <3>1
    <3>2. CASE ~(j <= Len(lost))
      <4>1. j - Len(lost) \in 1 .. Len(again)
        BY <2>1, <2>2, <2>3, <3>2
      <4> QED  BY <2>2, <2>3, <3>2, <4>1
    <3> QED  BY <3>1, <3>2
  <2> HIDE DEF both
  <2>4. /\ both \o refs \in Seq(DaemonFrame)
        /\ Len(both \o refs) = Len(both) + Len(refs)
        /\ \A j \in 1 .. Len(both) + Len(refs) :
             (both \o refs)[j] = IF j <= Len(both) THEN both[j] ELSE refs[j - Len(both)]
    BY <1>6, <2>2, ConcatProperties DEF both
  <2>5. Len(both) \in Nat
    BY <2>1, <2>2 DEF both
  <2>6. ASSUME NEW j \in 1 .. Len(both \o refs)
        PROVE  \/ \E n \in 1 .. Len(lost) : (both \o refs)[j] = lost[n]
               \/ \E n \in 1 .. Len(again) : (both \o refs)[j] = again[n]
               \/ \E n \in 1 .. Len(refs) : (both \o refs)[j] = refs[n]
    <3>1. CASE j <= Len(both)
      BY <2>1, <2>3, <2>4, <2>5, <2>6, <3>1
    <3>2. CASE ~(j <= Len(both))
      <4>1. j - Len(both) \in 1 .. Len(refs)
        BY <2>1, <2>4, <2>5, <2>6, <3>2
      <4> QED  BY <2>4, <2>6, <3>2, <4>1
    <3> QED  BY <3>1, <3>2
  <2> QED  BY <2>4, <2>6 DEF both
<1> HIDE DEF sent
<1>9. /\ d2s' \in [Sockets -> Seq(DaemonFrame)]
      /\ \A s \in Sockets : \A i \in 1 .. Len(d2s'[s]) :
           \/ \E j \in 1 .. Len(d2s[s]) : d2s'[s][i] = d2s[s][j]
           \/ \E j \in 1 .. Len(sent) : d2s'[s][i] = sent[j]
  BY <1>4, <1>8, DaemonSendsFrames DEF IInv
<1>10. ASSUME NEW s \in Sockets, NEW i \in 1 .. Len(d2s'[s])
       PROVE  /\ d2s'[s][i].type = "task_event" =>
                   \/ \E j \in 1 .. Len(d2s[s]) : d2s'[s][i] = d2s[s][j]
                   \/ \E j \in 1 .. Len(entries) :
                        /\ d2s'[s][i].seq = entries[j].seq
                        /\ d2s'[s][i].event = entries[j].event
              /\ AnnouncesLost(d2s'[s][i]) =>
                   Delivered \/ \E j \in 1 .. Len(d2s[s]) : d2s'[s][i] = d2s[s][j]
  <2>1. CASE \E j \in 1 .. Len(sent) : d2s'[s][i] = sent[j]
    <3>1. \/ \E n \in 1 .. Len(lost) : d2s'[s][i] = lost[n]
          \/ \E n \in 1 .. Len(again) : d2s'[s][i] = again[n]
          \/ \E n \in 1 .. Len(refs) : d2s'[s][i] = refs[n]
      BY <1>8, <2>1
    <3>2. CASE \E n \in 1 .. Len(lost) : d2s'[s][i] = lost[n]
      BY <1>5, <3>2
    <3>3. CASE \E n \in 1 .. Len(again) : d2s'[s][i] = again[n]
      <4>1. PICK n \in 1 .. Len(again) : d2s'[s][i] = again[n]
        BY <3>3
      <4>2. d2s'[s][i].type = "task_event"
        BY <1>7, <4>1
      <4>3. \E j \in 1 .. Len(entries) :
              d2s'[s][i].seq = entries[j].seq /\ d2s'[s][i].event = entries[j].event
        BY <1>7, <4>1
      <4> QED  BY <4>2, <4>3 DEF AnnouncesLost
    <3>4. CASE \E n \in 1 .. Len(refs) : d2s'[s][i] = refs[n]
      BY <1>6, <3>4 DEF AnnouncesLost
    <3> QED  BY <3>1, <3>2, <3>3, <3>4
  <2> QED  BY <1>9, <1>10, <2>1
<1>11. TypeOK'
  <2>1. DaemonTypeOK'
    BY <1>4 DEF IInv, TypeOK, DaemonTypeOK, bufferVars
  <2>2. WireTypeOK'
    BY <1>1, <1>4, <1>9 DEF IInv, TypeOK, WireTypeOK
  <2> QED  BY <1>4, <2>1, <2>2, TypeUnchanged DEF IInv, TypeOK, bufferVars
<1>12. LogInv'
  BY <1>4, <1>10, LogInvKept DEF bufferVars, adapterVars, streamVars
<1>13. SuffixInv' /\ RetiredOnlyWhenDelivered'
  <2>1. SuffixInv'
    BY <1>4, SuffixKept DEF bufferVars, adapterVars, streamVars
  <2>2. RetiredOnlyWhenDelivered'
    BY <1>3, <1>4 DEF IInv, BufferInv, RetiredOnlyWhenDelivered, bufferVars, adapterVars,
                      streamVars
  <2> QED  BY <2>1, <2>2
<1>14. BufferInv'
  BY <1>1, <1>4, <1>10, <1>13, BufferInvKept
     DEF bufferVars, gatewayVars, adapterVars, streamVars
<1>15. GraceMatchesConnection'
  BY <1>4 DEF IInv, GraceMatchesConnection, adapterVars, streamVars
<1> QED  BY <1>11, <1>12, <1>14, <1>15 DEF IInv

LEMMA EventAckInv ==
  ASSUME IInv, EventAck
  PROVE  IInv'
<1> DEFINE lastSeq == Head(s2d[dsock]).lastSeq
<1>1. /\ dsock \in Sockets
      /\ s2d' \in [Sockets -> Seq(ServerFrame)]
      /\ Head(s2d[dsock]) \in ServerFrame /\ Head(s2d[dsock]).type = "event_ack"
      /\ Len(s2d[dsock]) \in Nat \ {0} /\ Head(s2d[dsock]) = s2d[dsock][1]
      /\ \A s \in Sockets : \A i \in 1 .. Len(s2d'[s]) :
           \E j \in 1 .. Len(s2d[s]) : s2d'[s][i] = s2d[s][j]
  BY ReceivesFrame DEF EventAck
<1>2. lastSeq \in Nat /\ (bridge => lastSeq <= Len(received))
  BY <1>1, ServerFrameFields DEF IInv, BufferInv, ServerFramesInv
<1>3. /\ IF tracked THEN BufferAck(lastSeq) ELSE UNCHANGED entries
      /\ tracked' = (tracked /\ ~Retired)
      /\ UNCHANGED <<log, overflowed, terminal, loop, settled, artifacts, process, dsock,
                     d2s, drops, gatewayVars, adapterVars>>
  BY DEF EventAck
<1>4. /\ Len(log) \in Nat /\ Len(entries) \in Nat /\ Len(received) \in Nat
      /\ entries \in Seq(Entry)
  BY Lengths DEF IInv, TypeOK, DaemonTypeOK
<1>5. PICK n \in 0 .. Len(entries) :
        /\ \A i \in 1 .. n : tracked /\ entries[i].seq <= lastSeq
        /\ entries' = SubSeq(entries, n + 1, Len(entries))
  <2>1. CASE tracked
    BY <1>3, <2>1 DEF BufferAck
  <2>2. CASE ~tracked
    <3>1. entries' = SubSeq(entries, 0 + 1, Len(entries))
      BY <1>3, <1>4, <2>2, SubSeqFull
    <3> QED  BY <1>4, <3>1
  <2> QED  BY <2>1, <2>2
<1>6. /\ entries' \in Seq(Entry) /\ Len(entries') = Len(entries) - n
      /\ \A i \in 1 .. Len(entries') : entries'[i] = entries[n + i] /\ n + i \in 1 .. Len(entries)
  <2>1. \A i \in n + 1 .. Len(entries) : entries[i] \in Entry
    BY <1>4, ElementOfSeq
  <2> QED  BY <1>4, <1>5, <2>1, SubSeqProperties
<1>7. TypeOK'
  <2>1. DaemonTypeOK'
    BY <1>3, <1>6 DEF IInv, TypeOK, DaemonTypeOK
  <2>2. WireTypeOK'
    BY <1>1, <1>3 DEF IInv, TypeOK, WireTypeOK
  <2> QED  BY <1>3, <2>1, <2>2, TypeUnchanged DEF IInv, TypeOK
<1>8. LogInv'
  <2>1. \A i \in 1 .. Len(entries') : \E j \in 1 .. Len(entries) : entries'[i] = entries[j]
    BY <1>6
  <2> QED  BY <1>3, <2>1, LogInvKept DEF adapterVars, streamVars
<1>9. ASSUME tracked, ~overflowed
      PROVE  /\ Len(entries') <= Len(log)
             /\ \A i \in 1 .. Len(entries') : entries'[i].seq = Len(log) - Len(entries') + i
             /\ bridge => Len(log) - Len(entries') <= Len(received)
  <2>1. /\ Len(entries) <= Len(log)
        /\ \A i \in 1 .. Len(entries) : entries[i].seq = Len(log) - Len(entries) + i
        /\ bridge => Len(log) - Len(entries) <= Len(received)
    BY <1>9 DEF IInv, BufferInv, SuffixInv
  <2>2. ASSUME bridge
        PROVE  Len(log) - Len(entries') <= Len(received)
    <3>1. CASE n = 0
      BY <1>4, <1>6, <2>1, <2>2, <3>1
    <3>2. CASE n # 0
      <4>1. entries[n].seq <= lastSeq /\ entries[n].seq = Len(log) - Len(entries) + n
        BY <1>4, <1>5, <2>1, <3>2
      <4> QED  BY <1>2, <1>4, <1>6, <2>2, <4>1
    <3> QED  BY <3>1, <3>2
  <2>3. ASSUME NEW i \in 1 .. Len(entries')
        PROVE  entries'[i].seq = Len(log) - Len(entries') + i
    <3>1. entries'[i].seq = Len(log) - Len(entries) + (n + i)
      BY <1>6, <2>1, <2>3
    <3> QED  BY <1>4, <1>6, <2>3, <3>1
  <2> QED  BY <1>4, <1>6, <2>1, <2>2, <2>3
<1>10. SuffixInv'
  <2>1. tracked' => tracked
    BY <1>3
  <2> QED  BY <1>3, <1>9, <2>1 DEF SuffixInv, adapterVars, streamVars
<1>11. RetiredOnlyWhenDelivered'
  <2>1. CASE tracked /\ Retired
    <3>1. terminal /\ entries' = <<>> /\ Len(entries') = 0
      BY <1>3, <2>1 DEF Retired
    <3>2. ~overflowed /\ bridge => Len(received) = Len(log)
      BY <1>4, <1>9, <2>1, <3>1 DEF IInv, LogInv, ReceivedInv
    <3> QED  BY <1>3, <3>1, <3>2 DEF RetiredOnlyWhenDelivered, adapterVars, streamVars
  <2>2. CASE ~(tracked /\ Retired)
    <3>1. ~tracked' => ~tracked
      BY <1>3, <2>2
    <3> QED
      BY <1>3, <3>1 DEF IInv, BufferInv, RetiredOnlyWhenDelivered, adapterVars, streamVars
  <2> QED  BY <2>1, <2>2
<1>12. BufferInv'
  <2>1. \A s \in Sockets : \A i \in 1 .. Len(d2s'[s]) :
          \E j \in 1 .. Len(d2s[s]) : d2s'[s][i] = d2s[s][j]
    BY <1>3
  <2> QED  BY <1>1, <1>3, <1>10, <1>11, <2>1, BufferInvKept
           DEF gatewayVars, adapterVars, streamVars
<1>13. GraceMatchesConnection'
  BY <1>3 DEF IInv, GraceMatchesConnection, adapterVars, streamVars
<1> QED  BY <1>7, <1>8, <1>12, <1>13 DEF IInv

LEMMA ProcessEndsInv ==
  ASSUME IInv, NEW after \in {"second", "exited"}, ProcessEnds(after)
  PROVE  IInv'
<1>1. /\ process' = after /\ loop' = "over" /\ tracked' = FALSE /\ entries' = <<>>
      /\ dsock' = NoSocket /\ s2d' = [s \in Sockets |-> <<>>]
      /\ UNCHANGED <<log, overflowed, terminal, settled, artifacts, d2s, drops,
                     gatewayVars, adapterVars>>
  BY DEF ProcessEnds
<1>2. \A s \in Sockets : Len(s2d'[s]) = 0
  BY <1>1
<1>3. TypeOK'
  <2>1. entries' \in Seq(Entry)
    BY <1>1
  <2>2. DaemonTypeOK'
    BY <1>1, <2>1 DEF IInv, TypeOK, DaemonTypeOK
  <2>3. <<>> \in Seq(ServerFrame)
    OBVIOUS
  <2>4. WireTypeOK'
    BY <1>1, <2>3 DEF IInv, TypeOK, WireTypeOK
  <2> QED  BY <1>1, <2>2, <2>4, TypeUnchanged DEF IInv, TypeOK
<1>4. LogInv'
  <2>1. Len(entries') = 0
    BY <1>1
  <2> QED  BY <1>1, <2>1, LogInvKept DEF adapterVars, streamVars
<1>5. SuffixInv' /\ RetiredOnlyWhenDelivered'
  BY <1>1 DEF SuffixInv, RetiredOnlyWhenDelivered
<1>6. BufferInv'
  BY <1>1, <1>2, <1>5, BufferInvKept DEF gatewayVars, adapterVars, streamVars
<1>7. GraceMatchesConnection'
  BY <1>1 DEF IInv, GraceMatchesConnection, adapterVars, streamVars
<1> QED  BY <1>3, <1>4, <1>6, <1>7 DEF IInv

(***************************************************************************)
(* The theorems.                                                           *)
(***************************************************************************)
LEMMA InitIInv ==
  ASSUME Init
  PROVE  IInv
<1>1. TypeOK
  <2>1. log \in Seq(Event) /\ entries \in Seq(Entry) /\ received \in Seq(Event)
        /\ yielded \in Seq(Event) /\ outOfOrder = <<>>
    BY DEF Init
  <2>2. DaemonTypeOK
    BY <2>1 DEF Init, DaemonTypeOK
  <2>3. WireTypeOK
    <3>1. <<>> \in Seq(DaemonFrame) /\ <<>> \in Seq(ServerFrame)
      OBVIOUS
    <3> QED  BY <3>1, ConstantsAssumption DEF Init, WireTypeOK
  <2>4. GatewayTypeOK
    BY DEF Init, GatewayTypeOK
  <2>5. AdapterTypeOK
    <3>1. DOMAIN outOfOrder = {} /\ outOfOrder \in [DOMAIN outOfOrder -> Event]
      <4>1. <<>> \in Seq(Event) /\ Len(<<>>) = 0
        OBVIOUS
      <4> QED  BY <2>1, <4>1, LenProperties
    <3> QED  BY <2>1, <3>1 DEF Init, AdapterTypeOK
  <2> QED  BY <2>2, <2>3, <2>4, <2>5 DEF TypeOK
<1>2. /\ Len(log) = 0 /\ Len(entries) = 0 /\ Len(received) = 0 /\ DOMAIN outOfOrder = {}
      /\ \A s \in Sockets : Len(d2s[s]) = 0 /\ Len(s2d[s]) = 0
  BY DEF Init
<1>3. LogInv
  BY <1>2 DEF LogInv, FramesInv, EntriesInv, HeldInv, ReceivedInv
<1>4. BufferInv
  BY <1>2 DEF Init, BufferInv, SuffixInv, ServerFramesInv, RetiredOnlyWhenDelivered, ClaimsInv,
              LostMeansLost
<1>5. GraceMatchesConnection
  BY DEF Init, GraceMatchesConnection
<1> QED  BY <1>1, <1>3, <1>4, <1>5 DEF IInv

LEMMA StutterIInv ==
  ASSUME IInv, UNCHANGED vars
  PROVE  IInv'
<1>1. UNCHANGED <<daemonVars, d2s, s2d, drops, gatewayVars, adapterVars>>
  BY DEF vars
<1>2. TypeOK'
  BY <1>1, TypeUnchanged DEF IInv, TypeOK, daemonVars, bufferVars
<1>3. LogInv' /\ BufferInv'
  <2>1. /\ \A s \in Sockets : \A i \in 1 .. Len(d2s'[s]) :
             \E j \in 1 .. Len(d2s[s]) : d2s'[s][i] = d2s[s][j]
        /\ \A s \in Sockets : \A i \in 1 .. Len(s2d'[s]) :
             \E j \in 1 .. Len(s2d[s]) : s2d'[s][i] = s2d[s][j]
    BY <1>1
  <2> QED  BY <1>1, <2>1, QuietKept
           DEF daemonVars, bufferVars, entryVars, gatewayVars, adapterVars, streamVars
<1>4. GraceMatchesConnection'
  BY <1>1 DEF IInv, GraceMatchesConnection, adapterVars, streamVars
<1> QED  BY <1>2, <1>3, <1>4 DEF IInv

\* IInv is an invariant: one case for each action.
THEOREM Invariance == Spec => []IInv
<1>1. Init => IInv
  BY InitIInv
<1>2. IInv /\ [Next]_vars => IInv'
  <2> SUFFICES ASSUME IInv, [Next]_vars PROVE IInv'
    OBVIOUS
  <2>1. CASE DaemonStep
    BY <2>1, SettleArtifactsInv, ConnectInv, HelloOkInv, EventAckInv, ProcessEndsInv
       DEF DaemonStep, HelloErrorSuperseded
  <2>2. CASE \E s \in Sockets : ServerStep(s)
    BY <2>2, HelloBeginsInv, HelloFinishesInv, FrameBeforeHelloInv, RouteEventInv,
       RouteUnownedInv, RouteLostInv, RouteArtifactsInv
       DEF ServerStep
  <2>3. CASE Adapter
    BY <2>3, YieldEventInv, YieldFailureInv, AckTickInv, GraceExpiresInv DEF Adapter
  <2>4. CASE Environment
    BY <2>4, RuntimeYieldsInv, RuntimeThrowsInv, ProcessEndsInv, WorkerStopsInv,
       DaemonSocketClosedInv, HelloFailsInv, ServerSocketClosedInv
       DEF Environment, Runtime, ProcessStops
  <2>5. CASE UNCHANGED vars
    BY <2>5, StutterIInv
  <2> QED  BY <2>1, <2>2, <2>3, <2>4, <2>5 DEF Next
<1> QED  BY <1>1, <1>2, PTL DEF Spec

\* Every variable keeps its type, and no sequence number is held that the
\* daemon has not given out.
THEOREM TypeCorrect == Spec => []TypeOK
<1>1. IInv => TypeOK
  BY DEF IInv
<1> QED  BY <1>1, Invariance, PTL

\* The worker's events are the daemon's first ones (SeqTracker).
THEOREM EventsInOrder == Spec => []InOrder
<1>1. IInv => InOrder
  <2> SUFFICES ASSUME IInv PROVE InOrder
    OBVIOUS
  <2>1. /\ received \in Seq(Event) /\ log \in Seq(Event)
        /\ Len(received) \in Nat /\ Len(log) \in Nat /\ Len(received) <= Len(log)
        /\ \A i \in 1 .. Len(received) : received[i] = log[i]
    BY Lengths DEF IInv, TypeOK, DaemonTypeOK, AdapterTypeOK, LogInv, ReceivedInv
  <2>2. \A i \in 1 .. Len(received) : log[i] \in Event
    BY <2>1, ElementOfSeq
  <2>3. /\ SubSeq(log, 1, Len(received)) \in Seq(Event)
        /\ Len(SubSeq(log, 1, Len(received))) = Len(received)
        /\ \A i \in 1 .. Len(received) : SubSeq(log, 1, Len(received))[i] = log[i]
    BY <2>1, <2>2, SubSeqProperties
  <2> QED  BY <2>1, <2>3, SeqEqual DEF InOrder
<1> QED  BY <1>1, Invariance, PTL

\* What the worker still needs is in the replay buffer (EventReplayBuffer.ack).
THEOREM BufferKeepsUndelivered == Spec => []NothingLost
<1>1. IInv => NothingLost
  <2> SUFFICES ASSUME IInv, bridge, tracked, ~overflowed,
                      NEW q \in 1 .. Len(log), ~(q <= Len(received))
               PROVE  \E i \in DOMAIN entries : entries[i].seq = q
    BY DEF NothingLost
  <2>1. /\ Len(entries) <= Len(log)
        /\ \A i \in 1 .. Len(entries) : entries[i].seq = Len(log) - Len(entries) + i
        /\ Len(log) - Len(entries) <= Len(received)
    BY DEF IInv, BufferInv, SuffixInv
  <2>2. /\ Len(log) \in Nat /\ Len(entries) \in Nat /\ Len(received) \in Nat
        /\ DOMAIN entries = 1 .. Len(entries)
    BY Lengths, LenProperties DEF IInv, TypeOK, DaemonTypeOK
  <2> DEFINE i == q - (Len(log) - Len(entries))
  <2>3. i \in 1 .. Len(entries)
    BY <2>1, <2>2
  <2>4. entries[i].seq = Len(log) - Len(entries) + i
    BY <2>1, <2>3
  <2>5. Len(log) - Len(entries) + i = q
    BY <2>2
  <2> QED  BY <2>2, <2>3, <2>4, <2>5
<1> QED  BY <1>1, Invariance, PTL

\* A dispatch is forgotten only with all its events delivered (ack, and runLoop's
\* finally), however late the ack was read.
THEOREM RetirementIsTrue == Spec => []RetiredOnlyWhenDelivered
<1>1. IInv => RetiredOnlyWhenDelivered
  BY DEF IInv, BufferInv
<1> QED  BY <1>1, Invariance, PTL

\* A daemon that answers that it lacks the dispatch (hello, task_lost) has
\* restarted or has delivered all of it (runningDispatchIds, reconcileHello).
THEOREM LossIsTrue == Spec => []LostMeansLost
<1>1. IInv => LostMeansLost
  BY DEF IInv, BufferInv
<1> QED  BY <1>1, Invariance, PTL

\* The grace timer runs exactly while the worker takes the daemon for gone
\* (handleDisconnected, handleReconnected).
THEOREM GraceMatches == Spec => []GraceMatchesConnection
<1>1. IInv => GraceMatchesConnection
  BY DEF IInv
<1> QED  BY <1>1, Invariance, PTL

LEMMA EmissionsExtendLog ==
  ASSUME TypeOK, Runtime
  PROVE  /\ log' \in Seq(Event) /\ Len(log) < Len(log')
         /\ \A i \in 1 .. Len(log) : log'[i] = log[i]
         /\ UNCHANGED <<yielded, bridge>>
<1>1. CASE RuntimeThrows
  BY <1>1, Constants, BufferAppendNumbers DEF RuntimeThrows, adapterVars, streamVars
<1>2. CASE \E raw \in Events : RuntimeYields(raw)
  <2>1. PICK raw \in Events : RuntimeYields(raw)
    BY <1>2
  <2>2. Preflight(raw) \in Event /\ Failure \in Event
    BY Constants, ConstantsAssumption
  <2>3. UNCHANGED <<yielded, bridge>>
    BY <2>1 DEF RuntimeYields, adapterVars, streamVars
  <2>4. CASE EmitRetained(raw)
    BY <2>2, <2>3, <2>4, BufferAppendNumbers DEF EmitRetained
  <2>5. CASE EmitOversized(raw)
    BY <2>2, <2>3, <2>5, BufferAppendNumbers DEF EmitOversized
  <2>6. CASE EmitOverflow(raw)
    <3> DEFINE new == <<Preflight(raw), Failure>>
    <3>1. log' = log \o new
      BY <2>6 DEF EmitOverflow
    <3>2. log \in Seq(Event) /\ Len(log) \in Nat /\ new \in Seq(Event) /\ Len(new) = 2
      BY <2>2, Lengths DEF TypeOK, DaemonTypeOK
    <3> HIDE DEF new
    <3>3. /\ log \o new \in Seq(Event) /\ Len(log \o new) = Len(log) + Len(new)
          /\ \A i \in 1 .. Len(log) + Len(new) :
               (log \o new)[i] = IF i <= Len(log) THEN log[i] ELSE new[i - Len(log)]
      BY <3>2, ConcatProperties
    <3> QED  BY <2>3, <3>1, <3>2, <3>3
  <2> QED  BY <2>1, <2>4, <2>5, <2>6 DEF RuntimeYields
<1> QED  BY <1>1, <1>2 DEF Runtime

\* The daemon, the wire and the worker together implement EventDelivery.
THEOREM Refinement == Spec => DeliversInOrder
<1> USE DEF Delivery!vars
<1>1. Init => Delivery!Init
  BY DEF Init, Delivery!Init
<1>2. IInv /\ [Next]_vars => [Delivery!Next]_(Delivery!vars)
  <2> SUFFICES ASSUME IInv, [Next]_vars
               PROVE  Delivery!Next \/ UNCHANGED <<log, yielded, bridge>>
    OBVIOUS
  <2>0. /\ log \in Seq(Event) /\ Len(log) \in Nat
        /\ Len(received) \in Nat /\ Len(received) <= Len(log) /\ Len(yielded) \in Nat
        /\ \A i \in 1 .. Len(received) : received[i] = log[i]
    BY Lengths DEF IInv, TypeOK, DaemonTypeOK, LogInv, ReceivedInv
  <2>1. CASE YieldEvent
    <3> DEFINE n == Len(yielded) + 1
    <3>1. n \in 1 .. Len(received) /\ n \in 1 .. Len(log)
      BY <2>0, <2>1 DEF YieldEvent
    <3>2. received[n] = log[n] /\ log[n] \in Event
      BY <2>0, <3>1, ElementOfSeq
    <3>3. bridge' = ~IsTerminal(log[n])
      BY <2>1, <3>2 DEF YieldEvent, Cleanup
    <3>4. bridge' = (log[n] \notin {e \in Event : IsTerminal(e)})
      BY <3>2, <3>3
    <3>5. bridge /\ Len(yielded) < Len(log) /\ yielded' = Append(yielded, log[n])
          /\ log' = log
      BY <2>0, <2>1, <3>1, <3>2 DEF YieldEvent, daemonVars, bufferVars
    <3> QED  BY <3>4, <3>5 DEF Delivery!Next, Delivery!Yield
  <2>2. CASE YieldFailure
    BY <2>2 DEF YieldFailure, Cleanup, Delivery!Next, Delivery!Fail, daemonVars, bufferVars
  <2>3. CASE WorkerStops
    BY <2>3 DEF WorkerStops, Cleanup, Delivery!Next, Delivery!Stop, daemonVars, bufferVars
  <2>4. CASE Runtime
    <3>1. /\ log' \in Seq(Event) /\ Len(log) < Len(log')
          /\ \A i \in 1 .. Len(log) : log'[i] = log[i]
          /\ UNCHANGED <<yielded, bridge>>
      BY <2>4, EmissionsExtendLog DEF IInv
    <3>2. Len(log') \in Nat
      BY <3>1, LenProperties
    <3>3. \A i \in 1 .. Len(log) : log'[i] \in Event
      BY <2>0, <3>1, <3>2, ElementOfSeq
    <3>4. /\ SubSeq(log', 1, Len(log)) \in Seq(Event)
          /\ Len(SubSeq(log', 1, Len(log))) = Len(log)
          /\ \A i \in 1 .. Len(log) : SubSeq(log', 1, Len(log))[i] = log'[i]
      BY <2>0, <3>3, SubSeqProperties
    <3>5. log = SubSeq(log', 1, Len(log))
      BY <2>0, <3>1, <3>4, SeqEqual
    <3> QED  BY <3>1, <3>5 DEF Delivery!Next, Delivery!Emit
  <2>5. CASE DaemonStep
    BY <2>5 DEF DaemonStep, SettleArtifacts, Connect, HelloOk, EventAck, HelloErrorSuperseded,
                ProcessEnds, bufferVars, adapterVars, streamVars
  <2>6. CASE \E s \in Sockets : ServerStep(s)
    BY <2>6 DEF ServerStep, HelloBegins, HelloFinishes, FrameBeforeHello, RouteEvent,
                RouteUnowned, RouteLost, RouteArtifacts, daemonVars, bufferVars, adapterVars,
                streamVars
  <2>7. CASE AckTick \/ GraceExpires
    BY <2>7 DEF AckTick, GraceExpires, daemonVars, bufferVars, streamVars
  <2>8. CASE \/ ProcessStops \/ DaemonSocketClosed
             \/ \E s \in Sockets : HelloFails(s) \/ ServerSocketClosed(s)
    BY <2>8 DEF ProcessStops, ProcessEnds, DaemonSocketClosed, HelloFails, ServerSocketClosed,
                daemonVars, bufferVars, adapterVars, streamVars
  <2>9. CASE UNCHANGED vars
    BY <2>9 DEF vars, daemonVars, bufferVars, adapterVars, streamVars
  <2> QED
    BY <2>1, <2>2, <2>3, <2>4, <2>5, <2>6, <2>7, <2>8, <2>9 DEF Next, Adapter, Environment
<1> QED  BY <1>1, <1>2, Invariance, PTL DEF Spec, DeliversInOrder, Delivery!Spec
=============================================================================
