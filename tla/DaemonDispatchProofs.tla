------------------------- MODULE DaemonDispatchProofs -------------------------
(***************************************************************************)
(* Proofs about DaemonDispatch: its types, the machine's cap, that the     *)
(* worker tells its user only what happened there, and that a stream which *)
(* is read over a connection will end, for any number of dispatches, any   *)
(* cap and any number of lost connections and restarts.                    *)
(***************************************************************************)
EXTENDS DaemonDispatch, SequenceTheorems, FiniteSetTheorems, TLAPS

(***************************************************************************)
(* Frames                                                                  *)
(***************************************************************************)
DaemonFrame ==
  [type : {"dispatch", "cancel", "ack"}, dispatch : Dispatches]
  \cup [type : {"hello_ok"}, resume : SUBSET Dispatches, cancel : SUBSET Dispatches]

ServerFrame ==
  [type : {"accepted", "rejected", "lost"}, dispatch : Dispatches]
  \cup [type : {"ended"}, dispatch : Dispatches, how : {"completed", "failed"}]

\* Each dispatch frame is in the sequence once.
Once(s) == \A i, j \in 1..Len(s) : s[i] = s[j] /\ s[i].type = "dispatch" => i = j

LEMMA Elements ==
  /\ \A s \in Seq(DaemonFrame) : ToSet(s) = {s[i] : i \in 1..Len(s)} /\ ToSet(s) \subseteq DaemonFrame
  /\ \A s \in Seq(ServerFrame) : ToSet(s) = {s[i] : i \in 1..Len(s)} /\ ToSet(s) \subseteq ServerFrame
BY LenProperties DEF ToSet

LEMMA HeadAndTail ==
  ASSUME NEW S, NEW s \in Seq(S), s # <<>>
  PROVE  /\ Head(s) \in ToSet(s) /\ Head(s) \in S
         /\ Tail(s) \in Seq(S)
         /\ ToSet(Tail(s)) \subseteq ToSet(s)
         /\ Len(Tail(s)) = Len(s) - 1
         /\ \A i \in 1..Len(s) - 1 : Tail(s)[i] = s[i + 1]
<1>1. Len(s) \in Nat \ {0} /\ DOMAIN s = 1..Len(s) /\ Head(s) = s[1]
  BY EmptySeq, LenProperties
<1>2. /\ Tail(s) \in Seq(S) /\ Len(Tail(s)) = Len(s) - 1
      /\ \A i \in 1..Len(s) - 1 : Tail(s)[i] = s[i + 1]
  BY HeadTailProperties
<1>3. DOMAIN Tail(s) = 1..Len(s) - 1
  BY <1>2, LenProperties
<1>4. ToSet(Tail(s)) \subseteq ToSet(s)
  BY <1>1, <1>2, <1>3 DEF ToSet
<1> QED  BY <1>1, <1>2, <1>4, ElementOfSeq DEF ToSet

LEMMA Concat ==
  ASSUME NEW S, NEW s \in Seq(S), NEW t \in Seq(S)
  PROVE  s \o t \in Seq(S) /\ ToSet(s \o t) = ToSet(s) \cup ToSet(t)
<1>1. /\ s \o t \in Seq(S) /\ Len(s \o t) = Len(s) + Len(t)
      /\ \A i \in 1..Len(s) + Len(t) :
           (s \o t)[i] = IF i <= Len(s) THEN s[i] ELSE t[i - Len(s)]
  BY ConcatProperties
<1>2. /\ Len(s) \in Nat /\ Len(t) \in Nat
      /\ DOMAIN s = 1..Len(s) /\ DOMAIN t = 1..Len(t)
      /\ DOMAIN (s \o t) = 1..Len(s) + Len(t)
  BY <1>1, LenProperties
<1>3. ToSet(s \o t) \subseteq ToSet(s) \cup ToSet(t)
  <2> SUFFICES ASSUME NEW i \in 1..Len(s) + Len(t)
               PROVE  (s \o t)[i] \in ToSet(s) \cup ToSet(t)
    BY <1>2 DEF ToSet
  <2>1. CASE i <= Len(s)
    BY <2>1, <1>1, <1>2 DEF ToSet
  <2>2. CASE ~(i <= Len(s))
    <3>1. i - Len(s) \in 1..Len(t)
      BY <2>2, <1>2
    <3> QED  BY <3>1, <2>2, <1>1, <1>2 DEF ToSet
  <2> QED  BY <2>1, <2>2
<1>4. ToSet(s) \subseteq ToSet(s \o t)
  <2> SUFFICES ASSUME NEW i \in 1..Len(s)
               PROVE  s[i] \in ToSet(s \o t)
    BY <1>2 DEF ToSet
  <2> QED  BY <1>1, <1>2 DEF ToSet
<1>5. ToSet(t) \subseteq ToSet(s \o t)
  <2> SUFFICES ASSUME NEW i \in 1..Len(t)
               PROVE  t[i] \in ToSet(s \o t)
    BY <1>2 DEF ToSet
  <2>1. Len(s) + i \in 1..Len(s) + Len(t) /\ ~(Len(s) + i <= Len(s)) /\ (Len(s) + i) - Len(s) = i
    BY <1>2
  <2> QED  BY <2>1, <1>1, <1>2 DEF ToSet
<1> QED  BY <1>1, <1>3, <1>4, <1>5

LEMMA Singleton ==
  ASSUME NEW S, NEW x \in S
  PROVE  <<x>> \in Seq(S) /\ ToSet(<<x>>) = {x} /\ Once(<<x>>)
BY DEF ToSet, Once

LEMMA ConcatOne ==
  ASSUME NEW S, NEW s \in Seq(S), NEW x \in S
  PROVE  s \o <<x>> \in Seq(S) /\ ToSet(s \o <<x>>) = ToSet(s) \cup {x}
<1> DEFINE t == <<x>>
<1>1. t \in Seq(S) /\ ToSet(t) = {x}
  BY Singleton
<1> HIDE DEF t
<1>2. s \o t \in Seq(S) /\ ToSet(s \o t) = ToSet(s) \cup {x}
  BY <1>1, Concat
<1> QED  BY <1>2 DEF t

LEMMA Empty ==
  ASSUME NEW S
  PROVE  <<>> \in Seq(S) /\ ToSet(<<>>) = {} /\ Once(<<>>)
BY DEF ToSet, Once

LEMMA SetAsSeq ==
  ASSUME NEW S, IsFiniteSet(S)
  PROVE  SetToSeq(S) \in Seq(S) /\ ToSet(SetToSeq(S)) = S
<1> DEFINE n == Cardinality(S)
           s == SetToSeq(S)
<1>1. n \in Nat /\ ExistsBijection(1..n, S)
  BY FS_CardinalityType
<1>2. \E f \in [1..n -> S] : IsInjective(f)
  BY <1>1 DEF ExistsBijection, Bijection, Injection
<1>3. s \in [1..n -> S] /\ IsInjective(s)
  BY <1>2 DEF SetToSeq
<1>4. Cardinality(1..n) = n
  BY <1>1, FS_Interval
<1> HIDE DEF s
<1>5. s \in Injection(1..n, S)
  BY <1>3 DEF Injection
<1>6. s \in Surjection(1..n, S)
  BY <1>4, <1>5, FS_Injection
<1>7. ToSet(s) = S
  BY <1>3, <1>6 DEF ToSet, Surjection
<1> QED  BY <1>1, <1>3, <1>7 DEF s

LEMMA OnceTail ==
  ASSUME NEW s \in Seq(DaemonFrame), s # <<>>, Once(s)
  PROVE  Once(Tail(s)) /\ (Head(s).type = "dispatch" => Head(s) \notin ToSet(Tail(s)))
<1>1. /\ Tail(s) \in Seq(DaemonFrame) /\ Len(Tail(s)) = Len(s) - 1
      /\ \A i \in 1..Len(s) - 1 : Tail(s)[i] = s[i + 1]
  BY HeadAndTail
<1>2. Len(s) \in Nat \ {0} /\ Head(s) = s[1]
  BY EmptySeq, LenProperties
<1>3. Once(Tail(s))
  <2> SUFFICES ASSUME NEW i \in 1..Len(s) - 1, NEW j \in 1..Len(s) - 1,
                      s[i + 1] = s[j + 1], s[i + 1].type = "dispatch"
               PROVE  i = j
    BY <1>1 DEF Once
  <2>1. i + 1 \in 1..Len(s) /\ j + 1 \in 1..Len(s)
    BY <1>2
  <2>2. i + 1 = j + 1
    BY <2>1 DEF Once
  <2> QED  BY <1>2, <2>2
<1>4. ASSUME Head(s).type = "dispatch", NEW i \in 1..Len(s) - 1
      PROVE  Tail(s)[i] # Head(s)
  <2>1. i + 1 \in 1..Len(s) /\ 1 \in 1..Len(s) /\ i + 1 # 1
    BY <1>2
  <2>2. s[i + 1] # s[1]
    BY <2>1, <1>2, <1>4 DEF Once
  <2> QED  BY <2>2, <1>1, <1>2
<1>5. DOMAIN Tail(s) = 1..Len(s) - 1
  BY <1>1, LenProperties
<1> QED  BY <1>3, <1>4, <1>5 DEF ToSet

LEMMA OnceAppend ==
  ASSUME NEW s \in Seq(DaemonFrame), Once(s), NEW f \in DaemonFrame,
         f.type = "dispatch" => f \notin ToSet(s)
  PROVE  Once(s \o <<f>>) /\ Append(s, f) = s \o <<f>>
<1>1. /\ Append(s, f) = s \o <<f>>
      /\ Len(Append(s, f)) = Len(s) + 1 /\ Append(s, f)[Len(s) + 1] = f
      /\ \A i \in 1..Len(s) : Append(s, f)[i] = s[i]
      /\ Len(s) \in Nat /\ DOMAIN s = 1..Len(s)
  BY AppendProperties, AppendIsConcat, LenProperties
<1>2. ASSUME NEW i \in 1..Len(s) + 1, NEW j \in 1..Len(s) + 1, i # j,
             Append(s, f)[i] = Append(s, f)[j], Append(s, f)[i].type = "dispatch"
      PROVE  FALSE
  <2>1. CASE i \in 1..Len(s) /\ j \in 1..Len(s)
    BY <2>1, <1>1, <1>2 DEF Once
  <2>2. CASE i = Len(s) + 1 /\ j \in 1..Len(s)
    BY <2>2, <1>1, <1>2 DEF ToSet
  <2>3. CASE i \in 1..Len(s) /\ j = Len(s) + 1
    BY <2>3, <1>1, <1>2 DEF ToSet
  <2> QED  BY <2>1, <2>2, <2>3, <1>1, <1>2
<1> QED  BY <1>1, <1>2 DEF Once

LEMMA Frames ==
  /\ \A d \in Dispatches :
       /\ \A t \in {"dispatch", "cancel", "ack"} : Frame(t, d) \in DaemonFrame
       /\ \A t \in {"accepted", "rejected", "lost"} : Frame(t, d) \in ServerFrame
       /\ \A how \in {"completed", "failed"} : Ended(d, how) \in ServerFrame
  /\ \A R, C \in SUBSET Dispatches : HelloOk(R, C) \in DaemonFrame
BY DEF Frame, Ended, HelloOk, DaemonFrame, ServerFrame

LEMMA FrameFields ==
  /\ \A f \in DaemonFrame :
       /\ f.type \in {"dispatch", "cancel", "ack"} =>
            f.dispatch \in Dispatches /\ f = Frame(f.type, f.dispatch)
       /\ f.type = "hello_ok" => f.resume \subseteq Dispatches /\ f.cancel \subseteq Dispatches
  /\ \A f \in ServerFrame :
       /\ f.dispatch \in Dispatches
       /\ f.type = "ended" => f.how \in {"completed", "failed"}
BY DEF Frame, DaemonFrame, ServerFrame

(***************************************************************************)
(* The inductive invariant                                                 *)
(***************************************************************************)
WorkerOK ==
  /\ adapter \in [Dispatches -> {"idle", "registered", "sent", "streaming", "over"}]
  /\ outcome \in [Dispatches -> {"none", "completed", "failed", "rejected", "lost"}]
  /\ doomed \subseteq {d \in Dispatches : adapter[d] \in {"registered", "sent"}}
  /\ abandoned \subseteq Sent
  /\ cancelling \subseteq Dispatches /\ misled \subseteq Dispatches

WireOK ==
  /\ link \in {"down", "hello", "up"} /\ hello \subseteq Dispatches
  /\ link # "hello" => hello = {}
  /\ link # "up" => toDaemon = <<>> /\ toServer = <<>>
  /\ toDaemon \in Seq(DaemonFrame) /\ toServer \in Seq(ServerFrame)

DaemonOK ==
  /\ active \subseteq Dispatches
  /\ refusing \subseteq {d \in Dispatches : runtime[d] = "preparing"}
  /\ unacked \subseteq {d \in Dispatches : runtime[d] \in {"completed", "failed"}}
  /\ runtime \in [Dispatches ->
       {"none", "preparing", "starting", "running", "stopping", "completed", "failed"}]
  /\ faults \in 0..MaxFaults

\* A dispatch that may still reach the daemon for the first time.
Unsent == {d \in Dispatches : adapter[d] \in {"idle", "registered"}}
Underway == {d \in Dispatches : Frame("dispatch", d) \in ToSet(toDaemon)}
Fresh == Unsent \cup Underway

\* Of such a dispatch nobody has anything.
FreshInv ==
  /\ Unsent \cap Underway = {} /\ Once(toDaemon)
  /\ \A d \in Fresh : runtime[d] = "none" /\ d \notin active \cup unacked \cup hello
  /\ \A f \in ToSet(toServer) : f.dispatch \notin Fresh
  /\ \A f \in ToSet(toDaemon) : f.type = "hello_ok" => f.resume \cap Fresh = {}

\* The daemon holds what lives or waits for an ack, and announces all of it.
ActiveInv ==
  /\ active \subseteq Live \cup unacked
  /\ link = "hello" => active \subseteq hello

\* What is on its way to the worker is true and stays true.
NewsInv ==
  \A f \in ToSet(toServer) :
    /\ f.type = "rejected" => runtime[f.dispatch] = "none"
    /\ f.type = "ended" => runtime[f.dispatch] = f.how
    /\ f.type = "lost" => f.dispatch \notin active

ToldInv ==
  /\ ToldTheTruth
  /\ \A d \in Dispatches : outcome[d] \in {"completed", "rejected", "lost"} => d \notin Fresh

TypeInv == WorkerOK /\ WireOK /\ DaemonOK
IInv == TypeInv /\ FreshInv /\ ActiveInv /\ NewsInv /\ ToldInv /\ WithinCap

LEMMA Initially == Init => IInv
<1> SUFFICES ASSUME Init PROVE IInv
  OBVIOUS
<1>1. TypeInv
  BY DaemonDispatchAssumption DEF Init, TypeInv, WorkerOK, WireOK, DaemonOK
<1>2. Once(toDaemon) /\ ToSet(toDaemon) = {} /\ ToSet(toServer) = {}
  BY Empty DEF Init
<1>3. FreshInv /\ ActiveInv /\ NewsInv /\ ToldInv
  BY <1>2 DEF Init, FreshInv, Unsent, Underway, Fresh, ActiveInv, NewsInv, ToldInv, ToldTheTruth
<1>4. WithinCap
  BY DaemonDispatchAssumption, FS_EmptySet DEF Init, WithinCap
<1> QED  BY <1>1, <1>3, <1>4 DEF IInv

(***************************************************************************)
(* The worker's streams                                                    *)
(***************************************************************************)
LEMMA Finishes ==
  ASSUME WorkerOK, NEW d \in Dispatches, NEW how \in {"completed", "failed", "rejected", "lost"},
         Finish(d, how)
  PROVE  /\ WorkerOK' /\ Unsent' \subseteq Unsent /\ misled \subseteq misled'
         /\ \A e \in Dispatches : outcome'[e] = outcome[e] \/ (e = d /\ outcome'[e] = how)
<1>1. adapter' = [adapter EXCEPT ![d] = "over"]
  BY DEF Finish
<1>2. WorkerOK' /\ misled \subseteq misled'
  BY DEF WorkerOK, Finish, Registered, Sent
<1> DEFINE told == IF outcome[d] = "none" THEN how ELSE outcome[d]
<1>3. outcome' = [outcome EXCEPT ![d] = told]
  BY DEF Finish
<1>6. told = how \/ told = outcome[d]
  OBVIOUS
<1> HIDE DEF told
<1>4. Unsent' \subseteq Unsent
  BY <1>1 DEF WorkerOK, Unsent
<1>5. \A e \in Dispatches : outcome'[e] = outcome[e] \/ (e = d /\ outcome'[e] = how)
  BY <1>3, <1>6 DEF WorkerOK
<1> QED  BY <1>2, <1>4, <1>5

LEMMA StreamsFail ==
  ASSUME WorkerOK, NEW ds \in SUBSET Registered, NEW why \in {"failed", "lost"},
         FailStreams(ds, why)
  PROVE  /\ WorkerOK' /\ Unsent' \subseteq Unsent /\ misled \subseteq misled'
         /\ \A e \in Dispatches :
              \/ outcome'[e] = outcome[e]
              \/ e \in ds /\ adapter[e] = "streaming" /\ outcome'[e] = why
<1> DEFINE read == {d \in ds : adapter[d] = "streaming"}
<1>1. /\ adapter' = [d \in Dispatches |-> IF d \in read THEN "over" ELSE adapter[d]]
      /\ outcome' = [d \in Dispatches |->
                       IF d \in read /\ outcome[d] = "none" THEN why ELSE outcome[d]]
      /\ doomed' = doomed \cup (ds \ read)
      /\ misled' = IF why = "lost" THEN misled \cup (ds \ (read \cup doomed)) ELSE misled
      /\ abandoned' = abandoned \ read
      /\ UNCHANGED cancelling
  BY DEF FailStreams
<1>2. doomed' \subseteq {d \in Dispatches : adapter'[d] \in {"registered", "sent"}}
  BY <1>1 DEF WorkerOK, Registered
<1>3. abandoned' \subseteq Sent'
  BY <1>1 DEF WorkerOK, Sent
<1>4. misled \subseteq misled' /\ misled' \subseteq Dispatches
  BY <1>1 DEF WorkerOK, Registered
<1> QED  BY <1>1, <1>2, <1>3, <1>4 DEF WorkerOK, Unsent

LEMMA Advances ==
  ASSUME WorkerOK, NEW d \in Dispatches, NEW step \in {"registered", "sent", "streaming"},
         Advance(d, step), adapter[d] = "idle" \/ step # "registered",
         d \in doomed => step # "streaming"
  PROVE  /\ WorkerOK' /\ UNCHANGED <<outcome, misled>>
         /\ Unsent' = IF step = "registered" THEN Unsent ELSE Unsent \ {d}
<1>1. adapter' = [adapter EXCEPT ![d] = step] /\ UNCHANGED <<outcome, doomed, misled, cancelling, abandoned>>
  BY DEF Advance
<1> QED  BY <1>1 DEF WorkerOK, Sent, Unsent

(***************************************************************************)
(* What a step does to the worker                                          *)
(***************************************************************************)
LEMMA Received ==
  ASSUME WireOK, NEW type, Receive(type)
  PROVE  /\ link = "up" /\ Head(toServer) \in ServerFrame /\ Head(toServer) \in ToSet(toServer)
         /\ Head(toServer).dispatch \in Dispatches /\ Head(toServer).type = type
         /\ type = "ended" => Head(toServer).how \in {"completed", "failed"}
         /\ toServer' \in Seq(ServerFrame) /\ ToSet(toServer') \subseteq ToSet(toServer)
         /\ UNCHANGED <<link, hello, daemon, faults>>
<1>1. toServer # <<>> /\ toServer' = Tail(toServer) /\ Head(toServer).type = type
      /\ UNCHANGED <<link, hello, daemon, faults>>
  BY DEF Receive
<1>2. /\ Head(toServer) \in ServerFrame /\ Head(toServer) \in ToSet(toServer)
      /\ toServer' \in Seq(ServerFrame) /\ ToSet(toServer') \subseteq ToSet(toServer)
  BY <1>1, HeadAndTail DEF WireOK
<1> QED  BY <1>1, <1>2, FrameFields DEF WireOK

\* What the worker may be told by: a frame, a hello without the dispatch, or what
\* its stream held when the dispatch was accepted.
NewsOf(d) ==
  \E f \in ToSet(toServer) :
    /\ f.dispatch = d
    /\ \/ f.type = "rejected" /\ outcome'[d] = "rejected"
       \/ f.type = "lost" /\ outcome'[d] = "lost"
       \/ f.type = "ended" /\ outcome'[d] = f.how
       \/ f.type = "accepted" /\ outcome'[d] = "lost" /\ d \in misled

Tells(d) ==
  \/ outcome'[d] = outcome[d] \/ outcome'[d] = "failed"
  \/ NewsOf(d)
  \/ link = "hello" /\ d \notin hello /\ adapter[d] = "streaming" /\ outcome'[d] = "lost"

WorkerMoves ==
  /\ WorkerOK' /\ Unsent' \subseteq Unsent /\ misled \subseteq misled'
  /\ \A d \in Dispatches : Tells(d)

LEMMA WorkerStep ==
  ASSUME TypeInv, [Next]_vars
  PROVE  WorkerMoves
<1> USE DEF TypeInv
<1>1. ASSUME UNCHANGED worker PROVE WorkerMoves
  BY <1>1 DEF worker, WorkerMoves, WorkerOK, Unsent, Registered, Sent, Tells
<1>2. ASSUME NEW d \in Dispatches, Execute(d) PROVE WorkerMoves
  <2>1. CASE Finish(d, "failed")
    BY <2>1, Finishes DEF WorkerMoves, Tells
  <2>2. CASE Advance(d, "registered")
    BY <2>2, <1>2, Advances DEF Execute, WorkerMoves, Tells
  <2> QED  BY <1>2, <2>1, <2>2 DEF Execute
<1>3. ASSUME NEW d \in Dispatches, Dispatch(d) PROVE WorkerMoves
  <2>1. CASE Finish(d, "failed")
    BY <2>1, Finishes DEF WorkerMoves, Tells
  <2>2. CASE Advance(d, "sent")
    BY <2>2, Advances DEF WorkerMoves, Tells
  <2> QED  BY <1>3, <2>1, <2>2 DEF Dispatch
<1>4. ASSUME NEW d \in Dispatches, AcceptTimesOut(d) PROVE WorkerMoves
  BY <1>4, Finishes DEF AcceptTimesOut, WorkerMoves, Tells
<1>5. ASSUME NEW d \in Dispatches, GraceExpires(d) PROVE WorkerMoves
  <2>1. {d} \in SUBSET Registered /\ FailStreams({d}, "failed")
    BY <1>5 DEF GraceExpires
  <2> QED  BY <2>1, StreamsFail DEF WorkerMoves, Tells
<1>6. ASSUME NEW d \in Dispatches, WatchdogCancels(d) PROVE WorkerMoves
  <2>1. UNCHANGED <<adapter, doomed, misled>> /\ cancelling' \subseteq Dispatches
        /\ abandoned' \subseteq Sent
    BY <1>6 DEF WatchdogCancels, WorkerOK
  <2>2. outcome' = outcome \/ outcome' = [outcome EXCEPT ![d] = "failed"]
    BY <1>6 DEF WatchdogCancels
  <2> QED  BY <2>1, <2>2 DEF WorkerMoves, Tells, WorkerOK, Unsent, Sent
<1>7. ASSUME ReceiveAccepted PROVE WorkerMoves
  <2> DEFINE d == Head(toServer).dispatch
  <2>1. d \in Dispatches /\ Head(toServer) \in ToSet(toServer) /\ Head(toServer).type = "accepted"
    BY <1>7, Received DEF ReceiveAccepted
  <2>2. CASE Finish(d, "failed")
    BY <2>1, <2>2, Finishes DEF WorkerMoves, Tells
  <2>3. CASE adapter[d] = "sent" /\ d \notin doomed /\ Advance(d, "streaming")
    BY <2>1, <2>3, Advances DEF WorkerMoves, Tells
  <2>4. CASE d \in misled /\ Finish(d, "lost")
    BY <2>1, <2>4, Finishes DEF WorkerMoves, Tells, NewsOf
  <2> QED  BY <1>1, <1>7, <2>2, <2>3, <2>4 DEF ReceiveAccepted
<1>8. ASSUME ReceiveRejected PROVE WorkerMoves
  <2> DEFINE f == Head(toServer)
  <2>1. f.dispatch \in Dispatches /\ f \in ToSet(toServer) /\ f.type = "rejected"
    BY <1>8, Received DEF ReceiveRejected
  <2>2. CASE Finish(f.dispatch, "rejected")
    BY <2>1, <2>2, Finishes DEF WorkerMoves, Tells, NewsOf
  <2> QED  BY <1>1, <1>8, <2>2 DEF ReceiveRejected
<1>9. ASSUME ReceiveEnded PROVE WorkerMoves
  <2> DEFINE f == Head(toServer)
  <2>1. /\ f.dispatch \in Dispatches /\ f \in ToSet(toServer) /\ f.type = "ended"
        /\ f.how \in {"completed", "failed"}
    BY <1>9, Received DEF ReceiveEnded
  <2>2. CASE Finish(f.dispatch, f.how)
    BY <2>1, <2>2, Finishes DEF WorkerMoves, Tells, NewsOf
  <2> QED  BY <1>1, <1>9, <2>2 DEF ReceiveEnded
<1>10. ASSUME ReceiveLost PROVE WorkerMoves
  <2> DEFINE f == Head(toServer)
  <2>1. f.dispatch \in Dispatches /\ f \in ToSet(toServer) /\ f.type = "lost"
    BY <1>10, Received DEF ReceiveLost
  <2>2. CASE f.dispatch \in Registered /\ FailStreams({f.dispatch}, "lost")
    <3>1. {f.dispatch} \in SUBSET Registered
      BY <2>2
    <3> QED  BY <2>1, <2>2, <3>1, StreamsFail DEF WorkerMoves, Tells, NewsOf
  <2> QED  BY <1>1, <1>10, <2>2 DEF ReceiveLost
<1>11. ASSUME HandleHello PROVE WorkerMoves
  <2>1. link = "hello" /\ Missing \in SUBSET Registered /\ FailStreams(Missing, "lost")
    BY <1>11 DEF HandleHello, Missing
  <2> QED  BY <2>1, StreamsFail DEF WorkerMoves, Tells, Missing
<1>12. ASSUME WorkerRestarts PROVE WorkerMoves
  <2>1. /\ adapter' = [d \in Dispatches |-> IF d \in Registered THEN "over" ELSE adapter[d]]
        /\ outcome' = [d \in Dispatches |->
                         IF d \in Registered /\ outcome[d] = "none" THEN "failed" ELSE outcome[d]]
        /\ doomed' = {} /\ abandoned' = {} /\ UNCHANGED <<misled, cancelling>>
    BY <1>12 DEF WorkerRestarts
  <2> QED  BY <2>1 DEF WorkerMoves, Tells, WorkerOK, Unsent
<1> QED
  BY <1>1, <1>2, <1>3, <1>4, <1>5, <1>6, <1>7, <1>8, <1>9, <1>10, <1>11, <1>12
  DEF Next, vars, WorkerReceives, WorkerTimers, DaemonReceives, DaemonWorks,
      WatchdogForces, End, HandleDispatch, HandleCancel, HandleAck, HandleHelloOk, Take,
      Refuse, Accept, Start, Connect, Drop, DaemonRestarts

(***************************************************************************)
(* What a step does to the wire                                            *)
(***************************************************************************)
WireMoves ==
  /\ WireOK' /\ Once(toDaemon')
  /\ Underway' \subseteq Underway \cup Unsent
  /\ Unsent' \cap Underway' = {}

\* Frames that are no dispatch are appended, read or dropped.
LEMMA NoDispatchSent ==
  ASSUME TypeInv, FreshInv, WireOK', Unsent' \subseteq Unsent,
         \/ toDaemon' = toDaemon
         \/ toDaemon' = <<>>
         \/ toDaemon # <<>> /\ toDaemon' = Tail(toDaemon)
         \/ \E f \in DaemonFrame : f.type # "dispatch" /\ toDaemon' = toDaemon \o <<f>>
         \/ \E f \in DaemonFrame : f.type # "dispatch" /\ toDaemon' = <<f>>
  PROVE  WireMoves
<1>1. toDaemon \in Seq(DaemonFrame) /\ Once(toDaemon)
  BY DEF TypeInv, WireOK, FreshInv
<1>2. \A d \in Dispatches : Frame("dispatch", d).type = "dispatch"
  BY DEF Frame
<1>3. SUFFICES Once(toDaemon') /\ Underway' \subseteq Underway
  BY DEF WireMoves, FreshInv
<1>4. CASE toDaemon' = toDaemon
  BY <1>1, <1>4 DEF Underway
<1>5. CASE toDaemon' = <<>>
  BY <1>5, Empty DEF Underway
<1>6. CASE toDaemon # <<>> /\ toDaemon' = Tail(toDaemon)
  BY <1>1, <1>6, OnceTail, HeadAndTail DEF Underway
<1>7. CASE \E f \in DaemonFrame : f.type # "dispatch" /\ toDaemon' = toDaemon \o <<f>>
  <2>1. PICK f \in DaemonFrame : f.type # "dispatch" /\ toDaemon' = toDaemon \o <<f>>
    BY <1>7
  <2>2. Once(toDaemon')
    BY <1>1, <2>1, OnceAppend
  <2>3. ToSet(toDaemon') = ToSet(toDaemon) \cup {f}
    BY <1>1, <2>1, ConcatOne
  <2> QED  BY <1>2, <2>1, <2>2, <2>3 DEF Underway
<1>8. CASE \E f \in DaemonFrame : f.type # "dispatch" /\ toDaemon' = <<f>>
  <2>1. PICK f \in DaemonFrame : f.type # "dispatch" /\ toDaemon' = <<f>>
    BY <1>8
  <2> QED  BY <1>2, <2>1, Singleton DEF Underway
<1> QED  BY <1>4, <1>5, <1>6, <1>7, <1>8

LEMMA Disconnects ==
  ASSUME Disconnect
  PROVE  WireOK' /\ toDaemon' = <<>> /\ toServer' = <<>> /\ hello' = {} /\ link' = "down"
BY Empty DEF Disconnect, WireOK

LEMMA SendsToDaemon ==
  ASSUME WireOK, link = "up", NEW f \in DaemonFrame, SendToDaemon(<<f>>)
  PROVE  WireOK' /\ toDaemon' = toDaemon \o <<f>> /\ UNCHANGED <<link, hello, toServer>>
<1>1. toDaemon' = toDaemon \o <<f>> /\ UNCHANGED <<link, hello, toServer>>
  BY DEF SendToDaemon
<1>2. toDaemon' \in Seq(DaemonFrame)
  BY <1>1, ConcatOne DEF WireOK
<1> QED  BY <1>1, <1>2 DEF WireOK

LEMMA SendsToServer ==
  ASSUME WireOK, NEW f \in ServerFrame, SendToServer(<<f>>)
  PROVE  /\ WireOK'
         /\ toDaemon' = toDaemon \/ toDaemon' = <<>>
         /\ ToSet(toServer') \subseteq ToSet(toServer) \cup {f}
         /\ hello' \subseteq hello
         /\ link' = "hello" => link = "hello" /\ hello' = hello
<1>1. CASE link = "up"
  <2>1. toServer' = toServer \o <<f>> /\ UNCHANGED <<link, hello, toDaemon>>
    BY <1>1 DEF SendToServer
  <2>2. toServer' \in Seq(ServerFrame) /\ ToSet(toServer') = ToSet(toServer) \cup {f}
    BY <2>1, ConcatOne DEF WireOK
  <2> QED  BY <1>1, <2>1, <2>2 DEF WireOK
<1>2. CASE link = "hello" /\ Disconnect
  BY <1>2, Disconnects, Empty
<1>3. CASE UNCHANGED wire
  BY <1>3 DEF wire, WireOK
<1>4. <<f>> # <<>>
  OBVIOUS
<1> QED  BY <1>1, <1>2, <1>3, <1>4 DEF SendToServer

LEMMA Replies ==
  ASSUME WireOK, NEW type, Take(type), NEW frames \in Seq(ServerFrame), Reply(frames)
  PROVE  /\ WireOK' /\ toDaemon # <<>> /\ toDaemon' = Tail(toDaemon) /\ link = "up"
         /\ Head(toDaemon) \in DaemonFrame /\ Head(toDaemon) \in ToSet(toDaemon)
         /\ Head(toDaemon).type = type
         /\ toServer' \in Seq(ServerFrame)
         /\ ToSet(toServer') = ToSet(toServer) \cup ToSet(frames)
         /\ UNCHANGED <<link, hello, worker, faults>>
<1>1. /\ toDaemon # <<>> /\ toDaemon' = Tail(toDaemon) /\ Head(toDaemon).type = type
      /\ toServer' = toServer \o frames /\ UNCHANGED <<link, hello, worker, faults>>
  BY DEF Take, Reply
<1>2. toServer' \in Seq(ServerFrame) /\ ToSet(toServer') = ToSet(toServer) \cup ToSet(frames)
  BY <1>1, Concat DEF WireOK
<1>3. /\ Tail(toDaemon) \in Seq(DaemonFrame)
      /\ Head(toDaemon) \in DaemonFrame /\ Head(toDaemon) \in ToSet(toDaemon)
  BY <1>1, HeadAndTail DEF WireOK
<1> QED  BY <1>1, <1>2, <1>3 DEF WireOK

\* What onHelloOk sends: the loss of what the daemon does not hold, and the
\* terminal events it still buffers.
LEMMA HelloFrames ==
  ASSUME TypeInv, HandleHelloOk
  PROVE  LET resume == Head(toDaemon).resume
             frames == ReportLost(resume)
                       \o SetToSeq({Ended(d, runtime[d]) : d \in resume \cap active \cap unacked})
         IN /\ Take("hello_ok") /\ Reply(frames) /\ resume \subseteq Dispatches
            /\ frames \in Seq(ServerFrame)
            /\ \A f \in ToSet(frames) :
                 \/ \E d \in resume \ RunningDispatchIds : f = Frame("lost", d)
                 \/ \E d \in resume \cap unacked : f = Ended(d, runtime[d])
            /\ \A d \in resume \ RunningDispatchIds : Frame("lost", d) \in ToSet(frames)
            /\ \A d \in resume \cap active \cap unacked : Ended(d, runtime[d]) \in ToSet(frames)
<1> DEFINE resume == Head(toDaemon).resume
           lost == {Frame("lost", d) : d \in resume \ RunningDispatchIds}
           ended == {Ended(d, runtime[d]) : d \in resume \cap active \cap unacked}
           s == SetToSeq(lost)
           t == SetToSeq(ended)
<1>1. Take("hello_ok") /\ Reply(s \o t)
  BY DEF HandleHelloOk, ReportLost
<1>2. resume \subseteq Dispatches
  BY <1>1, HeadAndTail, FrameFields DEF Take, TypeInv, WireOK
<1>3. lost \subseteq ServerFrame
  BY <1>2, Frames
<1>4. ended \subseteq ServerFrame
  BY <1>2, Frames DEF TypeInv, DaemonOK
<1>5. IsFiniteSet(lost) /\ IsFiniteSet(ended)
  <2>1. IsFiniteSet(resume \ RunningDispatchIds) /\ IsFiniteSet(resume \cap active \cap unacked)
    BY <1>2, FS_Subset, DaemonDispatchAssumption
  <2> DEFINE f == [d \in resume \ RunningDispatchIds |-> Frame("lost", d)]
             g == [d \in resume \cap active \cap unacked |-> Ended(d, runtime[d])]
  <2>2. /\ f \in Surjection(resume \ RunningDispatchIds, lost)
        /\ g \in Surjection(resume \cap active \cap unacked, ended)
    BY DEF Surjection
  <2> HIDE DEF f, g, lost, ended, resume
  <2> QED  BY <2>1, <2>2, FS_Surjection
<1> HIDE DEF lost, ended
<1>6. /\ s \in Seq(lost) /\ ToSet(s) = lost
      /\ t \in Seq(ended) /\ ToSet(t) = ended
  BY <1>5, SetAsSeq
<1>7. s \in Seq(ServerFrame) /\ t \in Seq(ServerFrame)
  BY <1>3, <1>4, <1>6, SeqMonotonic
<1> HIDE DEF s, t
<1>8. s \o t \in Seq(ServerFrame) /\ ToSet(s \o t) = lost \cup ended
  BY <1>6, <1>7, Concat
<1> QED  BY <1>1, <1>2, <1>8 DEF s, t, lost, ended, ReportLost

LEMMA WireStep ==
  ASSUME TypeInv, FreshInv, WorkerMoves, [Next]_vars
  PROVE  WireMoves
<1> USE DEF TypeInv, WorkerMoves
<1>1. ASSUME UNCHANGED wire PROVE WireMoves
  <2>1. WireOK' /\ toDaemon' = toDaemon
    BY <1>1 DEF wire, WireOK
  <2> QED  BY <2>1, NoDispatchSent
<1>2. ASSUME Disconnect PROVE WireMoves
  BY <1>2, Disconnects, NoDispatchSent
<1>3. ASSUME NEW f \in ServerFrame, SendToServer(<<f>>) PROVE WireMoves
  BY <1>3, SendsToServer, NoDispatchSent
<1>4. ASSUME NEW type, Take(type), NEW frames \in Seq(ServerFrame), Reply(frames)
      PROVE  WireMoves
  <2>1. WireOK' /\ toDaemon # <<>> /\ toDaemon' = Tail(toDaemon)
    BY <1>4, Replies
  <2> QED  BY <2>1, NoDispatchSent
<1>5. ASSUME NEW type, Receive(type), UNCHANGED toDaemon PROVE WireMoves
  <2>1. WireOK' /\ toDaemon' = toDaemon
    BY <1>5, Received DEF WireOK
  <2> QED  BY <2>1, NoDispatchSent
<1>6. ASSUME ReceiveEnded PROVE WireMoves
  <2> DEFINE f == Frame("ack", Head(toServer).dispatch)
  <2>1. /\ Head(toServer).dispatch \in Dispatches /\ toServer' \in Seq(ServerFrame)
        /\ link = "up" /\ UNCHANGED <<link, hello>>
    BY <1>6, Received DEF ReceiveEnded
  <2>2. f \in DaemonFrame /\ f.type # "dispatch"
    BY <2>1, Frames DEF Frame
  <2>3. toDaemon' = Append(toDaemon, f)
    BY <1>6 DEF ReceiveEnded
  <2> HIDE DEF f
  <2>4. toDaemon' = toDaemon \o <<f>>
    BY <2>2, <2>3, OnceAppend DEF WireOK, FreshInv
  <2>5. WireOK'
    BY <2>1, <2>2, <2>4, ConcatOne DEF WireOK
  <2> QED  BY <2>2, <2>4, <2>5, NoDispatchSent
<1>7. ASSUME NEW d \in Dispatches, link = "up", SendToDaemon(<<Frame("cancel", d)>>)
      PROVE  WireMoves
  <2>1. Frame("cancel", d) \in DaemonFrame /\ Frame("cancel", d).type # "dispatch"
    BY Frames DEF Frame
  <2> QED  BY <1>7, <2>1, SendsToDaemon, NoDispatchSent
<1>8. ASSUME HandleHello PROVE WireMoves
  <2> DEFINE f == HelloOk(Registered \cap hello, Unowned(hello))
  <2>1. f \in DaemonFrame /\ f.type # "dispatch"
    BY Frames DEF HelloOk, Unowned, WireOK
  <2>2. /\ link = "hello" /\ link' = "up" /\ hello' = {} /\ toDaemon' = <<f>>
        /\ UNCHANGED toServer
    BY <1>8 DEF HandleHello
  <2> HIDE DEF f
  <2>3. WireOK'
    BY <2>1, <2>2, Singleton DEF WireOK
  <2> QED  BY <2>1, <2>2, <2>3, NoDispatchSent
<1>9. ASSUME Connect PROVE WireMoves
  <2>1. WireOK' /\ toDaemon' = toDaemon
    BY <1>9 DEF Connect, WireOK, DaemonOK, RunningDispatchIds
  <2> QED  BY <2>1, NoDispatchSent
<1>10. ASSUME NEW d \in Dispatches, Dispatch(d), link = "up" PROVE WireMoves
  <2> DEFINE f == Frame("dispatch", d)
  <2>1. f \in DaemonFrame /\ \A e \in Dispatches : Frame("dispatch", e) = f => e = d
    BY Frames DEF Frame
  <2>2. adapter[d] = "registered" /\ Advance(d, "sent") /\ SendToDaemon(<<f>>)
    BY <1>10 DEF Dispatch
  <2>3. d \in Unsent /\ f \notin ToSet(toDaemon)
    BY <2>2 DEF Unsent, Underway, FreshInv
  <2>4. Unsent' = Unsent \ {d}
    BY <2>2, Advances
  <2> HIDE DEF f
  <2>5. WireOK' /\ toDaemon' = toDaemon \o <<f>>
    BY <1>10, <2>1, <2>2, SendsToDaemon
  <2>6. Once(toDaemon')
    BY <2>1, <2>3, <2>5, OnceAppend DEF WireOK, FreshInv
  <2>7. ToSet(toDaemon') = ToSet(toDaemon) \cup {f}
    BY <2>1, <2>5, ConcatOne DEF WireOK
  <2>8. Underway' \subseteq Underway \cup {d}
    BY <2>1, <2>7 DEF Underway
  <2> QED  BY <2>3, <2>4, <2>5, <2>6, <2>8 DEF WireMoves, FreshInv
<1>11. ASSUME HandleDispatch PROVE WireMoves
  <2> DEFINE d == Head(toDaemon).dispatch
  <2>1. Take("dispatch") /\ (Reply(<<>>) \/ Reply(<<Frame("rejected", d)>>))
    BY <1>11 DEF HandleDispatch
  <2>2. d \in Dispatches
    BY <2>1, HeadAndTail, FrameFields DEF Take, WireOK
  <2>3. Frame("rejected", d) \in ServerFrame
    BY <2>2, Frames
  <2>4. <<>> \in Seq(ServerFrame) /\ <<Frame("rejected", d)>> \in Seq(ServerFrame)
    BY <2>3, Singleton, Empty
  <2> QED  BY <1>4, <2>1, <2>4
<1>12. ASSUME HandleCancel \/ HandleAck PROVE WireMoves
  <2>1. \E type \in {"cancel", "ack"} : Take(type) /\ Reply(<<>>)
    BY <1>12 DEF HandleCancel, HandleAck
  <2>2. <<>> \in Seq(ServerFrame)
    BY Empty
  <2> QED  BY <1>4, <2>1, <2>2
<1>13. ASSUME HandleHelloOk PROVE WireMoves
  <2> DEFINE frames == ReportLost(Head(toDaemon).resume)
                \o SetToSeq({Ended(d, runtime[d]) : d \in Head(toDaemon).resume \cap active \cap unacked})
  <2>1. Take("hello_ok") /\ Reply(frames)
    BY <1>13 DEF HandleHelloOk
  <2>2. frames \in Seq(ServerFrame)
    BY <1>13, HelloFrames
  <2> HIDE DEF frames
  <2> QED  BY <1>4, <2>1, <2>2
<1> QED
  <2>1. ASSUME NEW d \in Dispatches, WatchdogCancels(d) PROVE WireMoves
    BY <2>1, <1>1, <1>7 DEF WatchdogCancels, Sent
  <2>2. ASSUME NEW d \in Dispatches, Refuse(d) \/ Accept(d) PROVE WireMoves
    BY <2>2, <1>3, Frames DEF Refuse, Accept
  <2>3. ASSUME NEW d \in Dispatches, NEW how \in {"completed", "failed"}, End(d, how)
        PROVE  WireMoves
    BY <2>3, <1>3, Frames DEF End
  <2>4. ASSUME NEW d \in Dispatches, Dispatch(d) PROVE WireMoves
    BY <2>4, <1>1, <1>10 DEF Dispatch
  <2>5. ASSUME NEW d \in Dispatches, WatchdogForces(d) PROVE WireMoves
    BY <2>5, <1>7 DEF WatchdogForces
  <2>6. ASSUME WorkerReceives PROVE WireMoves
    BY <2>6, <1>5, <1>6 DEF WorkerReceives, ReceiveAccepted, ReceiveRejected, ReceiveLost
  <2>7. ASSUME NEW d \in Dispatches, Execute(d) \/ AcceptTimesOut(d) \/ GraceExpires(d) \/ Start(d)
        PROVE  WireMoves
    BY <2>7, <1>1 DEF Execute, AcceptTimesOut, GraceExpires, Start
  <2>8. ASSUME Drop \/ WorkerRestarts \/ DaemonRestarts PROVE WireMoves
    BY <2>8, <1>2 DEF Drop, WorkerRestarts, DaemonRestarts
  <2>9. ASSUME UNCHANGED vars PROVE WireMoves
    BY <2>9, <1>1 DEF vars
  <2> QED
    BY <1>8, <1>9, <1>11, <1>12, <1>13, <2>1, <2>2, <2>3, <2>4, <2>5, <2>6, <2>7, <2>8, <2>9
    DEF Next, WorkerTimers, DaemonReceives, DaemonWorks

(***************************************************************************)
(* What a step does to the daemon                                          *)
(***************************************************************************)
\* What was never dispatched or is over stays as it is.
Settled ==
  \A d \in Dispatches \ Fresh :
    /\ runtime[d] \in {"none", "completed", "failed"} => runtime'[d] = runtime[d]
    /\ d \notin active => d \notin active'

DaemonMoves ==
  /\ DaemonOK' /\ Settled
  /\ active' \subseteq Live' \cup unacked'
  /\ \A d \in Dispatches : runtime[d] = "none" /\ runtime'[d] # "none" =>
       HandleDispatch /\ Head(toDaemon).dispatch = d
  /\ \A d \in Dispatches : d \notin active \cup unacked /\ d \in active' \cup unacked' =>
       runtime'[d] # "none"

LEMMA CancelsRuntimes ==
  ASSUME DaemonOK, NEW ds \in SUBSET active, CancelRuntimes(ds), UNCHANGED faults,
         active' \subseteq active, unacked' \subseteq unacked,
         active' \cap unacked \subseteq unacked', active \subseteq Live \cup unacked
  PROVE  DaemonMoves
<1>1. /\ refusing' = refusing \cup {d \in ds : runtime[d] = "preparing"}
      /\ runtime' = [d \in Dispatches |->
                       IF d \in ds /\ runtime[d] = "running" THEN "stopping" ELSE runtime[d]]
  BY DEF CancelRuntimes
<1>2. DaemonOK' /\ Live' = Live
  BY <1>1 DEF DaemonOK, Live
<1> QED  BY <1>1, <1>2 DEF DaemonMoves, Settled, DaemonOK

LEMMA DaemonStep ==
  ASSUME TypeInv, FreshInv, ActiveInv, [Next]_vars
  PROVE  DaemonMoves
<1> USE DEF TypeInv
<1>1. active \subseteq Live \cup unacked
  BY DEF ActiveInv
<1>2. ASSUME UNCHANGED daemon, faults' \in 0..MaxFaults PROVE DaemonMoves
  BY <1>1, <1>2 DEF daemon, DaemonMoves, DaemonOK, Settled, Live
<1>3. ASSUME UNCHANGED <<daemon, faults>> PROVE DaemonMoves
  BY <1>2, <1>3 DEF DaemonOK
<1>4. ASSUME HandleDispatch PROVE DaemonMoves
  <2> DEFINE d == Head(toDaemon).dispatch
  <2>1. toDaemon # <<>> /\ Head(toDaemon).type = "dispatch" /\ UNCHANGED faults
    BY <1>4 DEF HandleDispatch, Take
  <2>2. Head(toDaemon) \in DaemonFrame /\ Head(toDaemon) \in ToSet(toDaemon)
    BY <2>1, HeadAndTail DEF WireOK
  <2>3. d \in Dispatches /\ d \in Fresh
    BY <2>1, <2>2, FrameFields DEF Underway, Fresh
  <2>4. runtime[d] = "none" /\ d \notin active \cup unacked
    BY <2>3 DEF FreshInv
  <2>5. CASE UNCHANGED daemon
    BY <1>3, <2>1, <2>5
  <2>6. CASE /\ active' = active \cup {d}
             /\ runtime' = [runtime EXCEPT ![d] = "preparing"]
             /\ UNCHANGED <<refusing, unacked>>
    <3>1. \A e \in Dispatches : runtime'[e] = IF e = d THEN "preparing" ELSE runtime[e]
      BY <2>3, <2>6 DEF DaemonOK
    <3>2. DaemonOK' /\ Live' = Live \cup {d}
      BY <2>1, <2>3, <2>4, <2>6 DEF DaemonOK, Live
    <3> QED  BY <1>1, <1>4, <2>3, <2>6, <3>1, <3>2 DEF DaemonMoves, Settled
  <2> QED  BY <1>4, <2>5, <2>6 DEF HandleDispatch
<1>5. ASSUME NEW d \in Dispatches, Refuse(d) PROVE DaemonMoves
  <2>1. /\ runtime[d] = "preparing" /\ active' = active \ {d} /\ refusing' = refusing \ {d}
        /\ runtime' = [runtime EXCEPT ![d] = "none"] /\ UNCHANGED <<unacked, faults>>
    BY <1>5 DEF Refuse
  <2>2. \A e \in Dispatches : runtime'[e] = IF e = d THEN "none" ELSE runtime[e]
    BY <2>1 DEF DaemonOK
  <2>3. DaemonOK' /\ Live' = Live \ {d}
    BY <2>1, <2>2 DEF DaemonOK, Live
  <2> QED  BY <1>1, <2>1, <2>2, <2>3 DEF DaemonMoves, Settled
<1>6. ASSUME NEW d \in Dispatches, NEW from \in {"preparing", "starting"},
             NEW to \in {"starting", "running"},
             runtime[d] = from, d \notin refusing, runtime' = [runtime EXCEPT ![d] = to],
             UNCHANGED <<active, refusing, unacked, faults>>
      PROVE  DaemonMoves
  <2>1. \A e \in Dispatches : runtime'[e] = IF e = d THEN to ELSE runtime[e]
    BY <1>6 DEF DaemonOK
  <2>2. DaemonOK' /\ Live' = Live
    BY <1>6, <2>1 DEF DaemonOK, Live
  <2> QED  BY <1>1, <1>6, <2>1, <2>2 DEF DaemonMoves, Settled
<1>7. ASSUME NEW d \in Dispatches, NEW how \in {"completed", "failed"}, End(d, how)
      PROVE  DaemonMoves
  <2>1. /\ runtime[d] \in {"starting", "running", "stopping"}
        /\ runtime' = [runtime EXCEPT ![d] = how] /\ unacked' = unacked \cup {d}
        /\ UNCHANGED <<active, refusing, faults>>
    BY <1>7 DEF End
  <2>2. \A e \in Dispatches : runtime'[e] = IF e = d THEN how ELSE runtime[e]
    BY <2>1 DEF DaemonOK
  <2>3. DaemonOK' /\ Live' = Live \ {d}
    BY <2>1, <2>2 DEF DaemonOK, Live
  <2> QED  BY <1>1, <2>1, <2>2, <2>3 DEF DaemonMoves, Settled
<1>8. ASSUME HandleCancel PROVE DaemonMoves
  <2> DEFINE ds == {Head(toDaemon).dispatch} \cap active
  <2>1. ds \in SUBSET active /\ CancelRuntimes(ds) /\ UNCHANGED <<active, unacked, faults>>
    BY <1>8 DEF HandleCancel, Take
  <2> HIDE DEF ds
  <2> QED  BY <1>1, <2>1, CancelsRuntimes
<1>9. ASSUME HandleAck PROVE DaemonMoves
  <2> DEFINE d == Head(toDaemon).dispatch
  <2>1. unacked' = unacked \ {d} /\ active' = active \ {d} /\ UNCHANGED <<runtime, refusing, faults>>
    BY <1>9 DEF HandleAck, Take
  <2> HIDE DEF d
  <2> QED  BY <1>1, <2>1 DEF DaemonMoves, Settled, DaemonOK, Live
<1>10. ASSUME HandleHelloOk PROVE DaemonMoves
  <2> DEFINE ids == Head(toDaemon).cancel
  <2>1. /\ ids \cap active \in SUBSET active /\ CancelRuntimes(ids \cap active)
        /\ active' = active \ ids /\ unacked' = unacked \ ids /\ UNCHANGED faults
    BY <1>10 DEF HandleHelloOk, Take
  <2> HIDE DEF ids
  <2> QED  BY <1>1, <2>1, CancelsRuntimes
<1>11. ASSUME DaemonRestarts PROVE DaemonMoves
  <2>1. /\ active' = {} /\ refusing' = {} /\ unacked' = {}
        /\ runtime' = [d \in Dispatches |-> IF d \in Live THEN "failed" ELSE runtime[d]]
        /\ faults < MaxFaults /\ faults' = faults + 1
    BY <1>11 DEF DaemonRestarts, Fault
  <2>2. faults' \in 0..MaxFaults
    BY <2>1, DaemonDispatchAssumption DEF DaemonOK
  <2> QED  BY <2>1, <2>2 DEF DaemonMoves, Settled, DaemonOK, Live
<1>12. ASSUME Fault PROVE faults' \in 0..MaxFaults
  BY <1>12, DaemonDispatchAssumption DEF Fault, DaemonOK
<1> QED
  <2>1. ASSUME NEW d \in Dispatches, Accept(d) \/ Start(d) PROVE DaemonMoves
    <3>1. CASE Accept(d)
      BY <3>1, <1>6 DEF Accept
    <3>2. CASE Start(d)
      BY <3>2, <1>6 DEF Start, DaemonOK
    <3> QED  BY <2>1, <3>1, <3>2
  <2>2. ASSUME NEW d \in Dispatches,
               \/ Execute(d) \/ Dispatch(d) \/ AcceptTimesOut(d) \/ GraceExpires(d)
               \/ WatchdogCancels(d) \/ WatchdogForces(d)
        PROVE  DaemonMoves
    BY <2>2, <1>3 DEF Execute, Dispatch, AcceptTimesOut, GraceExpires, WatchdogCancels, WatchdogForces
  <2>3. ASSUME WorkerReceives \/ Connect \/ HandleHello \/ UNCHANGED vars PROVE DaemonMoves
    BY <2>3, <1>3 DEF WorkerReceives, ReceiveAccepted, ReceiveRejected, ReceiveEnded, ReceiveLost,
                      Receive, Connect, HandleHello, vars
  <2>4. ASSUME Drop \/ WorkerRestarts PROVE DaemonMoves
    BY <2>4, <1>2, <1>12 DEF Drop, WorkerRestarts
  <2> QED
    BY <1>4, <1>5, <1>7, <1>8, <1>9, <1>10, <1>11, <2>1, <2>2, <2>3, <2>4
    DEF Next, WorkerTimers, DaemonReceives, DaemonWorks

(***************************************************************************)
(* The invariant is kept                                                   *)
(***************************************************************************)
LEMMA FreshShrinks ==
  ASSUME WorkerMoves, WireMoves
  PROVE  Fresh' \subseteq Fresh
BY DEF WorkerMoves, WireMoves, Fresh

LEMMA DispatchedOnce ==
  ASSUME TypeInv, FreshInv, WorkerMoves, HandleDispatch
  PROVE  /\ Head(toDaemon).dispatch \in Dispatches
         /\ Head(toDaemon).dispatch \in Fresh /\ Head(toDaemon).dispatch \notin Fresh'
         /\ link = "up" /\ link' = "up"
<1> DEFINE d == Head(toDaemon).dispatch
<1>1. /\ toDaemon # <<>> /\ toDaemon' = Tail(toDaemon) /\ Head(toDaemon).type = "dispatch"
      /\ UNCHANGED link
  BY DEF HandleDispatch, Take, Reply
<1>2. Head(toDaemon) \in DaemonFrame /\ Head(toDaemon) \in ToSet(toDaemon)
  BY <1>1, HeadAndTail DEF TypeInv, WireOK
<1>3. d \in Dispatches /\ Head(toDaemon) = Frame("dispatch", d)
  BY <1>1, <1>2, FrameFields
<1>4. Head(toDaemon) \notin ToSet(toDaemon')
  BY <1>1, OnceTail DEF TypeInv, WireOK, FreshInv
<1>5. d \in Underway /\ d \notin Underway' /\ d \notin Unsent'
  BY <1>2, <1>3, <1>4 DEF Underway, FreshInv, WorkerMoves
<1> QED  BY <1>1, <1>3, <1>5 DEF Fresh, TypeInv, WireOK

\* Frames the daemon sends tell how things are now.
TrueNow(f) ==
  /\ f.dispatch \notin Fresh'
  /\ f.type = "rejected" => runtime'[f.dispatch] = "none"
  /\ f.type = "ended" => runtime'[f.dispatch] = f.how
  /\ f.type = "lost" => f.dispatch \notin active'

ServerMoves == \A f \in ToSet(toServer') : f \in ToSet(toServer) \/ TrueNow(f)

LEMMA ServerStep ==
  ASSUME TypeInv, FreshInv, ActiveInv, WorkerMoves, WireMoves, DaemonMoves, [Next]_vars
  PROVE  ServerMoves
<1> USE DEF TypeInv
<1>1. ASSUME UNCHANGED toServer \/ Disconnect PROVE ServerMoves
  BY <1>1, Empty DEF ServerMoves, Disconnect
<1>2. Fresh' \subseteq Fresh
  BY FreshShrinks
<1>3. ASSUME NEW d \in Dispatches, runtime[d] # "none" PROVE d \notin Fresh'
  BY <1>2, <1>3 DEF FreshInv
<1>4. ASSUME NEW f \in ServerFrame, SendToServer(<<f>>), TrueNow(f) PROVE ServerMoves
  BY <1>4, SendsToServer DEF ServerMoves
<1>5. ASSUME NEW type, Receive(type) PROVE ServerMoves
  BY <1>5, Received DEF ServerMoves
<1>6. ASSUME HandleDispatch PROVE ServerMoves
  <2> DEFINE d == Head(toDaemon).dispatch
             f == Frame("rejected", d)
  <2>1. Take("dispatch") /\ d \in Dispatches /\ d \in Fresh /\ d \notin Fresh'
    BY <1>6, DispatchedOnce DEF HandleDispatch
  <2>2. f \in ServerFrame /\ f.dispatch = d /\ f.type = "rejected"
    BY <2>1, Frames DEF Frame
  <2> HIDE DEF d, f
  <2>3. <<>> \in Seq(ServerFrame) /\ ToSet(<<>>) = {}
        /\ <<f>> \in Seq(ServerFrame) /\ ToSet(<<f>>) = {f}
    BY <2>2, Empty, Singleton
  <2>4. CASE Reply(<<>>)
    BY <2>1, <2>3, <2>4, Replies DEF ServerMoves
  <2>5. CASE Reply(<<f>>) /\ UNCHANGED daemon
    <3>1. runtime'[d] = "none"
      BY <2>1, <2>5 DEF FreshInv, daemon
    <3>2. TrueNow(f)
      BY <2>1, <2>2, <3>1 DEF TrueNow
    <3>3. ToSet(toServer') = ToSet(toServer) \cup ToSet(<<f>>)
      BY <2>1, <2>3, <2>5, Replies
    <3> QED  BY <2>3, <3>2, <3>3 DEF ServerMoves
  <2> QED  BY <1>6, <2>4, <2>5 DEF HandleDispatch, d, f
<1>7. ASSUME HandleCancel \/ HandleAck PROVE ServerMoves
  <2>1. \E type \in {"cancel", "ack"} : Take(type) /\ Reply(<<>>)
    BY <1>7 DEF HandleCancel, HandleAck
  <2>2. <<>> \in Seq(ServerFrame) /\ ToSet(<<>>) = {}
    BY Empty
  <2> QED  BY <2>1, <2>2, Replies DEF ServerMoves
<1>8. ASSUME HandleHelloOk PROVE ServerMoves
  <2> DEFINE resume == Head(toDaemon).resume
             frames == ReportLost(resume)
                \o SetToSeq({Ended(d, runtime[d]) : d \in resume \cap active \cap unacked})
  <2>1. /\ Take("hello_ok") /\ Reply(frames) /\ frames \in Seq(ServerFrame)
        /\ resume \subseteq Dispatches
        /\ \A f \in ToSet(frames) :
             \/ \E d \in resume \ RunningDispatchIds : f = Frame("lost", d)
             \/ \E d \in resume \cap unacked : f = Ended(d, runtime[d])
    BY <1>8, HelloFrames
  <2> HIDE DEF frames
  <2>2. /\ ToSet(toServer') = ToSet(toServer) \cup ToSet(frames)
        /\ Head(toDaemon) \in ToSet(toDaemon) /\ Head(toDaemon).type = "hello_ok"
    BY <2>1, Replies
  <2>3. resume \cap Fresh = {}
    BY <2>2 DEF FreshInv
  <2>4. ASSUME NEW d \in resume \ RunningDispatchIds PROVE TrueNow(Frame("lost", d))
    <3>1. d \notin active /\ d \in Dispatches \ Fresh
      BY <2>1, <2>3 DEF RunningDispatchIds, ActiveInv
    <3>2. d \notin active' /\ d \notin Fresh'
      BY <1>2, <3>1 DEF DaemonMoves, Settled
    <3> QED  BY <3>2 DEF TrueNow, Frame
  <2>5. ASSUME NEW d \in resume \cap unacked PROVE TrueNow(Ended(d, runtime[d]))
    <3>1. d \in Dispatches \ Fresh /\ runtime[d] \in {"completed", "failed"}
      BY <2>1, <2>3 DEF DaemonOK
    <3>2. runtime'[d] = runtime[d] /\ d \notin Fresh'
      BY <1>2, <3>1 DEF DaemonMoves, Settled
    <3> QED  BY <3>2 DEF TrueNow, Ended
  <2> QED  BY <2>1, <2>2, <2>4, <2>5 DEF ServerMoves
<1> QED
  <2>1. ASSUME NEW d \in Dispatches, Refuse(d) PROVE ServerMoves
    <3>1. runtime[d] = "preparing" /\ runtime' = [runtime EXCEPT ![d] = "none"]
          /\ SendToServer(<<Frame("rejected", d)>>)
      BY <2>1 DEF Refuse
    <3>2. TrueNow(Frame("rejected", d))
      BY <1>3, <3>1 DEF TrueNow, Frame, DaemonOK
    <3> QED  BY <1>4, <3>1, <3>2, Frames
  <2>2. ASSUME NEW d \in Dispatches, Accept(d) PROVE ServerMoves
    <3>1. runtime[d] = "preparing" /\ SendToServer(<<Frame("accepted", d)>>)
      BY <2>2 DEF Accept
    <3>2. TrueNow(Frame("accepted", d))
      BY <1>3, <3>1 DEF TrueNow, Frame
    <3> QED  BY <1>4, <3>1, <3>2, Frames
  <2>3. ASSUME NEW d \in Dispatches, NEW how \in {"completed", "failed"}, End(d, how)
        PROVE  ServerMoves
    <3>1. runtime[d] # "none" /\ runtime' = [runtime EXCEPT ![d] = how]
          /\ SendToServer(<<Ended(d, how)>>)
      BY <2>3 DEF End
    <3>2. TrueNow(Ended(d, how))
      BY <1>3, <3>1 DEF TrueNow, Ended, DaemonOK
    <3> QED  BY <1>4, <3>1, <3>2, Frames
  <2>4. ASSUME NEW d \in Dispatches,
               \/ Execute(d) \/ Dispatch(d) \/ AcceptTimesOut(d) \/ GraceExpires(d)
               \/ WatchdogCancels(d) \/ WatchdogForces(d) \/ Start(d)
        PROVE  ServerMoves
    BY <2>4, <1>1 DEF Execute, Dispatch, AcceptTimesOut, GraceExpires, WatchdogCancels,
                      WatchdogForces, Start, SendToDaemon, wire
  <2>5. ASSUME WorkerReceives PROVE ServerMoves
    BY <2>5, <1>5 DEF WorkerReceives, ReceiveAccepted, ReceiveRejected, ReceiveEnded, ReceiveLost
  <2>6. ASSUME \/ Connect \/ HandleHello \/ Drop \/ WorkerRestarts \/ DaemonRestarts
               \/ UNCHANGED vars
        PROVE  ServerMoves
    BY <2>6, <1>1 DEF Connect, HandleHello, Drop, WorkerRestarts, DaemonRestarts, vars, wire
  <2> QED
    BY <1>6, <1>7, <1>8, <2>1, <2>2, <2>3, <2>4, <2>5, <2>6
    DEF Next, WorkerTimers, DaemonReceives, DaemonWorks

\* A hello announces what the daemon holds; the server resumes what is announced.
HelloMoves ==
  /\ hello' \subseteq hello \cup active
  /\ link' = "hello" =>
       \/ Connect
       \/ link = "hello" /\ hello' = hello
  /\ \A f \in ToSet(toDaemon') :
       f.type = "hello_ok" => f \in ToSet(toDaemon) \/ f.resume \subseteq hello

LEMMA HelloStep ==
  ASSUME TypeInv, FreshInv, [Next]_vars
  PROVE  HelloMoves
<1> USE DEF TypeInv
<1>1. ASSUME UNCHANGED <<link, hello, toDaemon>> PROVE HelloMoves
  BY <1>1 DEF HelloMoves
<1>2. ASSUME Disconnect PROVE HelloMoves
  BY <1>2, Empty DEF HelloMoves, Disconnect
<1>3. ASSUME NEW f \in ServerFrame, SendToServer(<<f>>) PROVE HelloMoves
  BY <1>3, SendsToServer, Empty DEF HelloMoves
<1>4. ASSUME NEW type, Take(type), NEW frames, Reply(frames) PROVE HelloMoves
  <2>1. toDaemon # <<>> /\ toDaemon' = Tail(toDaemon) /\ UNCHANGED <<link, hello>>
    BY <1>4 DEF Take, Reply
  <2>2. ToSet(toDaemon') \subseteq ToSet(toDaemon)
    BY <2>1, HeadAndTail DEF WireOK
  <2> QED  BY <2>1, <2>2 DEF HelloMoves
<1>5. ASSUME NEW f \in DaemonFrame, f.type # "hello_ok", toDaemon' = toDaemon \o <<f>>,
             UNCHANGED <<link, hello>>
      PROVE  HelloMoves
  <2>1. ToSet(toDaemon') = ToSet(toDaemon) \cup {f}
    BY <1>5, ConcatOne DEF WireOK
  <2> QED  BY <1>5, <2>1 DEF HelloMoves
<1>6. ASSUME NEW d \in Dispatches, NEW t \in {"cancel", "dispatch"}, SendToDaemon(<<Frame(t, d)>>)
      PROVE  HelloMoves
  <2> DEFINE f == Frame(t, d)
  <2>1. f \in DaemonFrame /\ f.type # "hello_ok"
    BY Frames DEF Frame
  <2>2. toDaemon' = toDaemon \o <<f>> /\ UNCHANGED <<link, hello>>
    BY <1>6 DEF SendToDaemon
  <2> HIDE DEF f
  <2> QED  BY <1>5, <2>1, <2>2
<1>7. ASSUME ReceiveEnded PROVE HelloMoves
  <2> DEFINE f == Frame("ack", Head(toServer).dispatch)
  <2>1. Head(toServer).dispatch \in Dispatches /\ UNCHANGED <<link, hello>>
        /\ toDaemon' = Append(toDaemon, f)
    BY <1>7, Received DEF ReceiveEnded
  <2>2. f \in DaemonFrame /\ f.type # "hello_ok" /\ f.type # "dispatch"
    BY <2>1, Frames DEF Frame
  <2> HIDE DEF f
  <2>3. toDaemon' = toDaemon \o <<f>>
    BY <2>1, <2>2, OnceAppend DEF WireOK, FreshInv
  <2> QED  BY <1>5, <2>1, <2>2, <2>3
<1>8. ASSUME HandleHello PROVE HelloMoves
  <2> DEFINE f == HelloOk(Registered \cap hello, Unowned(hello))
  <2>1. f.resume \subseteq hello /\ link' = "up" /\ hello' = {} /\ toDaemon' = <<f>>
    BY <1>8 DEF HandleHello, HelloOk
  <2> HIDE DEF f
  <2>2. ToSet(<<f>>) = {f}
    BY Singleton
  <2> QED  BY <2>1, <2>2 DEF HelloMoves
<1>9. ASSUME Connect PROVE HelloMoves
  BY <1>9 DEF HelloMoves, Connect, RunningDispatchIds
<1> QED
  <2>1. ASSUME NEW d \in Dispatches, Refuse(d) \/ Accept(d) PROVE HelloMoves
    BY <2>1, <1>3, Frames DEF Refuse, Accept
  <2>2. ASSUME NEW d \in Dispatches, NEW how \in {"completed", "failed"}, End(d, how)
        PROVE  HelloMoves
    BY <2>2, <1>3, Frames DEF End
  <2>3. ASSUME NEW d \in Dispatches,
               \/ Execute(d) \/ AcceptTimesOut(d) \/ GraceExpires(d) \/ Start(d)
               \/ Dispatch(d) \/ WatchdogCancels(d) \/ WatchdogForces(d)
        PROVE  HelloMoves
    BY <2>3, <1>1, <1>6 DEF Execute, AcceptTimesOut, GraceExpires, Start, Dispatch,
                            WatchdogCancels, WatchdogForces, wire
  <2>4. ASSUME ReceiveAccepted \/ ReceiveRejected \/ ReceiveLost PROVE HelloMoves
    BY <2>4, <1>1 DEF ReceiveAccepted, ReceiveRejected, ReceiveLost, Receive
  <2>5. ASSUME HandleDispatch \/ HandleCancel \/ HandleAck \/ HandleHelloOk PROVE HelloMoves
    BY <2>5, <1>4 DEF HandleDispatch, HandleCancel, HandleAck, HandleHelloOk
  <2>6. ASSUME Drop \/ WorkerRestarts \/ DaemonRestarts \/ UNCHANGED vars PROVE HelloMoves
    BY <2>6, <1>1, <1>2 DEF Drop, WorkerRestarts, DaemonRestarts, vars, wire
  <2> QED
    BY <1>7, <1>8, <1>9, <2>1, <2>2, <2>3, <2>4, <2>5, <2>6
    DEF Next, WorkerReceives, WorkerTimers, DaemonReceives, DaemonWorks

Moves == WorkerMoves /\ WireMoves /\ DaemonMoves /\ ServerMoves /\ HelloMoves

LEMMA FreshStep ==
  ASSUME TypeInv, FreshInv, Moves, [Next]_vars
  PROVE  FreshInv'
<1> USE DEF TypeInv, Moves
<1>1. Fresh' \subseteq Fresh
  BY FreshShrinks
<1>2. ASSUME NEW d \in Fresh'
      PROVE  runtime'[d] = "none" /\ d \notin active' \cup unacked' \cup hello'
  <2>1. d \in Dispatches /\ d \in Fresh
    BY <1>1, <1>2 DEF Fresh, Unsent, Underway
  <2>2. runtime[d] = "none" /\ d \notin active \cup unacked \cup hello
    BY <2>1 DEF FreshInv
  <2>3. runtime'[d] = "none"
    BY <1>2, <2>1, <2>2, DispatchedOnce DEF DaemonMoves
  <2> QED  BY <2>1, <2>2, <2>3 DEF DaemonMoves, HelloMoves
<1>3. \A f \in ToSet(toServer') : f.dispatch \notin Fresh'
  BY <1>1 DEF ServerMoves, TrueNow, FreshInv
<1>4. \A f \in ToSet(toDaemon') : f.type = "hello_ok" => f.resume \cap Fresh' = {}
  BY <1>1 DEF HelloMoves, FreshInv
<1> QED  BY <1>2, <1>3, <1>4 DEF FreshInv, WireMoves

\* Only the handling of a dispatch frame makes the daemon hold more.
LEMMA NewlyHeld ==
  ASSUME TypeInv, FreshInv, Moves, [Next]_vars, NEW d \in Dispatches,
         \/ d \in active' /\ d \notin active
         \/ d \in active' \cap Live' /\ d \notin active \cap Live
  PROVE  HandleDispatch /\ d = Head(toDaemon).dispatch
<1>1. d \in Fresh
  BY DEF Moves, DaemonMoves, Settled, TypeInv, DaemonOK, Live
<1>2. runtime[d] = "none" /\ d \notin active \cup unacked
  BY <1>1 DEF FreshInv
<1> QED  BY <1>2 DEF Moves, DaemonMoves

LEMMA ActiveStep ==
  ASSUME TypeInv, FreshInv, ActiveInv, Moves, [Next]_vars
  PROVE  ActiveInv'
<1> USE DEF TypeInv, Moves
<1>1. ASSUME link' = "hello", NEW d \in active' PROVE d \in hello'
  <2>1. d \in Dispatches
    BY DEF DaemonMoves, DaemonOK
  <2>2. d \in active
    BY <1>1, <2>1, NewlyHeld, DispatchedOnce
  <2>3. CASE Connect
    BY <2>2, <2>3 DEF Connect, RunningDispatchIds, ActiveInv
  <2>4. CASE link = "hello" /\ hello' = hello
    BY <2>2, <2>4 DEF ActiveInv
  <2> QED  BY <1>1, <2>3, <2>4 DEF HelloMoves
<1> QED  BY <1>1 DEF ActiveInv, DaemonMoves

LEMMA NewsStep ==
  ASSUME TypeInv, FreshInv, NewsInv, Moves
  PROVE  NewsInv'
<1> USE DEF TypeInv, Moves
<1>1. ASSUME NEW f \in ToSet(toServer') PROVE TrueNow(f)
  <2>1. CASE f \in ToSet(toServer)
    <3>1. f \in ServerFrame /\ f.dispatch \in Dispatches \ Fresh
      BY <2>1, Elements, FrameFields DEF WireOK, FreshInv
    <3>2. f.type = "ended" => f.how \in {"completed", "failed"}
      BY <3>1, FrameFields
    <3> QED  BY <2>1, <3>1, <3>2, FreshShrinks DEF TrueNow, NewsInv, DaemonMoves, Settled
  <2> QED  BY <2>1 DEF ServerMoves
<1> QED  BY <1>1 DEF NewsInv, TrueNow

LEMMA ToldStep ==
  ASSUME TypeInv, FreshInv, ActiveInv, NewsInv, ToldInv, Moves
  PROVE  ToldInv'
<1> USE DEF TypeInv, Moves
<1>1. Fresh' \subseteq Fresh
  BY FreshShrinks
<1> SUFFICES ASSUME NEW d \in Dispatches, outcome'[d] \in {"completed", "rejected", "lost"}
             PROVE  /\ d \notin Fresh'
                    /\ outcome'[d] = "completed" => runtime'[d] = "completed"
                    /\ outcome'[d] = "rejected" => runtime'[d] = "none"
                    /\ outcome'[d] = "lost" => d \notin active' \/ d \in misled'
  BY DEF ToldInv, ToldTheTruth
<1>2. CASE outcome'[d] = outcome[d]
  BY <1>1, <1>2 DEF ToldInv, ToldTheTruth, DaemonMoves, Settled, WorkerMoves
<1>3. CASE NewsOf(d)
  <2>1. PICK f \in ToSet(toServer) :
          /\ f.dispatch = d
          /\ \/ f.type = "rejected" /\ outcome'[d] = "rejected"
             \/ f.type = "lost" /\ outcome'[d] = "lost"
             \/ f.type = "ended" /\ outcome'[d] = f.how
             \/ f.type = "accepted" /\ outcome'[d] = "lost" /\ d \in misled
    BY <1>3 DEF NewsOf
  <2>2. d \in Dispatches \ Fresh
    BY <2>1 DEF FreshInv
  <2>3. /\ f.type = "rejected" => runtime[d] = "none"
        /\ f.type = "ended" => runtime[d] = f.how
        /\ f.type = "lost" => d \notin active
    BY <2>1 DEF NewsInv
  <2>4. f.type = "ended" => f.how \in {"completed", "failed"}
    BY <2>1, Elements, FrameFields DEF WireOK
  <2> QED  BY <1>1, <2>1, <2>2, <2>3, <2>4 DEF DaemonMoves, Settled, WorkerMoves
<1>4. CASE link = "hello" /\ d \notin hello /\ adapter[d] = "streaming" /\ outcome'[d] = "lost"
  <2>1. toDaemon = <<>>
    BY <1>4 DEF WireOK
  <2>2. d \notin Fresh
    BY <1>4, <2>1, Empty DEF Fresh, Unsent, Underway
  <2>3. d \notin active
    BY <1>4 DEF ActiveInv
  <2> QED  BY <1>1, <1>4, <2>2, <2>3 DEF DaemonMoves, Settled
<1> QED  BY <1>2, <1>3, <1>4 DEF WorkerMoves, Tells

LEMMA CapStep ==
  ASSUME TypeInv, FreshInv, WithinCap, Moves, [Next]_vars
  PROVE  WithinCap'
<1> USE DEF TypeInv, Moves
<1> DEFINE held == active \cap Live
<1>1. /\ {d \in active : runtime[d] \in {"preparing", "starting", "running", "stopping"}} = held
      /\ {d \in active' : runtime'[d] \in {"preparing", "starting", "running", "stopping"}} = held'
  BY DEF DaemonMoves, DaemonOK, Live
<1>2. IsFiniteSet(held) /\ Cardinality(held) \in Nat /\ Cardinality(held) <= Cap /\ Cap \in Nat
  BY <1>1, FS_Subset, FS_CardinalityType, DaemonDispatchAssumption DEF WithinCap, DaemonOK
<1>3. CASE held' \subseteq held
  <2>1. Cardinality(held') <= Cardinality(held) /\ IsFiniteSet(held')
    BY <1>2, <1>3, FS_Subset
  <2>2. Cardinality(held') \in Nat
    BY <2>1, FS_CardinalityType
  <2> QED  BY <1>1, <1>2, <2>1, <2>2 DEF WithinCap
<1>4. CASE ~(held' \subseteq held)
  <2> DEFINE d == Head(toDaemon).dispatch
  <2>1. PICK e \in held' : e \notin held
    BY <1>4
  <2>2. \A c \in held' : c \in held \/ c = d
    BY NewlyHeld DEF DaemonMoves, DaemonOK
  <2>3. HandleDispatch
    BY <2>1, NewlyHeld DEF DaemonMoves, DaemonOK
  <2>4. ~UNCHANGED daemon
    BY <2>1 DEF daemon, Live
  <2>5. Cardinality(held) < Cap
    BY <2>3, <2>4 DEF HandleDispatch, ActiveCount
  <2> HIDE DEF held, d
  <2>6. held' \subseteq held \cup {d}
    BY <2>2
  <2>7. IsFiniteSet(held \cup {d}) /\ Cardinality(held \cup {d}) <= Cap
        /\ Cardinality(held \cup {d}) \in Nat
    BY <1>2, <2>5, FS_AddElement
  <2>8. IsFiniteSet(held') /\ Cardinality(held') <= Cardinality(held \cup {d})
    BY <2>6, <2>7, FS_Subset
  <2>9. Cardinality(held') \in Nat
    BY <2>8, FS_CardinalityType
  <2> QED  BY <1>1, <1>2, <2>7, <2>8, <2>9 DEF WithinCap
<1> QED  BY <1>3, <1>4

LEMMA Inductive == IInv /\ [Next]_vars => IInv'
<1> SUFFICES ASSUME IInv, [Next]_vars PROVE IInv'
  OBVIOUS
<1> USE DEF IInv
<1>1. WorkerMoves
  BY WorkerStep
<1>2. WireMoves
  BY <1>1, WireStep
<1>3. DaemonMoves
  BY DaemonStep
<1>4. ServerMoves
  BY <1>1, <1>2, <1>3, ServerStep
<1>5. HelloMoves
  BY HelloStep
<1>6. Moves
  BY <1>1, <1>2, <1>3, <1>4, <1>5 DEF Moves
<1>7. TypeInv'
  BY <1>1, <1>2, <1>3 DEF TypeInv, WorkerMoves, WireMoves, DaemonMoves
<1> QED  BY <1>6, <1>7, FreshStep, ActiveStep, NewsStep, ToldStep, CapStep

(***************************************************************************)
(* What feeds a stream                                                     *)
(***************************************************************************)
\* A runtime was started for d, whatever became of it.
Begun(d) == runtime[d] \notin {"none", "preparing"}

\* Only a dispatch that was accepted is read.
BegunInv ==
  /\ \A d \in Dispatches : adapter[d] = "streaming" => Begun(d)
  /\ \A f \in ToSet(toServer) : f.type = "accepted" => Begun(f.dispatch)

\* The daemon forgets what it is preparing only if it will refuse it.
HeldInv == \A d \in Dispatches : runtime[d] = "preparing" => d \in active \cup refusing

\* The server acks what has ended, and cancels what no bridge will ever be for.
AnswerInv ==
  \A f \in ToSet(toDaemon) :
    /\ f.type = "ack" => runtime[f.dispatch] \in {"completed", "failed"}
    /\ f.type = "hello_ok" => f.cancel \cap (Registered \cup Fresh) = {}

\* On a connection nothing is accepted after it has ended.
OrderInv ==
  \A i, j \in 1..Len(toServer) :
    i < j /\ toServer[i].type = "ended" /\ toServer[j].type = "accepted" =>
      toServer[i].dispatch # toServer[j].dispatch

Fed(d) ==
  \/ d \in active /\ runtime[d] \in {"starting", "running", "stopping"}
  \/ \E f \in ToSet(toServer) : f.dispatch = d /\ f.type \in {"ended", "lost"}
  \/ \E f \in ToSet(toDaemon) : f.type = "hello_ok" /\ d \in f.resume

\* The stream of d is read, or will be with a frame that is on its way.
Read(d) ==
  \/ adapter[d] = "streaming"
  \/ /\ adapter[d] = "sent" /\ d \notin doomed
     /\ \E f \in ToSet(toServer) : f.type = "accepted" /\ f.dispatch = d

FedInv == link = "up" => \A d \in Dispatches : Read(d) => Fed(d)

FeedInv == BegunInv /\ HeldInv /\ AnswerInv /\ OrderInv /\ FedInv

LEMMA HeadOrTail ==
  ASSUME NEW S, NEW s \in Seq(S), s # <<>>
  PROVE  \A x \in ToSet(s) : x = Head(s) \/ x \in ToSet(Tail(s))
<1>1. /\ Len(s) \in Nat \ {0} /\ DOMAIN s = 1..Len(s) /\ Head(s) = s[1]
      /\ Tail(s) \in Seq(S) /\ Len(Tail(s)) = Len(s) - 1
      /\ \A i \in 1..Len(s) - 1 : Tail(s)[i] = s[i + 1]
  BY EmptySeq, LenProperties, HeadAndTail
<1>2. DOMAIN Tail(s) = 1..Len(s) - 1
  BY <1>1, LenProperties
<1> SUFFICES ASSUME NEW i \in 1..Len(s), i # 1 PROVE s[i] \in ToSet(Tail(s))
  BY <1>1 DEF ToSet
<1>3. i - 1 \in 1..Len(s) - 1 /\ (i - 1) + 1 = i
  BY <1>1
<1> QED  BY <1>1, <1>2, <1>3 DEF ToSet

\* The steps of the adapters, as far as reading a stream goes.
StreamMoves ==
  \A d \in Dispatches :
    /\ adapter'[d] = "streaming" =>
         \/ adapter[d] = "streaming"
         \/ ReceiveAccepted /\ Head(toServer).dispatch = d /\ adapter[d] = "sent" /\ d \notin doomed
    /\ adapter'[d] = "sent" => /\ adapter[d] = "sent" \/ d \in Unsent
                               /\ d \in doomed => d \in doomed'
    /\ adapter'[d] = "registered" => d \in Unsent

LEMMA FinishedStream ==
  ASSUME WorkerOK, NEW d \in Dispatches, NEW how, Finish(d, how)
  PROVE  StreamMoves
BY DEF Finish, WorkerOK, StreamMoves, Unsent

LEMMA FailedStreams ==
  ASSUME WorkerOK, NEW ds, NEW why, FailStreams(ds, why)
  PROVE  StreamMoves
BY DEF FailStreams, WorkerOK, StreamMoves, Unsent

LEMMA StreamStep ==
  ASSUME TypeInv, [Next]_vars
  PROVE  StreamMoves
<1> USE DEF TypeInv
<1>1. ASSUME UNCHANGED worker PROVE StreamMoves
  BY <1>1 DEF worker, StreamMoves, Unsent
<1>2. ASSUME NEW d \in Dispatches, Execute(d) \/ Dispatch(d) \/ AcceptTimesOut(d)
      PROVE  StreamMoves
  <2>1. \/ Finish(d, "failed")
        \/ d \in Unsent /\ (Advance(d, "registered") \/ Advance(d, "sent"))
    BY <1>2 DEF Execute, Dispatch, AcceptTimesOut, Unsent
  <2>2. CASE d \in Unsent /\ (Advance(d, "registered") \/ Advance(d, "sent"))
    BY <2>2 DEF Advance, WorkerOK, StreamMoves, Unsent
  <2> QED  BY <2>1, <2>2, FinishedStream
<1>3. ASSUME NEW d \in Dispatches, GraceExpires(d) PROVE StreamMoves
  BY <1>3, FailedStreams DEF GraceExpires
<1>4. ASSUME NEW d \in Dispatches, WatchdogCancels(d) PROVE StreamMoves
  BY <1>4 DEF WatchdogCancels, StreamMoves, Unsent
<1>5. ASSUME ReceiveAccepted PROVE StreamMoves
  <2> DEFINE d == Head(toServer).dispatch
  <2>1. d \in Dispatches
    BY <1>5, Received DEF ReceiveAccepted
  <2>2. CASE adapter[d] = "sent" /\ d \notin doomed /\ Advance(d, "streaming")
    BY <1>5, <2>1, <2>2 DEF Advance, WorkerOK, StreamMoves, Unsent
  <2>3. CASE \E how \in {"failed", "lost"} : Finish(d, how)
    BY <2>1, <2>3, FinishedStream
  <2> QED  BY <1>1, <1>5, <2>2, <2>3 DEF ReceiveAccepted
<1>6. ASSUME ReceiveRejected \/ ReceiveEnded \/ ReceiveLost PROVE StreamMoves
  <2>1. Head(toServer).dispatch \in Dispatches
    BY <1>6, Received DEF ReceiveRejected, ReceiveEnded, ReceiveLost
  <2> QED
    BY <1>1, <1>6, <2>1, FinishedStream, FailedStreams
    DEF ReceiveRejected, ReceiveEnded, ReceiveLost
<1>7. ASSUME HandleHello PROVE StreamMoves
  BY <1>7, FailedStreams DEF HandleHello
<1>8. ASSUME WorkerRestarts PROVE StreamMoves
  BY <1>8 DEF WorkerRestarts, StreamMoves, Unsent, Registered, WorkerOK
<1> QED
  BY <1>1, <1>2, <1>3, <1>4, <1>5, <1>6, <1>7, <1>8
  DEF Next, vars, WorkerReceives, WorkerTimers, DaemonReceives, DaemonWorks,
      WatchdogForces, End, HandleDispatch, HandleCancel, HandleAck, HandleHelloOk, Take,
      Refuse, Accept, Start, Connect, Drop, DaemonRestarts

\* How the frames on their way to the server change.
ServerLine ==
  \/ toServer' = toServer
  \/ toServer' = <<>>
  \/ toServer # <<>> /\ toServer' = Tail(toServer)
  \/ \E frames \in Seq(ServerFrame) :
       /\ toServer' = toServer \o frames
       /\ \A f \in ToSet(frames) : f.type # "accepted"
  \/ \E d \in Dispatches : Accept(d) /\ toServer' = toServer \o <<Frame("accepted", d)>>

LEMMA LineStep ==
  ASSUME TypeInv, [Next]_vars
  PROVE  ServerLine
<1> USE DEF TypeInv
<1>1. ASSUME UNCHANGED toServer \/ Disconnect PROVE ServerLine
  BY <1>1 DEF ServerLine, Disconnect
<1>2. ASSUME NEW f \in ServerFrame, SendToServer(<<f>>)
      PROVE  toServer' = toServer \/ toServer' = <<>> \/ toServer' = toServer \o <<f>>
  BY <1>2 DEF SendToServer, Disconnect, wire
<1>3. ASSUME NEW f \in ServerFrame, f.type # "accepted", SendToServer(<<f>>) PROVE ServerLine
  <2>1. <<f>> \in Seq(ServerFrame) /\ ToSet(<<f>>) = {f}
    BY Singleton
  <2> QED  BY <1>2, <1>3, <2>1 DEF ServerLine
<1>4. ASSUME NEW d \in Dispatches, Accept(d) PROVE ServerLine
  BY <1>2, <1>4, Frames DEF Accept, ServerLine
<1>5. ASSUME NEW d \in Dispatches, Refuse(d) PROVE ServerLine
  <2>1. Frame("rejected", d) \in ServerFrame /\ Frame("rejected", d).type # "accepted"
    BY Frames DEF Frame
  <2> QED  BY <1>3, <1>5, <2>1 DEF Refuse
<1>6. ASSUME NEW d \in Dispatches, NEW how \in {"completed", "failed"}, End(d, how)
      PROVE  ServerLine
  <2>1. Ended(d, how) \in ServerFrame /\ Ended(d, how).type # "accepted"
    BY Frames DEF Ended
  <2> QED  BY <1>3, <1>6, <2>1 DEF End
<1>7. ASSUME HandleDispatch \/ HandleCancel \/ HandleAck PROVE ServerLine
  <2> DEFINE d == Head(toDaemon).dispatch
             f == Frame("rejected", d)
  <2>1. <<>> \in Seq(ServerFrame) /\ ToSet(<<>>) = {}
    BY Empty
  <2>2. CASE Reply(<<>>)
    BY <2>1, <2>2 DEF Reply, ServerLine
  <2>3. CASE HandleDispatch /\ Reply(<<f>>)
    <3>1. d \in Dispatches
      BY <2>3, HeadAndTail, FrameFields DEF HandleDispatch, Take, WireOK
    <3>2. f \in ServerFrame /\ f.type # "accepted"
      BY <3>1, Frames DEF Frame
    <3> HIDE DEF f
    <3>3. <<f>> \in Seq(ServerFrame) /\ ToSet(<<f>>) = {f}
      BY <3>2, Singleton
    <3> QED  BY <2>3, <3>2, <3>3 DEF Reply, ServerLine
  <2> QED  BY <1>7, <2>2, <2>3 DEF HandleDispatch, HandleCancel, HandleAck
<1>8. ASSUME HandleHelloOk PROVE ServerLine
  <2> DEFINE resume == Head(toDaemon).resume
             frames == ReportLost(resume)
                \o SetToSeq({Ended(d, runtime[d]) : d \in resume \cap active \cap unacked})
  <2>1. /\ Reply(frames) /\ frames \in Seq(ServerFrame)
        /\ \A f \in ToSet(frames) :
             \/ \E d \in resume \ RunningDispatchIds : f = Frame("lost", d)
             \/ \E d \in resume \cap unacked : f = Ended(d, runtime[d])
    BY <1>8, HelloFrames
  <2> HIDE DEF frames
  <2>2. \A f \in ToSet(frames) : f.type # "accepted"
    BY <2>1 DEF Frame, Ended
  <2> QED  BY <2>1, <2>2 DEF Reply, ServerLine
<1>9. ASSUME NEW type, Receive(type) PROVE ServerLine
  BY <1>9 DEF Receive, ServerLine
<1> QED
  <2>1. ASSUME NEW d \in Dispatches,
               \/ Execute(d) \/ Dispatch(d) \/ AcceptTimesOut(d) \/ GraceExpires(d)
               \/ WatchdogCancels(d) \/ WatchdogForces(d) \/ Start(d)
        PROVE  ServerLine
    BY <2>1, <1>1 DEF Execute, Dispatch, AcceptTimesOut, GraceExpires, WatchdogCancels,
                      WatchdogForces, Start, SendToDaemon, wire
  <2>2. ASSUME WorkerReceives PROVE ServerLine
    BY <2>2, <1>9 DEF WorkerReceives, ReceiveAccepted, ReceiveRejected, ReceiveEnded, ReceiveLost
  <2>3. ASSUME \/ Connect \/ HandleHello \/ Drop \/ WorkerRestarts \/ DaemonRestarts
               \/ UNCHANGED vars
        PROVE  ServerLine
    BY <2>3, <1>1 DEF Connect, HandleHello, Drop, WorkerRestarts, DaemonRestarts, vars, wire
  <2> QED
    BY <1>4, <1>5, <1>6, <1>7, <1>8, <2>1, <2>2, <2>3
    DEF Next, WorkerTimers, DaemonReceives, DaemonWorks

LEMMA BegunStep ==
  ASSUME IInv, Moves, StreamMoves, ServerLine, BegunInv, [Next]_vars
  PROVE  /\ \A d \in Dispatches : Begun(d) => Begun(d)'
         /\ BegunInv'
<1> USE DEF IInv, TypeInv
<1>1. ASSUME NEW d \in Dispatches, Begun(d) PROVE Begun(d)'
  <2>1. CASE HandleDispatch
    <3>1. Head(toDaemon).dispatch \in Fresh
      BY <2>1, DispatchedOnce DEF Moves
    <3>2. d # Head(toDaemon).dispatch
      BY <1>1, <3>1 DEF FreshInv, Begun
    <3> QED  BY <1>1, <2>1, <3>2 DEF HandleDispatch, daemon, Begun, DaemonOK
  <2>2. CASE HandleCancel \/ HandleHelloOk
    BY <1>1, <2>2 DEF HandleCancel, HandleHelloOk, CancelRuntimes, Begun, DaemonOK
  <2>3. ASSUME NEW e \in Dispatches,
               \/ Refuse(e) \/ Accept(e) \/ Start(e)
               \/ \E how \in {"completed", "failed"} : End(e, how)
        PROVE  Begun(d)'
    BY <1>1, <2>3 DEF Refuse, Accept, Start, End, Begun, DaemonOK
  <2>4. CASE DaemonRestarts
    BY <1>1, <2>4 DEF DaemonRestarts, Begun, DaemonOK
  <2>5. CASE UNCHANGED runtime
    BY <1>1, <2>5 DEF Begun
  <2>6. \/ UNCHANGED runtime
        \/ HandleDispatch \/ HandleCancel \/ HandleHelloOk \/ DaemonRestarts
        \/ \E e \in Dispatches : \/ Refuse(e) \/ Accept(e) \/ Start(e)
                                 \/ \E how \in {"completed", "failed"} : End(e, how)
    BY DEF Next, vars, daemon, WorkerReceives, WorkerTimers, DaemonReceives, DaemonWorks,
           Execute, Dispatch, AcceptTimesOut, GraceExpires, WatchdogCancels, WatchdogForces,
           ReceiveAccepted, ReceiveRejected, ReceiveEnded, ReceiveLost, Receive, HandleAck,
           Connect, HandleHello, Drop, WorkerRestarts
  <2> QED  BY <2>1, <2>2, <2>3, <2>4, <2>5, <2>6
<1>2. ASSUME NEW d \in Dispatches, adapter'[d] = "streaming" PROVE Begun(d)'
  <2>1. CASE adapter[d] = "streaming"
    BY <1>1, <2>1 DEF BegunInv
  <2>2. CASE ReceiveAccepted /\ Head(toServer).dispatch = d
    <3>1. Head(toServer) \in ToSet(toServer) /\ Head(toServer).type = "accepted"
      BY <2>2, Received DEF ReceiveAccepted
    <3> QED  BY <1>1, <2>2, <3>1 DEF BegunInv
  <2> QED  BY <1>2, <2>1, <2>2 DEF StreamMoves
<1>3. ASSUME NEW f \in ToSet(toServer), f.type = "accepted" PROVE Begun(f.dispatch)'
  <2>1. f.dispatch \in Dispatches
    BY Elements, FrameFields DEF WireOK
  <2> QED  BY <1>1, <1>3, <2>1 DEF BegunInv
<1>4. ASSUME NEW f \in ToSet(toServer'), f.type = "accepted" PROVE Begun(f.dispatch)'
  <2>1. CASE toServer' = toServer
    BY <1>3, <1>4, <2>1
  <2>2. CASE toServer' = <<>>
    BY <1>4, <2>2, Empty
  <2>3. CASE toServer # <<>> /\ toServer' = Tail(toServer)
    BY <1>3, <1>4, <2>3, HeadAndTail DEF WireOK
  <2>4. ASSUME NEW frames \in Seq(ServerFrame), toServer' = toServer \o frames,
               \A g \in ToSet(frames) : g.type # "accepted"
        PROVE  Begun(f.dispatch)'
    <3>1. ToSet(toServer') = ToSet(toServer) \cup ToSet(frames)
      BY <2>4, Concat DEF WireOK
    <3> QED  BY <1>3, <1>4, <2>4, <3>1
  <2>5. ASSUME NEW d \in Dispatches, Accept(d), toServer' = toServer \o <<Frame("accepted", d)>>
        PROVE  Begun(f.dispatch)'
    <3>1. ToSet(toServer') = ToSet(toServer) \cup {Frame("accepted", d)}
      BY <2>5, ConcatOne, Frames DEF WireOK
    <3>2. Begun(d)'
      BY <2>5 DEF Accept, Begun, DaemonOK
    <3> QED  BY <1>3, <1>4, <3>1, <3>2 DEF Frame
  <2> QED  BY <2>1, <2>2, <2>3, <2>4, <2>5 DEF ServerLine
<1> QED  BY <1>1, <1>2, <1>4 DEF BegunInv

LEMMA HeldStep ==
  ASSUME IInv, AnswerInv, HeldInv, [Next]_vars
  PROVE  HeldInv'
<1> USE DEF IInv, TypeInv
<1>1. ASSUME UNCHANGED <<active, runtime, refusing>> PROVE HeldInv'
  BY <1>1 DEF HeldInv
<1>2. CASE HandleDispatch
  <2> DEFINE d == Head(toDaemon).dispatch
  <2>1. CASE /\ active' = active \cup {d} /\ runtime' = [runtime EXCEPT ![d] = "preparing"]
             /\ UNCHANGED refusing
    BY <2>1 DEF HeldInv, DaemonOK
  <2> QED  BY <1>1, <1>2, <2>1 DEF HandleDispatch, daemon
<1>3. CASE HandleCancel
  BY <1>3 DEF HandleCancel, CancelRuntimes, HeldInv, DaemonOK
<1>4. CASE HandleHelloOk
  <2> DEFINE ids == Head(toDaemon).cancel
  <2>1. CancelRuntimes(ids \cap active) /\ active' = active \ ids
    BY <1>4 DEF HandleHelloOk
  <2> HIDE DEF ids
  <2> QED  BY <2>1 DEF CancelRuntimes, HeldInv, DaemonOK
<1>5. CASE HandleAck
  <2> DEFINE d == Head(toDaemon).dispatch
  <2>1. active' = active \ {d} /\ UNCHANGED <<runtime, refusing>>
    BY <1>5 DEF HandleAck
  <2>2. Head(toDaemon) \in ToSet(toDaemon) /\ Head(toDaemon).type = "ack"
    BY <1>5, HeadAndTail DEF HandleAck, Take, WireOK
  <2>3. runtime[d] \in {"completed", "failed"}
    BY <2>2 DEF AnswerInv
  <2> QED  BY <2>1, <2>3 DEF HeldInv
<1>6. ASSUME NEW d \in Dispatches,
             \/ Refuse(d) \/ Accept(d) \/ Start(d)
             \/ \E how \in {"completed", "failed"} : End(d, how)
      PROVE  HeldInv'
  BY <1>6 DEF Refuse, Accept, Start, End, HeldInv, DaemonOK
<1>7. CASE DaemonRestarts
  BY <1>7 DEF DaemonRestarts, HeldInv, Live, DaemonOK
<1> QED
  BY <1>1, <1>2, <1>3, <1>4, <1>5, <1>6, <1>7
  DEF Next, vars, daemon, WorkerReceives, WorkerTimers, DaemonReceives, DaemonWorks,
      Execute, Dispatch, AcceptTimesOut, GraceExpires, WatchdogCancels, WatchdogForces,
      ReceiveAccepted, ReceiveRejected, ReceiveEnded, ReceiveLost, Receive,
      Connect, HandleHello, Drop, WorkerRestarts

\* What the server sends that is an ack or an answer to a hello.
AnswerMoves ==
  \A f \in ToSet(toDaemon') :
    \/ f \in ToSet(toDaemon)
    \/ f.type \notin {"ack", "hello_ok"}
    \/ ReceiveEnded /\ f = Frame("ack", Head(toServer).dispatch)
    \/ HandleHello /\ f = HelloOk(Registered \cap hello, Unowned(hello))

LEMMA AnswersSent ==
  ASSUME TypeInv, FreshInv, [Next]_vars
  PROVE  AnswerMoves
<1> USE DEF TypeInv
<1>1. ASSUME UNCHANGED toDaemon PROVE AnswerMoves
  BY <1>1 DEF AnswerMoves
<1>2. ASSUME Disconnect PROVE AnswerMoves
  BY <1>2, Empty DEF AnswerMoves, Disconnect
<1>3. ASSUME NEW f \in ServerFrame, SendToServer(<<f>>) PROVE AnswerMoves
  BY <1>3, SendsToServer, Empty DEF AnswerMoves
<1>4. ASSUME NEW type, Take(type), NEW frames, Reply(frames) PROVE AnswerMoves
  <2>1. toDaemon # <<>> /\ toDaemon' = Tail(toDaemon)
    BY <1>4 DEF Take, Reply
  <2> QED  BY <2>1, HeadAndTail DEF WireOK, AnswerMoves
<1>5. ASSUME NEW d \in Dispatches, NEW t \in {"cancel", "dispatch"}, SendToDaemon(<<Frame(t, d)>>)
      PROVE  AnswerMoves
  <2> DEFINE f == Frame(t, d)
  <2>1. f \in DaemonFrame /\ f.type \notin {"ack", "hello_ok"}
    BY Frames DEF Frame
  <2>2. toDaemon' = toDaemon \o <<f>>
    BY <1>5 DEF SendToDaemon
  <2> HIDE DEF f
  <2>3. ToSet(toDaemon') = ToSet(toDaemon) \cup {f}
    BY <2>1, <2>2, ConcatOne DEF WireOK
  <2> QED  BY <2>1, <2>3 DEF AnswerMoves
<1>6. ASSUME ReceiveEnded PROVE AnswerMoves
  <2> DEFINE f == Frame("ack", Head(toServer).dispatch)
  <2>1. Head(toServer).dispatch \in Dispatches /\ toDaemon' = Append(toDaemon, f)
    BY <1>6, Received DEF ReceiveEnded
  <2>2. f \in DaemonFrame /\ f.type # "dispatch"
    BY <2>1, Frames DEF Frame
  <2> HIDE DEF f
  <2>3. toDaemon' = toDaemon \o <<f>>
    BY <2>1, <2>2, OnceAppend DEF WireOK, FreshInv
  <2>4. ToSet(toDaemon') = ToSet(toDaemon) \cup {f}
    BY <2>2, <2>3, ConcatOne DEF WireOK
  <2> QED  BY <1>6, <2>4 DEF AnswerMoves, f
<1>7. ASSUME HandleHello PROVE AnswerMoves
  <2> DEFINE f == HelloOk(Registered \cap hello, Unowned(hello))
  <2>1. toDaemon' = <<f>>
    BY <1>7 DEF HandleHello
  <2> HIDE DEF f
  <2>2. ToSet(<<f>>) = {f}
    BY Singleton
  <2> QED  BY <1>7, <2>1, <2>2 DEF AnswerMoves, f
<1> QED
  <2>1. ASSUME NEW d \in Dispatches, Refuse(d) \/ Accept(d) PROVE AnswerMoves
    BY <2>1, <1>3, Frames DEF Refuse, Accept
  <2>2. ASSUME NEW d \in Dispatches, NEW how \in {"completed", "failed"}, End(d, how)
        PROVE  AnswerMoves
    BY <2>2, <1>3, Frames DEF End
  <2>3. ASSUME NEW d \in Dispatches,
               \/ Execute(d) \/ AcceptTimesOut(d) \/ GraceExpires(d) \/ Start(d)
               \/ Dispatch(d) \/ WatchdogCancels(d) \/ WatchdogForces(d)
        PROVE  AnswerMoves
    BY <2>3, <1>1, <1>5 DEF Execute, AcceptTimesOut, GraceExpires, Start, Dispatch,
                            WatchdogCancels, WatchdogForces, wire
  <2>4. ASSUME ReceiveAccepted \/ ReceiveRejected \/ ReceiveLost PROVE AnswerMoves
    BY <2>4, <1>1 DEF ReceiveAccepted, ReceiveRejected, ReceiveLost, Receive
  <2>5. ASSUME HandleDispatch \/ HandleCancel \/ HandleAck \/ HandleHelloOk PROVE AnswerMoves
    BY <2>5, <1>4 DEF HandleDispatch, HandleCancel, HandleAck, HandleHelloOk
  <2>6. ASSUME \/ Drop \/ WorkerRestarts \/ DaemonRestarts \/ Connect \/ UNCHANGED vars
        PROVE  AnswerMoves
    BY <2>6, <1>1, <1>2 DEF Drop, WorkerRestarts, DaemonRestarts, Connect, vars, wire
  <2> QED
    BY <1>6, <1>7, <2>1, <2>2, <2>3, <2>4, <2>5, <2>6
    DEF Next, WorkerReceives, WorkerTimers, DaemonReceives, DaemonWorks

LEMMA AnswerStep ==
  ASSUME IInv, Moves, StreamMoves, AnswerMoves, AnswerInv
  PROVE  AnswerInv'
<1> USE DEF IInv, TypeInv
<1>1. Fresh' \subseteq Fresh
  BY FreshShrinks DEF Moves
<1>2. (Registered \cup Fresh)' \subseteq Registered \cup Fresh
  <2>1. ASSUME NEW d \in Dispatches, adapter'[d] \in {"registered", "sent", "streaming"}
        PROVE  d \in Registered \cup Fresh
    BY <2>1 DEF StreamMoves, Registered, Fresh
  <2> QED  BY <1>1, <2>1 DEF Registered
<1>3. ASSUME NEW d \in Dispatches, runtime[d] \in {"completed", "failed"}
      PROVE  runtime'[d] = runtime[d]
  <2>1. d \notin Fresh
    BY <1>3 DEF FreshInv
  <2> QED  BY <1>3, <2>1 DEF Moves, DaemonMoves, Settled
<1>4. ASSUME NEW f \in ToSet(toDaemon'), f.type = "ack"
      PROVE  runtime'[f.dispatch] \in {"completed", "failed"}
  <2>1. CASE f \in ToSet(toDaemon)
    <3>1. f.dispatch \in Dispatches
      BY <1>4, <2>1, Elements, FrameFields DEF WireOK
    <3> QED  BY <1>3, <1>4, <2>1, <3>1 DEF AnswerInv
  <2>2. CASE ReceiveEnded /\ f = Frame("ack", Head(toServer).dispatch)
    <3> DEFINE g == Head(toServer)
    <3>1. /\ g.dispatch \in Dispatches /\ g \in ToSet(toServer) /\ g.type = "ended"
          /\ g.how \in {"completed", "failed"}
      BY <2>2, Received DEF ReceiveEnded
    <3>2. runtime[g.dispatch] \in {"completed", "failed"}
      BY <3>1 DEF NewsInv
    <3> QED  BY <1>3, <2>2, <3>1, <3>2 DEF Frame
  <2> QED  BY <1>4, <2>1, <2>2 DEF AnswerMoves, HelloOk
<1>5. ASSUME NEW f \in ToSet(toDaemon'), f.type = "hello_ok"
      PROVE  f.cancel \cap (Registered \cup Fresh)' = {}
  <2>1. CASE f \in ToSet(toDaemon)
    BY <1>2, <1>5, <2>1 DEF AnswerInv
  <2>2. CASE f = HelloOk(Registered \cap hello, Unowned(hello))
    <3>1. hello \cap Fresh = {}
      BY DEF FreshInv
    <3>2. f.cancel = hello \ Registered
      BY <2>2 DEF HelloOk, Unowned
    <3> QED  BY <1>2, <3>1, <3>2
  <2> QED  BY <1>5, <2>1, <2>2 DEF AnswerMoves, Frame
<1> QED  BY <1>4, <1>5 DEF AnswerInv

LEMMA OrderStep ==
  ASSUME IInv, ServerLine, OrderInv
  PROVE  OrderInv'
<1> USE DEF IInv, TypeInv
<1>1. toServer \in Seq(ServerFrame) /\ Len(toServer) \in Nat /\ DOMAIN toServer = 1..Len(toServer)
  BY LenProperties DEF WireOK
<1>2. CASE toServer' = toServer
  BY <1>2 DEF OrderInv
<1>3. CASE toServer' = <<>>
  BY <1>3 DEF OrderInv
<1>4. CASE toServer # <<>> /\ toServer' = Tail(toServer)
  <2>1. /\ Len(toServer') = Len(toServer) - 1
        /\ \A i \in 1..Len(toServer) - 1 : toServer'[i] = toServer[i + 1]
    BY <1>1, <1>4, HeadAndTail
  <2> SUFFICES ASSUME NEW i \in 1..Len(toServer) - 1, NEW j \in 1..Len(toServer) - 1, i < j,
                      toServer[i + 1].type = "ended", toServer[j + 1].type = "accepted"
               PROVE  toServer[i + 1].dispatch # toServer[j + 1].dispatch
    BY <2>1 DEF OrderInv
  <2>2. i + 1 \in 1..Len(toServer) /\ j + 1 \in 1..Len(toServer) /\ i + 1 < j + 1
    BY <1>1
  <2> QED  BY <2>2 DEF OrderInv
<1>5. ASSUME NEW frames \in Seq(ServerFrame), toServer' = toServer \o frames,
             \A f \in ToSet(frames) : f.type = "accepted" =>
               \A g \in ToSet(toServer) : g.type = "ended" => g.dispatch # f.dispatch,
             \A i, j \in 1..Len(frames) :
               ~(frames[i].type = "ended" /\ frames[j].type = "accepted")
      PROVE  OrderInv'
  <2>1. /\ Len(toServer') = Len(toServer) + Len(frames)
        /\ \A i \in 1..Len(toServer) + Len(frames) :
             toServer'[i] = IF i <= Len(toServer) THEN toServer[i] ELSE frames[i - Len(toServer)]
    BY <1>1, <1>5, ConcatProperties
  <2>2. Len(frames) \in Nat /\ DOMAIN frames = 1..Len(frames)
    BY LenProperties
  <2> SUFFICES ASSUME NEW i \in 1..Len(toServer'), NEW j \in 1..Len(toServer'), i < j,
                      toServer'[i].type = "ended", toServer'[j].type = "accepted"
               PROVE  toServer'[i].dispatch # toServer'[j].dispatch
    BY DEF OrderInv
  <2>3. CASE j <= Len(toServer)
    BY <1>1, <2>1, <2>2, <2>3 DEF OrderInv
  <2>4. CASE ~(j <= Len(toServer)) /\ i <= Len(toServer)
    <3>1. j - Len(toServer) \in 1..Len(frames) /\ i \in 1..Len(toServer)
      BY <1>1, <2>1, <2>2, <2>4
    <3>2. /\ toServer'[j] = frames[j - Len(toServer)] /\ toServer'[i] = toServer[i]
      BY <2>1, <2>4
    <3>3. toServer'[j] \in ToSet(frames) /\ toServer'[i] \in ToSet(toServer)
      BY <1>1, <2>2, <3>1, <3>2 DEF ToSet
    <3> QED  BY <1>5, <3>3
  <2>5. CASE ~(j <= Len(toServer)) /\ ~(i <= Len(toServer))
    <3>1. j - Len(toServer) \in 1..Len(frames) /\ i - Len(toServer) \in 1..Len(frames)
      BY <1>1, <2>1, <2>2, <2>5
    <3> QED  BY <1>5, <2>1, <2>5, <3>1
  <2> QED  BY <2>3, <2>4, <2>5
<1>6. ASSUME NEW frames \in Seq(ServerFrame), toServer' = toServer \o frames,
             \A f \in ToSet(frames) : f.type # "accepted"
      PROVE  OrderInv'
  <2>1. \A j \in 1..Len(frames) : frames[j] \in ToSet(frames)
    BY LenProperties DEF ToSet
  <2> QED  BY <1>5, <1>6, <2>1
<1>7. ASSUME NEW d \in Dispatches, Accept(d), toServer' = toServer \o <<Frame("accepted", d)>>
      PROVE  OrderInv'
  <2> DEFINE f == Frame("accepted", d)
  <2>1. f \in ServerFrame /\ f.type = "accepted" /\ f.dispatch = d
    BY Frames DEF Frame
  <2>2. \A g \in ToSet(toServer) : g.type = "ended" => g.dispatch # d
    <3> SUFFICES ASSUME NEW g \in ToSet(toServer), g.type = "ended", g.dispatch = d PROVE FALSE
      OBVIOUS
    <3>1. g.how \in {"completed", "failed"} /\ runtime[d] = g.how
      BY Elements, FrameFields DEF WireOK, NewsInv
    <3> QED  BY <1>7, <3>1 DEF Accept
  <2> HIDE DEF f
  <2>3. /\ <<f>> \in Seq(ServerFrame) /\ ToSet(<<f>>) = {f}
        /\ \A i \in 1..Len(<<f>>) : <<f>>[i] = f
    BY <2>1, Singleton
  <2> QED  BY <1>5, <1>7, <2>1, <2>2, <2>3 DEF f
<1> QED  BY <1>2, <1>3, <1>4, <1>6, <1>7 DEF ServerLine

\* What feeds d does so after a step that spares it.
LEMMA FedStays ==
  ASSUME NEW d, Fed(d),
         d \in active /\ runtime[d] \in {"starting", "running", "stopping"} =>
           d \in active' /\ runtime'[d] \in {"starting", "running", "stopping"},
         \A f \in ToSet(toServer) :
           f.dispatch = d /\ f.type \in {"ended", "lost"} => f \in ToSet(toServer'),
         \A f \in ToSet(toDaemon) :
           f.type = "hello_ok" /\ d \in f.resume => f \in ToSet(toDaemon')
  PROVE  Fed(d)'
BY DEF Fed

\* Whose stream is read was begun, and nobody sends it a cancel for good.
LEMMA ReadIsBegun ==
  ASSUME IInv, BegunInv, AnswerInv, NEW d \in Dispatches, Read(d)
  PROVE  /\ Begun(d) /\ d \in Registered /\ d \notin Fresh
         /\ \A f \in ToSet(toDaemon) : f.type = "hello_ok" => d \notin f.cancel
<1>1. Begun(d) /\ d \in Registered
  BY DEF Read, BegunInv, Registered
<1>2. d \notin Fresh
  BY <1>1 DEF IInv, FreshInv, Begun
<1> QED  BY <1>1, <1>2 DEF AnswerInv

\* Whose stream is read was read before, or was accepted just now.
LEMMA ReadBefore ==
  ASSUME IInv, StreamMoves, ServerLine, NEW d \in Dispatches, Read(d)', link' = "up"
  PROVE  \/ Read(d)
         \/ Accept(d)
<1> USE DEF IInv, TypeInv
<1>1. ASSUME adapter[d] = "sent", d \notin doomed,
             NEW f \in ToSet(toServer), f.type = "accepted", f.dispatch = d
      PROVE  Read(d)
  BY <1>1 DEF Read
<1>2. CASE adapter'[d] = "streaming"
  <2>1. CASE adapter[d] = "streaming"
    BY <2>1 DEF Read
  <2>2. CASE ReceiveAccepted /\ Head(toServer).dispatch = d /\ adapter[d] = "sent" /\ d \notin doomed
    <3>1. Head(toServer) \in ToSet(toServer) /\ Head(toServer).type = "accepted"
      BY <2>2, Received DEF ReceiveAccepted
    <3> QED  BY <1>1, <2>2, <3>1
  <2> QED  BY <1>2, <2>1, <2>2 DEF StreamMoves
<1>3. CASE /\ adapter'[d] = "sent" /\ d \notin doomed'
           /\ \E f \in ToSet(toServer') : f.type = "accepted" /\ f.dispatch = d
  <2>1. d \notin doomed /\ (adapter[d] = "sent" \/ d \in Unsent)
    BY <1>3 DEF StreamMoves
  <2>2. ASSUME NEW f \in ToSet(toServer), f.type = "accepted", f.dispatch = d PROVE Read(d)
    <3>1. d \notin Unsent
      BY <2>2 DEF FreshInv, Fresh
    <3> QED  BY <1>1, <2>1, <2>2, <3>1
  <2>3. PICK f \in ToSet(toServer') : f.type = "accepted" /\ f.dispatch = d
    BY <1>3
  <2>4. CASE toServer' = toServer
    BY <2>2, <2>3, <2>4
  <2>5. CASE toServer' = <<>>
    BY <2>3, <2>5, Empty
  <2>6. CASE toServer # <<>> /\ toServer' = Tail(toServer)
    BY <2>2, <2>3, <2>6, HeadAndTail DEF WireOK
  <2>7. ASSUME NEW frames \in Seq(ServerFrame), toServer' = toServer \o frames,
               \A g \in ToSet(frames) : g.type # "accepted"
        PROVE  Read(d)
    <3>1. ToSet(toServer') = ToSet(toServer) \cup ToSet(frames)
      BY <2>7, Concat DEF WireOK
    <3> QED  BY <2>2, <2>3, <2>7, <3>1
  <2>8. ASSUME NEW e \in Dispatches, Accept(e), toServer' = toServer \o <<Frame("accepted", e)>>
        PROVE  Read(d) \/ Accept(d)
    <3>1. ToSet(toServer') = ToSet(toServer) \cup {Frame("accepted", e)}
      BY <2>8, ConcatOne, Frames DEF WireOK
    <3> QED  BY <2>2, <2>3, <2>8, <3>1 DEF Frame
  <2> QED  BY <2>4, <2>5, <2>6, <2>7, <2>8 DEF ServerLine
<1> QED  BY <1>2, <1>3 DEF Read

\* While the connection holds, steps of the worker take no food from a stream
\* that is still read after them.
LEMMA FedByWorker ==
  ASSUME IInv, OrderInv, NEW d \in Dispatches, Read(d)', Fed(d), link = "up",
         \/ WorkerReceives \/ WorkerTimers \/ UNCHANGED vars
         \/ \E e \in Dispatches : Execute(e) \/ WatchdogForces(e)
  PROVE  Fed(d)'
<1> USE DEF IInv, TypeInv
<1>1. ASSUME UNCHANGED <<daemon, toServer>>,
             \/ toDaemon' = toDaemon
             \/ \E e \in Dispatches, t \in {"dispatch", "cancel"} :
                  toDaemon' = toDaemon \o <<Frame(t, e)>>
      PROVE  Fed(d)'
  <2>1. ASSUME NEW f \in DaemonFrame, toDaemon' = toDaemon \o <<f>>
        PROVE  ToSet(toDaemon) \subseteq ToSet(toDaemon')
    BY <2>1, ConcatOne DEF WireOK
  <2>2. ToSet(toDaemon) \subseteq ToSet(toDaemon')
    BY <1>1, <2>1, Frames
  <2> QED  BY <1>1, <2>2, FedStays DEF daemon
<1>2. ASSUME NEW type, Receive(type)
      PROVE  /\ UNCHANGED daemon /\ toServer # <<>> /\ toServer' = Tail(toServer)
             /\ Head(toServer).type = type /\ Head(toServer).dispatch \in Dispatches
             /\ \A f \in ToSet(toServer) : f = Head(toServer) \/ f \in ToSet(toServer')
  BY <1>2, Received, HeadOrTail DEF Receive, WireOK
<1>3. CASE ReceiveAccepted \/ ReceiveRejected
  <2>1. UNCHANGED toDaemon /\ \E type \in {"accepted", "rejected"} : Receive(type)
    BY <1>3 DEF ReceiveAccepted, ReceiveRejected
  <2> QED  BY <1>2, <2>1, FedStays DEF daemon
<1>4. CASE ReceiveEnded
  <2> DEFINE e == Head(toServer).dispatch
             a == Frame("ack", e)
  <2>1. /\ Receive("ended") /\ toDaemon' = Append(toDaemon, a)
        /\ IF adapter[e] = "streaming" THEN Finish(e, Head(toServer).how) ELSE UNCHANGED worker
    BY <1>4 DEF ReceiveEnded
  <2>2. a \in DaemonFrame /\ a.type # "dispatch"
    BY <1>2, <2>1, Frames DEF Frame
  <2> HIDE DEF a
  <2>3. toDaemon' = toDaemon \o <<a>>
    BY <2>1, <2>2, OnceAppend DEF WireOK, FreshInv
  <2>4. ToSet(toDaemon) \subseteq ToSet(toDaemon')
    BY <2>2, <2>3, ConcatOne DEF WireOK
  <2>5. e # d
    <3> SUFFICES ASSUME e = d PROVE FALSE
      OBVIOUS
    <3>1. adapter[d] # "streaming" /\ UNCHANGED worker
      BY <2>1 DEF Finish, Read, WorkerOK
    <3>2. \E f \in ToSet(toServer') : f.type = "accepted" /\ f.dispatch = d
      BY <3>1 DEF Read, worker
    <3>3. toServer \in Seq(ServerFrame) /\ toServer # <<>> /\ toServer' = Tail(toServer)
      BY <1>2, <2>1 DEF WireOK
    <3>4. Len(toServer) \in Nat \ {0} /\ Head(toServer) = toServer[1]
      BY <3>3, EmptySeq, LenProperties
    <3>5. /\ toServer' \in Seq(ServerFrame) /\ Len(toServer') = Len(toServer) - 1
          /\ \A i \in 1..Len(toServer) - 1 : toServer'[i] = toServer[i + 1]
      BY <3>3, HeadAndTail
    <3>6. PICK i \in 1..Len(toServer) - 1 :
            toServer[i + 1].type = "accepted" /\ toServer[i + 1].dispatch = d
      BY <3>2, <3>5, Elements
    <3>7. i + 1 \in 1..Len(toServer) /\ 1 \in 1..Len(toServer) /\ 1 < i + 1
      BY <3>4
    <3>8. toServer[1].type = "ended" /\ toServer[1].dispatch = d
      BY <1>2, <2>1, <3>4
    <3> QED  BY <3>6, <3>7, <3>8 DEF OrderInv
  <2> QED  BY <1>2, <2>1, <2>4, <2>5, FedStays DEF daemon
<1>5. CASE ReceiveLost
  <2> DEFINE e == Head(toServer).dispatch
  <2>1. /\ Receive("lost") /\ UNCHANGED toDaemon
        /\ IF e \in Registered THEN FailStreams({e}, "lost") ELSE UNCHANGED worker
    BY <1>5 DEF ReceiveLost
  <2>2. e # d
    <3> SUFFICES ASSUME e = d PROVE FALSE
      OBVIOUS
    <3>1. CASE d \notin Registered
      BY <2>1, <3>1 DEF Read, worker, Registered
    <3>2. CASE d \in Registered
      <4>1. /\ adapter'[d] = IF adapter[d] = "streaming" THEN "over" ELSE adapter[d]
            /\ adapter[d] # "streaming" => d \in doomed'
        BY <2>1, <3>2 DEF FailStreams
      <4> QED  BY <4>1 DEF Read
    <3> QED  BY <3>1, <3>2
  <2> QED  BY <1>2, <2>1, <2>2, FedStays DEF daemon
<1>6. ASSUME NEW e \in Dispatches,
             \/ Execute(e) \/ WatchdogForces(e) \/ Dispatch(e) \/ AcceptTimesOut(e)
             \/ GraceExpires(e) \/ WatchdogCancels(e)
      PROVE  Fed(d)'
  BY <1>1, <1>6 DEF Execute, WatchdogForces, Dispatch, AcceptTimesOut, GraceExpires,
                    WatchdogCancels, SendToDaemon, wire
<1>7. CASE UNCHANGED vars
  BY <1>1, <1>7 DEF vars, wire
<1> QED  BY <1>3, <1>4, <1>5, <1>6, <1>7 DEF WorkerReceives, WorkerTimers

\* Nor do the daemon's: what stops running has sent its terminal event, and the
\* answer to a hello is traded for the event or the loss it asks for.
LEMMA FedByDaemon ==
  ASSUME IInv, Moves, AnswerInv, BegunInv, NEW d \in Dispatches, Read(d), Fed(d), link = "up",
         \/ DaemonReceives \/ DaemonWorks
         \/ \E e \in Dispatches : \E how \in {"completed", "failed"} : End(e, how)
  PROVE  Fed(d)'
<1> USE DEF IInv, TypeInv
<1>1. /\ Begun(d) /\ d \notin Fresh
      /\ \A f \in ToSet(toDaemon) : f.type = "hello_ok" => d \notin f.cancel
  BY ReadIsBegun
<1>2. ASSUME NEW f \in ServerFrame, SendToServer(<<f>>)
      PROVE  UNCHANGED toDaemon /\ ToSet(toServer') = ToSet(toServer) \cup {f}
  <2>1. UNCHANGED toDaemon /\ toServer' = toServer \o <<f>>
    BY <1>2 DEF SendToServer
  <2> QED  BY <2>1, ConcatOne DEF WireOK
<1>3. ASSUME NEW type, Take(type), NEW frames \in Seq(ServerFrame), Reply(frames)
      PROVE  /\ ToSet(toServer') = ToSet(toServer) \cup ToSet(frames)
             /\ Head(toDaemon) \in ToSet(toDaemon) /\ Head(toDaemon).type = type
             /\ \A f \in ToSet(toDaemon) : f = Head(toDaemon) \/ f \in ToSet(toDaemon')
  BY <1>3, Replies, HeadOrTail DEF WireOK
<1>4. <<>> \in Seq(ServerFrame) /\ ToSet(<<>>) = {}
  BY Empty
<1>5. CASE HandleDispatch
  <2> DEFINE e == Head(toDaemon).dispatch
             f == Frame("rejected", e)
  <2>1. Take("dispatch") /\ e \in Dispatches /\ e # d
    BY <1>1, <1>5, DispatchedOnce DEF Moves, HandleDispatch
  <2>2. f \in ServerFrame
    BY <2>1, Frames
  <2> HIDE DEF f
  <2>3. <<f>> \in Seq(ServerFrame)
    BY <2>2, Singleton
  <2>4. CASE Reply(<<f>>) /\ UNCHANGED daemon
    BY <1>3, <2>1, <2>3, <2>4, FedStays DEF daemon
  <2>5. CASE /\ active' = active \cup {e} /\ runtime' = [runtime EXCEPT ![e] = "preparing"]
             /\ Reply(<<>>)
    <3>1. (d \in active => d \in active') /\ runtime'[d] = runtime[d]
      BY <2>1, <2>5 DEF DaemonOK
    <3>2. /\ ToSet(toServer) \subseteq ToSet(toServer')
          /\ \A g \in ToSet(toDaemon) : g.type # "hello_ok" \/ g \in ToSet(toDaemon')
      BY <1>3, <1>4, <2>1, <2>5
    <3> QED  BY <3>1, <3>2, FedStays
  <2> QED  BY <1>5, <2>4, <2>5 DEF HandleDispatch, f
<1>6. CASE HandleCancel
  <2>1. Take("cancel") /\ Reply(<<>>) /\ UNCHANGED active
    BY <1>6 DEF HandleCancel
  <2>2. runtime[d] \in {"starting", "running", "stopping"} =>
          runtime'[d] \in {"starting", "running", "stopping"}
    BY <1>6 DEF HandleCancel, CancelRuntimes
  <2> QED  BY <1>3, <1>4, <2>1, <2>2, FedStays
<1>7. CASE HandleAck
  <2> DEFINE e == Head(toDaemon).dispatch
  <2>1. Take("ack") /\ Reply(<<>>) /\ active' = active \ {e} /\ UNCHANGED runtime
    BY <1>7 DEF HandleAck
  <2>2. runtime[e] \in {"completed", "failed"}
    BY <1>3, <1>4, <2>1 DEF AnswerInv
  <2> QED  BY <1>3, <1>4, <2>1, <2>2, FedStays
<1>8. CASE HandleHelloOk
  <2> DEFINE ok == Head(toDaemon)
             frames == ReportLost(ok.resume)
                \o SetToSeq({Ended(e, runtime[e]) : e \in ok.resume \cap active \cap unacked})
  <2>1. /\ Take("hello_ok") /\ Reply(frames) /\ frames \in Seq(ServerFrame)
        /\ \A e \in ok.resume \ RunningDispatchIds : Frame("lost", e) \in ToSet(frames)
        /\ \A e \in ok.resume \cap active \cap unacked : Ended(e, runtime[e]) \in ToSet(frames)
    BY <1>8, HelloFrames
  <2>2. CancelRuntimes(ok.cancel \cap active) /\ active' = active \ ok.cancel
    BY <1>8 DEF HandleHelloOk
  <2> HIDE DEF frames
  <2>3. /\ ToSet(toServer') = ToSet(toServer) \cup ToSet(frames)
        /\ \A f \in ToSet(toDaemon) : f = ok \/ f \in ToSet(toDaemon')
        /\ d \notin ok.cancel
    BY <1>1, <1>3, <2>1
  <2>4. d \in active => d \in active'
    BY <2>2, <2>3
  <2>5. runtime[d] \in {"starting", "running", "stopping"} =>
          runtime'[d] \in {"starting", "running", "stopping"}
    BY <2>2 DEF CancelRuntimes
  <2>6. CASE d \notin ok.resume
    BY <2>3, <2>4, <2>5, <2>6, FedStays
  <2>7. CASE d \in ok.resume \ RunningDispatchIds
    <3>1. Frame("lost", d) \in ToSet(toServer')
      BY <2>1, <2>3, <2>7
    <3> QED  BY <3>1 DEF Fed, Frame
  <2>8. CASE d \in ok.resume \cap active \cap unacked
    <3>1. Ended(d, runtime[d]) \in ToSet(toServer')
      BY <2>1, <2>3, <2>8
    <3> QED  BY <3>1 DEF Fed, Ended
  <2>9. CASE d \in active \cap Live
    <3>1. runtime[d] \in {"starting", "running", "stopping"}
      BY <1>1, <2>9 DEF Live, Begun
    <3> QED  BY <2>4, <2>5, <2>9, <3>1 DEF Fed
  <2> QED  BY <2>6, <2>7, <2>8, <2>9 DEF RunningDispatchIds
<1>9. ASSUME NEW e \in Dispatches, Refuse(e) \/ Accept(e) PROVE Fed(d)'
  <2>1. e # d
    BY <1>1, <1>9 DEF Refuse, Accept, Begun
  <2>2. \E f \in ServerFrame : SendToServer(<<f>>)
    BY <1>9, Frames DEF Refuse, Accept
  <2>3. UNCHANGED toDaemon /\ ToSet(toServer) \subseteq ToSet(toServer')
    BY <1>2, <2>2
  <2>4. (d \in active => d \in active') /\ runtime'[d] = runtime[d]
    BY <1>9, <2>1 DEF Refuse, Accept, DaemonOK
  <2> QED  BY <2>3, <2>4, FedStays
<1>10. ASSUME NEW e \in Dispatches, Start(e) PROVE Fed(d)'
  <2>1. UNCHANGED <<wire, active>> /\ runtime' = [runtime EXCEPT ![e] = "running"]
    BY <1>10 DEF Start
  <2> QED  BY <2>1, FedStays DEF wire, DaemonOK
<1>11. ASSUME NEW e \in Dispatches, NEW how \in {"completed", "failed"}, End(e, how) PROVE Fed(d)'
  <2> DEFINE f == Ended(e, how)
  <2>1. /\ SendToServer(<<f>>) /\ UNCHANGED active /\ runtime' = [runtime EXCEPT ![e] = how]
        /\ f \in ServerFrame
    BY <1>11, Frames DEF End
  <2>2. UNCHANGED toDaemon /\ ToSet(toServer') = ToSet(toServer) \cup {f}
    BY <1>2, <2>1
  <2>3. CASE e = d
    <3>1. f \in ToSet(toServer') /\ f.dispatch = d /\ f.type = "ended"
      BY <2>2, <2>3 DEF Ended
    <3> QED  BY <3>1 DEF Fed
  <2>4. CASE e # d
    BY <2>1, <2>2, <2>4, FedStays DEF DaemonOK
  <2> QED  BY <2>3, <2>4
<1> QED
  BY <1>5, <1>6, <1>7, <1>8, <1>9, <1>10, <1>11 DEF DaemonReceives, DaemonWorks

LEMMA FedStep ==
  ASSUME IInv, Moves, FeedInv, StreamMoves, ServerLine, [Next]_vars
  PROVE  FedInv'
<1> USE DEF IInv, TypeInv, FeedInv
<1> SUFFICES ASSUME NEW d \in Dispatches, Read(d)', link' = "up" PROVE Fed(d)'
  BY DEF FedInv, Fed, Read
<1>1. Read(d) \/ Accept(d)
  BY ReadBefore
<1>2. CASE Accept(d)
  <2>1. d \in active' /\ runtime'[d] = "starting"
    BY <1>2 DEF Accept, HeldInv, DaemonOK
  <2> QED  BY <2>1 DEF Fed
<1>3. CASE Read(d) /\ HandleHello
  <2> DEFINE f == HelloOk(Registered \cap hello, Unowned(hello))
  <2>1. link = "hello" /\ toDaemon' = <<f>> /\ UNCHANGED toServer /\ FailStreams(Missing, "lost")
    BY <1>3 DEF HandleHello
  <2>2. toServer' = <<>>
    BY <2>1 DEF WireOK
  <2>3. adapter'[d] = "streaming"
    BY <2>2, Empty DEF Read
  <2>4. d \in Registered \cap hello
    BY <2>1, <2>3 DEF FailStreams, Missing, Registered
  <2>5. f \in ToSet(toDaemon') /\ f.type = "hello_ok" /\ d \in f.resume
    BY <2>1, <2>4, Singleton DEF HelloOk
  <2> QED  BY <2>5 DEF Fed
<1>4. CASE Read(d) /\ ~HandleHello
  <2>1. ~(Connect \/ Drop \/ WorkerRestarts \/ DaemonRestarts)
    BY DEF Connect, Drop, WorkerRestarts, DaemonRestarts, Disconnect
  <2>2. link = "up"
    <3>1. ASSUME NEW frames, SendToServer(frames) PROVE link = "up"
      BY <3>1 DEF SendToServer, Disconnect, wire
    <3> QED
      BY <1>4, <2>1, <3>1
      DEF Next, vars, wire, WorkerReceives, WorkerTimers, DaemonReceives, DaemonWorks,
          Execute, Dispatch, AcceptTimesOut, GraceExpires, WatchdogCancels, WatchdogForces,
          SendToDaemon, ReceiveAccepted, ReceiveRejected, ReceiveEnded, ReceiveLost, Receive,
          HandleDispatch, HandleCancel, HandleAck, HandleHelloOk, Take, Reply,
          Refuse, Accept, Start, End
  <2>3. Fed(d)
    BY <1>4, <2>2 DEF FedInv
  <2> QED  BY <1>4, <2>1, <2>2, <2>3, FedByWorker, FedByDaemon DEF Next
<1> QED  BY <1>1, <1>2, <1>3, <1>4

\* Streams are fed from the start and after every step.
LEMMA Feeding ==
  /\ Init => FeedInv
  /\ IInv /\ FeedInv /\ [Next]_vars => FeedInv'
<1>1. ASSUME Init PROVE FeedInv
  <2>1. ToSet(toDaemon) = {} /\ ToSet(toServer) = {} /\ Len(toServer) = 0
    BY <1>1, Empty DEF Init
  <2> QED  BY <1>1, <2>1 DEF Init, FeedInv, BegunInv, HeldInv, AnswerInv, OrderInv, FedInv
<1>2. ASSUME IInv, FeedInv, [Next]_vars PROVE FeedInv'
  <2> USE DEF IInv
  <2>1. WorkerMoves /\ DaemonMoves /\ HelloMoves /\ StreamMoves /\ ServerLine /\ AnswerMoves
    BY <1>2, WorkerStep, DaemonStep, HelloStep, StreamStep, LineStep, AnswersSent
  <2>2. WireMoves
    BY <1>2, <2>1, WireStep
  <2>3. ServerMoves
    BY <1>2, <2>1, <2>2, ServerStep
  <2>4. Moves
    BY <2>1, <2>2, <2>3 DEF Moves
  <2> QED
    BY <1>2, <2>1, <2>4, BegunStep, HeldStep, AnswerStep, OrderStep, FedStep DEF FeedInv
<1> QED  BY <1>1, <1>2

LEMMA Invariance == Spec => []IInv
<1> QED  BY Initially, Inductive, PTL DEF Spec

\* Every variable of DaemonDispatch keeps its type.
THEOREM TypeCorrect == Spec => []TypeOK
<1>1. IInv => TypeOK
  BY DEF IInv, TypeInv, WorkerOK, WireOK, DaemonOK, TypeOK, Registered, Live
<1> QED  BY <1>1, Invariance, PTL

\* The daemon never keeps track of more runtimes than its cap: a dispatch counts
\* from before its first await (handleDispatch, activeCount).
THEOREM CapHolds == Spec => []WithinCap
<1>1. IInv => WithinCap
  BY DEF IInv
<1> QED  BY <1>1, Invariance, PTL

\* The worker's user hears what happened on the machine, over any sequence of
\* lost connections and restarts (handleHello, onHelloOk, reconcileOnReconnect).
THEOREM TheTruthIsTold == Spec => []ToldTheTruth
<1>1. IInv => ToldTheTruth
  BY DEF IInv, ToldInv
<1> QED  BY <1>1, Invariance, PTL

\* While the machine is connected, what a turn reads will end: the daemon still
\* runs it, its end or its loss is on its way, or the answer to the hello is that
\* asks for one of them (handleHello, onHelloOk, reconcileOnReconnect, runLoop).
THEOREM StreamsAreFed == Spec => []StreamIsFed
<1>1. FeedInv => StreamIsFed
  BY DEF FeedInv, FedInv, Read, Fed, StreamIsFed
<1> QED  BY <1>1, Initially, Inductive, Feeding, PTL DEF Spec
=============================================================================
