---------------------------- MODULE SessionsProofs ----------------------------
(***************************************************************************)
(* Proofs about Sessions, for any messages and sessions.                   *)
(*                                                                         *)
(* The home of a topic is the session its root message was resolved to.    *)
(* As long as the bots agree on it, the ids of the topic lead there and    *)
(* nowhere else, only sessions opened under such an id are merged away,    *)
(* and a row is in the session its handler found or at home.  What is      *)
(* needed of sessions to exist holds in any case, and bots that disagree   *)
(* never agree again.                                                      *)
(***************************************************************************)
EXTENDS Sessions, SequenceTheorems, TLAPS

\* The ids and the sessions of the topic.
TopicIds == {RootId, Topic}
TopicThreads == {Thread(RootId), Thread(Topic)}

\* What a handler looks for.
LookInv ==
  \A m \in Messages :
    /\ at[m] # "new" => want[m] \in TopicThreads \cup {Boot(m)}
    /\ m \in Roots => at[m] \notin {"alias", "key"}
    /\ m \in Roots /\ at[m] # "new" => want[m] = Boot(m)
    /\ at[m] \in {"alias", "key"} => todo[m] # <<>>
    /\ at[m] \in {"alias", "key"} /\ want[m] # Boot(m) => todo[m] \in Seq(TopicIds)
    /\ at[m] = "pointer" => want[m] = Boot(m)

\* What it found.
FoundInv ==
  \A m \in Messages :
    /\ at[m] \in After => here[m] \in Keys /\ status[here[m]] # "absent"
    /\ at[m] = "quote" \/ delayed[m] => m \in Roots /\ at[m] \in After

\* An id that was not handed to an alias yet has none.
FreshInv ==
  \A m \in Messages :
    /\ at[m] \notin {"enqueue", "done"} =>
         alias[Ack(m)] = None /\ (m \in Replies => alias[Own(m)] = None)
    /\ turn[m] # "done" => alias[Sent(m)] = None

\* Sessions that something refers to exist.
ExistInv ==
  /\ \A i \in Ids : status[Thread(i)] # "absent" => i \in TopicIds
  /\ \A i \in Ids : alias[i] # None => status[alias[i]] # "absent"
  /\ pointer # None => status[pointer] # "absent"

\* The session of a turn exists, too.
WorkInv ==
  \A m \in Messages :
    turn[m] # "none" => at[m] = "done" /\ local[m] \in Keys /\ status[local[m]] # "absent"

\* A reply inside the topic found a session that was opened for the topic.
ThreadInv ==
  \A m \in Replies :
    at[m] \in After /\ want[m] # Boot(m) => here[m] \in TopicThreads \cup Homes

\* All roads lead home.
HomeInv ==
  /\ BotsAgree
  /\ \A i \in TopicIds : alias[i] \in {None} \cup Homes
  /\ merged \subseteq TopicThreads \ Homes
  /\ \A i \in TopicIds : Thread(i) \in merged => alias[i] # None

\* Rows are where their handler put them, or at home.
RowInv ==
  \A m \in Messages :
    /\ task[m] \in {None, here[m]} \cup Homes
    /\ message[m] \in {None, here[m]} \cup Homes
    /\ at[m] \notin After => task[m] = None /\ message[m] = None
    /\ at[m] \in {"task", "reply", "upgrade", "enqueue", "done"} => message[m] # None
    /\ at[m] \in {"reply", "upgrade", "enqueue", "done"} => task[m] # None

\* A turn works in the session of its job, or at home.
TurnInv ==
  \A m \in Messages :
    /\ turn[m] # "none" => local[m] \in {here[m]} \cup Homes
    /\ turn[m] = "start" => local[m] = here[m]
    /\ turn[m] \in {"adopt", "readopt"} => local[m] \in Homes
    /\ Started(m) => \A i \in TopicIds :
         here[m] = Thread(i) /\ alias[i] \notin {None, here[m]} => here[m] \in merged

\* A turn that has started left no row in a session that was merged away.
MovedInv ==
  \A m \in Messages : Started(m) => task[m] \notin merged /\ message[m] \notin merged

\* What holds whatever the bots do, ...
Base == LookInv /\ FoundInv /\ ExistInv /\ WorkInv

\* ... and as long as they agree.
Agreed == ThreadInv /\ FreshInv /\ HomeInv /\ RowInv /\ TurnInv /\ MovedInv

AllInv ==
  /\ TypeOK /\ LookInv /\ FoundInv /\ ExistInv /\ WorkInv
  /\ ThreadInv /\ FreshInv /\ HomeInv /\ RowInv /\ TurnInv /\ MovedInv

IInv == TypeOK /\ Base /\ (BotsAgree => Agreed)

(***************************************************************************)
(* Ids and keys                                                            *)
(***************************************************************************)
LEMMA IdFacts ==
  /\ RootId \in Ids /\ Topic \in Ids /\ RootId # Topic
  /\ \A r \in Roots : Own(r) = RootId
  /\ \A m \in Messages : {Own(m), Ack(m), Sent(m)} \subseteq Ids
  /\ \A m \in Messages : Ack(m) \notin TopicIds /\ Sent(m) \notin TopicIds
  /\ \A m \in Replies : Own(m) \notin TopicIds
  /\ \A m, n \in Messages :
       /\ Ack(m) = Ack(n) \/ Sent(m) = Sent(n) => m = n
       /\ Ack(m) # Sent(n) /\ Own(m) # Ack(n) /\ Own(m) # Sent(n)
  /\ \A m, n \in Replies : Own(m) = Own(n) => m = n
BY SessionsAssumption DEF TopicIds, Ids, RootId, Topic, Own, Ack, Sent, Messages

LEMMA KeyFacts ==
  /\ None \notin Keys
  /\ \A i \in Ids : Thread(i) \in Keys /\ Thread(i).kind = "thread" /\ Thread(i).id = i
  /\ \A i, j \in Ids : Thread(i) = Thread(j) => i = j
  /\ \A m \in Messages : Boot(m) \in Keys /\ Boot(m).kind # "thread"
  /\ \A r, q \in Roots : Boot(r) = Boot(q)
  /\ \A n \in Manuals : Manual(n) \in Keys /\ Manual(n).kind # "thread"
  /\ Main \in Keys /\ Main.kind # "thread"
  /\ \A s \in Keys : s.kind = "thread" => \E i \in Ids : s = Thread(i)
<1>1. \A i \in Ids : Thread(i) \in Keys /\ Thread(i).kind = "thread" /\ Thread(i).id = i
  BY DEF Keys, Thread
<1>2. \A i, j \in Ids : Thread(i) = Thread(j) => i = j  BY <1>1
<1>3. \A m \in Messages : Boot(m) \in Keys /\ Boot(m).kind # "thread"  BY DEF Keys, Boot
<1>4. \A r, q \in Roots : Boot(r) = Boot(q)  BY IdFacts DEF Boot
<1>5. \A n \in Manuals : Manual(n) \in Keys /\ Manual(n).kind # "thread"  BY DEF Keys, Manual
<1>6. Main \in Keys /\ Main.kind # "thread"  BY DEF Keys, Main
<1>7. \A s \in Keys : s.kind = "thread" => \E i \in Ids : s = Thread(i)
  BY <1>3, <1>5, <1>6 DEF Keys
<1> QED  BY <1>1, <1>2, <1>3, <1>4, <1>5, <1>6, <1>7, NoneAssumption

\* A session of the topic is one of two threads.
LEMMA TopicThread ==
  \A s : s \in TopicThreads <=> \E i \in TopicIds : s = Thread(i)
BY DEF TopicThreads, TopicIds

LEMMA Initially == Init => IInv
<1> SUFFICES ASSUME Init PROVE IInv  OBVIOUS
<1>1. TypeOK
  BY SessionsAssumption DEF Init, TypeOK, Sessions, ApiStep, TurnStep
<1>2. Homes = {}  BY DEF Init, Homes, After, Messages
<1>3. LookInv /\ FoundInv /\ WorkInv /\ ThreadInv /\ RowInv /\ TurnInv /\ MovedInv
  BY DEF Init, LookInv, FoundInv, WorkInv, ThreadInv, RowInv, TurnInv, MovedInv, After, Started,
         Messages
<1>4. FreshInv /\ ExistInv
  BY IdFacts, KeyFacts DEF Init, FreshInv, ExistInv
<1>5. HomeInv
  BY <1>2, IdFacts DEF Init, HomeInv, BotsAgree, TopicIds
<1> QED  BY <1>1, <1>3, <1>4, <1>5 DEF IInv, Base, Agreed

(***************************************************************************)
(* Types                                                                   *)
(***************************************************************************)
RowTypes ==
  /\ status \in [Keys -> {"absent", "active", "merged", "archived"}]
  /\ alias \in [Ids -> Sessions]
  /\ pointer \in Sessions
  /\ message \in [Messages -> Sessions] /\ task \in [Messages -> Sessions]
  /\ merged \subseteq Keys

LocalTypes ==
  /\ want \in [Messages -> Sessions] /\ here \in [Messages -> Sessions]
  /\ local \in [Messages -> Sessions]
  /\ at \in [Messages -> ApiStep]
  /\ todo \in [Messages -> Seq(Ids)]
  /\ delayed \in [Messages -> BOOLEAN]
  /\ turn \in [Messages -> TurnStep]
  /\ commands \in 0..MaxCommands /\ faults \in 0..MaxFaults

LEMMA TwoTypes == TypeOK <=> RowTypes /\ LocalTypes
BY DEF TypeOK, RowTypes, LocalTypes

LEMMA SameRows == RowTypes /\ UNCHANGED sessions => RowTypes'
BY DEF RowTypes, sessions, rows

LEMMA MergeTypes ==
  ASSUME RowTypes, NEW Old, Old \subseteq Keys, NEW s \in Keys, NEW I, I \subseteq Ids, Merge(Old, s, I)
  PROVE  RowTypes'
BY DEF RowTypes, Merge, Moved, Sessions

\* Whom the ids name are sessions that exist.
LEMMA NamedTypes ==
  ASSUME RowTypes, ExistInv, NEW I, I \subseteq Ids, NEW s
  PROVE  /\ Named(I) \ {None, s} \subseteq Keys
         /\ \A k \in Named(I) \ {None, s} : status[k] # "absent"
BY KeyFacts DEF RowTypes, ExistInv, Named, Sessions

LEMMA AliasTypes ==
  ASSUME RowTypes, ExistInv, NEW s \in Keys, NEW I, I \subseteq Ids, AliasThreadKeys(s, I)
  PROVE  RowTypes'
BY NamedTypes, MergeTypes DEF AliasThreadKeys

\* canonicalizeSessionId follows the alias of a thread, and nothing else.
LEMMA CanonicalFacts ==
  ASSUME RowTypes, NEW s \in Keys
  PROVE  /\ Canonical(s) \in Keys
         /\ Canonical(s) # s =>
              \E i \in Ids : s = Thread(i) /\ alias[i] # None /\ Canonical(s) = alias[i]
<1>1. CASE s.kind = "thread" /\ alias[s.id] # None
  <2>1. PICK i \in Ids : s = Thread(i)  BY <1>1, KeyFacts
  <2>2. s.id = i  BY <2>1, KeyFacts
  <2> QED  BY <1>1, <2>1, <2>2 DEF RowTypes, Sessions, Canonical
<1>2. CASE ~(s.kind = "thread" /\ alias[s.id] # None)  BY <1>2 DEF Canonical
<1> QED  BY <1>1, <1>2

\* What canonicalizeSessionId does, as a merge.
LEMMA CanonicalizeMerges ==
  ASSUME NEW s \in Keys, Canonicalize(s)
  PROVE  \/ Canonical(s) = s /\ UNCHANGED sessions
         \/ Canonical(s) # s /\ Merge({s}, Canonical(s), {})
BY DEF Canonicalize

LEMMA LookTypes ==
  ASSUME RowTypes, LocalTypes, NEW m \in Messages, Receive(m)
  PROVE  RowTypes' /\ LocalTypes'
<1>1. ASSUME NEW ids \in Seq(Ids), NEW k \in Keys, NEW step \in ApiStep, Look(m, ids, k, step)
      PROVE  RowTypes' /\ LocalTypes'
  BY <1>1, SameRows DEF LocalTypes, Look, worker, Sessions
<1>2. {<<Topic, RootId>>, <<Topic>>, <<RootId>>} \subseteq Seq(Ids)  BY IdFacts
<1>3. \A ids \in {<<Topic, RootId>>, <<Topic>>, <<RootId>>} : Thread(ids[1]) \in Keys
  BY IdFacts, KeyFacts
<1>4. \A i \in Posted : <<i>> \in Seq(Ids)  BY IdFacts DEF Posted, Messages
<1>5. <<>> \in Seq(Ids) /\ Boot(m) \in Keys /\ {"pointer", "alias"} \subseteq ApiStep
  BY KeyFacts DEF ApiStep
<1>6. CASE ReceiveRoot(m)
  BY <1>1, <1>5, <1>6 DEF ReceiveRoot
<1>7. ASSUME NEW ids \in {<<Topic, RootId>>, <<Topic>>, <<RootId>>}, ReceiveInTopic(m, ids)
      PROVE  RowTypes' /\ LocalTypes'
  <2>1. ids \in Seq(Ids) /\ Thread(ids[1]) \in Keys  BY <1>2, <1>3
  <2> QED  BY <1>1, <1>5, <1>7, <2>1 DEF ReceiveInTopic
<1>8. ASSUME NEW i \in Posted, ReceiveAnswering(m, i) PROVE RowTypes' /\ LocalTypes'
  BY <1>1, <1>4, <1>5, <1>8 DEF ReceiveAnswering
<1> QED  BY <1>6, <1>7, <1>8 DEF Receive

LEMMA HandleTypes ==
  ASSUME RowTypes, LocalTypes, LookInv, FoundInv, ExistInv, NEW m \in Messages,
         Handle(m) \/ AliasTopic(m)
  PROVE  RowTypes' /\ LocalTypes'
<1> USE DEF LocalTypes, ApiStep, TurnStep, worker, Goes, Resolved, Found, FoundRoot
<1>1. CASE ReadAlias(m)
  <2>1. Head(todo[m]) \in Ids  BY <1>1, HeadTailProperties DEF ReadAlias, LookInv
  <2>2. RowTypes'  BY <1>1, SameRows DEF ReadAlias
  <2>3. alias[Head(todo[m])] \in Sessions  BY <2>1 DEF RowTypes
  <2> QED  BY <1>1, <2>2, <2>3 DEF ReadAlias
<1>2. CASE ReadKey(m)
  <2>1. Head(todo[m]) \in Ids /\ Tail(todo[m]) \in Seq(Ids)
    BY <1>2, HeadTailProperties DEF ReadKey, LookInv
  <2>2. Thread(Head(todo[m])) \in Sessions  BY <2>1, KeyFacts DEF Sessions
  <2>3. RowTypes'  BY <1>2, SameRows DEF ReadKey
  <2>4. CASE status[Thread(Head(todo[m]))] # "absent"
    <3>1. m \notin Roots  BY <1>2 DEF ReadKey, LookInv
    <3>2. /\ here' = [here EXCEPT ![m] = Thread(Head(todo[m]))]
          /\ at' = [at EXCEPT ![m] = "store"]
          /\ UNCHANGED <<todo, want, delayed, local, turn, commands, faults>>
      BY <1>2, <2>4, <3>1 DEF ReadKey
    <3> QED  BY <2>2, <2>3, <3>2
  <2>5. CASE status[Thread(Head(todo[m]))] = "absent"  BY <1>2, <2>1, <2>3, <2>5 DEF ReadKey
  <2> QED  BY <2>4, <2>5
<1>3. CASE ReadPointer(m)  BY <1>3 DEF ReadPointer, Sessions, RowTypes, rows
<1>4. CASE Create(m)       BY <1>4 DEF Create, RowTypes, rows
<1>5. CASE Quote(m)
  <2>1. here[m] \in Keys /\ {Own(m)} \subseteq Ids  BY <1>5, IdFacts DEF Quote, FoundInv, After
  <2> QED  BY <1>5, <2>1, AliasTypes DEF Quote
<1>6. CASE AliasTopic(m)
  <2>1. here[m] \in Keys /\ {Topic} \subseteq Ids  BY <1>6, IdFacts DEF AliasTopic, FoundInv
  <2> QED  BY <1>6, <2>1, AliasTypes DEF AliasTopic
<1>7. CASE Store(m)        BY <1>7 DEF Store, RowTypes
<1>8. CASE CreateTask(m)   BY <1>8 DEF CreateTask, RowTypes
<1>9. CASE Acknowledge(m)  BY <1>9, SameRows DEF Acknowledge
<1>10. CASE Upgrade(m)
  <2>1. here[m] \in Keys /\ {Own(m), Ack(m)} \subseteq Ids
    BY <1>10, IdFacts DEF Upgrade, FoundInv, After
  <2>2. LocalTypes'  BY <1>10, SessionsAssumption DEF Upgrade
  <2>3. CASE UNCHANGED sessions  BY <2>2, <2>3, SameRows
  <2>4. ASSUME AliasThreadKeys(here[m], {Own(m), Ack(m)}) PROVE RowTypes'
    <3>1. PICK I : I = {Own(m), Ack(m)}  OBVIOUS
    <3>2. I \subseteq Ids /\ AliasThreadKeys(here[m], I)  BY <2>1, <2>4, <3>1
    <3> QED  BY <2>1, <3>2, AliasTypes
  <2> QED  BY <1>10, <2>2, <2>3, <2>4 DEF Upgrade
<1>11. CASE Enqueue(m)     BY <1>11, SameRows DEF Enqueue
<1> QED
  BY <1>1, <1>2, <1>3, <1>4, <1>5, <1>6, <1>7, <1>8, <1>9, <1>10, <1>11 DEF Handle

LEMMA WorkTypes ==
  ASSUME RowTypes, LocalTypes, ExistInv, WorkInv, NEW m \in Messages, Work(m)
  PROVE  RowTypes' /\ LocalTypes'
<1> USE DEF LocalTypes, TurnStep, api, worker, TurnGoes
<1>1. ASSUME NEW from \in TurnStep \ {"none"}, NEW changed \in TurnStep, NEW same \in TurnStep,
             Refresh(m, from, changed, same)
      PROVE  RowTypes' /\ LocalTypes'
  <2>1. local[m] \in Keys  BY <1>1 DEF Refresh, WorkInv
  <2>2. Canonical(local[m]) \in Keys  BY <2>1, CanonicalFacts
  <2>3. LocalTypes'  BY <1>1, <2>2 DEF Refresh, Sessions
  <2>4. RowTypes'
    <3>1. {local[m]} \subseteq Keys /\ {} \subseteq Ids  BY <2>1
    <3>2. CASE UNCHANGED sessions  BY <3>2, SameRows
    <3>3. CASE Merge({local[m]}, Canonical(local[m]), {})  BY <2>2, <3>1, <3>3, MergeTypes
    <3> QED  BY <1>1, <2>1, <3>2, <3>3, CanonicalizeMerges DEF Refresh
  <2> QED  BY <2>3, <2>4
<1>2. ASSUME NEW from \in TurnStep, NEW to \in TurnStep, Adopt(m, from, to)
      PROVE  RowTypes' /\ LocalTypes'
  BY <1>2 DEF Adopt, RowTypes
<1>3. CASE Feedback(m)
  <2>1. local[m] \in Keys /\ {Sent(m)} \subseteq Ids  BY <1>3, IdFacts DEF Feedback, WorkInv
  <2>2. LocalTypes'  BY <1>3, SessionsAssumption DEF Feedback
  <2> QED  BY <1>3, <2>1, <2>2, AliasTypes, SameRows DEF Feedback
<1> QED  BY <1>1, <1>2, <1>3 DEF Work, Start, Finish

LEMMA UserTypes ==
  ASSUME RowTypes, LocalTypes, Users PROVE RowTypes' /\ LocalTypes'
<1> USE DEF RowTypes, LocalTypes, Command, Sessions, rows, api, worker
<1>0. commands' \in 0..MaxCommands
  BY SessionsAssumption DEF Users, NewSession, UseSession, CloseSession, Reset
<1>1. ASSUME NEW n \in Manuals, NewSession(n) PROVE RowTypes' /\ LocalTypes'
  BY <1>0, <1>1, KeyFacts DEF NewSession
<1>2. ASSUME NEW s \in Keys, UseSession(s) PROVE RowTypes' /\ LocalTypes'
  BY <1>0, <1>2 DEF UseSession
<1>3. ASSUME NEW s \in Keys, CloseSession(s) PROVE RowTypes' /\ LocalTypes'
  BY <1>0, <1>3 DEF CloseSession
<1>4. CASE Reset  BY <1>0, <1>4, KeyFacts DEF Reset
<1> QED  BY <1>1, <1>2, <1>3, <1>4 DEF Users

LEMMA Types == ASSUME TypeOK, Base, [Next]_vars PROVE TypeOK'
<1>1. RowTypes /\ LocalTypes  BY TwoTypes
<1>2. CASE UNCHANGED vars
  BY <1>1, <1>2 DEF RowTypes, LocalTypes, TypeOK, vars, sessions, rows, api, worker
<1>3. CASE Next
  <2>1. RowTypes' /\ LocalTypes'
    BY <1>1, <1>3, LookTypes, HandleTypes, WorkTypes, UserTypes DEF Next, Base
  <2> QED  BY <2>1 DEF TypeOK, RowTypes, LocalTypes
<1> QED  BY <1>2, <1>3

(***************************************************************************)
(* What holds in any case                                                  *)
(***************************************************************************)
\* A handler that has its session keeps it, and no session is lost.
Keeps ==
  /\ \A n \in Messages : at[n] \in After => at'[n] \in After /\ here'[n] = here[n]
  /\ \A k \in Keys : status[k] # "absent" => status'[k] # "absent"

\* What every step is shown to do.
Preserves == Base' /\ Keeps /\ (Agreed /\ BotsAgree' => Agreed')

LEMMA StillAgree == ASSUME Keeps, BotsAgree' PROVE BotsAgree
BY DEF Keeps, BotsAgree, Homes, Messages

LEMMA Together == ASSUME TypeOK, Base, Agreed PROVE AllInv
BY DEF AllInv, Base, Agreed

\* The steps of the handler between its session and its job.
Advances ==
  \A m \in Messages :
    \/ at'[m] = at[m]
    \/ at[m] = "quote" /\ at'[m] = "store"
    \/ at[m] = "upgrade" /\ at'[m] = "enqueue"

\* A step of a handler that has its session, or of a turn.
LEMMA BaseKept ==
  ASSUME Base, Advances, UNCHANGED <<todo, want, here>>,
         \A m \in Messages : delayed'[m] => delayed[m] \/ at[m] = "quote",
         \A k \in Keys : status[k] # "absent" => status'[k] # "absent",
         ExistInv', WorkInv'
  PROVE  Base' /\ Keeps
<1>1. LookInv'   BY DEF Base, Advances, LookInv
<1>2. FoundInv'  BY DEF Base, Advances, FoundInv, After
<1>3. Keeps      BY DEF Advances, Keeps, After
<1> QED  BY <1>1, <1>2, <1>3 DEF Base

\* Sessions that exist are merged into one that exists.
LEMMA MergeExists ==
  ASSUME RowTypes, ExistInv, NEW s \in Keys, status[s] # "absent", NEW Old, Old \subseteq Keys,
         \A k \in Old : status[k] # "absent", NEW I, I \subseteq Ids, Merge(Old, s, I)
  PROVE  ExistInv' /\ \A k \in Keys : status[k] # "absent" <=> status'[k] # "absent"
<1>1. \A k \in Keys : status[k] # "absent" <=> status'[k] # "absent"  BY DEF Merge
<1>2. \A i \in Ids : status'[Thread(i)] # "absent" => i \in TopicIds
  BY <1>1, KeyFacts DEF ExistInv
<1>3. \A i \in Ids : alias'[i] # None => status'[alias'[i]] # "absent"
  BY <1>1, KeyFacts DEF ExistInv, RowTypes, Sessions, Merge
<1>4. pointer' # None => status'[pointer'] # "absent"
  BY <1>1, KeyFacts DEF ExistInv, RowTypes, Sessions, Merge
<1> QED  BY <1>1, <1>2, <1>3, <1>4 DEF ExistInv

LEMMA AliasExists ==
  ASSUME RowTypes, ExistInv, NEW s \in Keys, status[s] # "absent", NEW I, I \subseteq Ids,
         AliasThreadKeys(s, I)
  PROVE  ExistInv' /\ \A k \in Keys : status[k] # "absent" <=> status'[k] # "absent"
BY NamedTypes, MergeExists DEF AliasThreadKeys

LEMMA CanonicalExists ==
  ASSUME RowTypes, ExistInv, NEW s \in Keys, status[s] # "absent", Canonicalize(s)
  PROVE  /\ ExistInv' /\ \A k \in Keys : status[k] # "absent" <=> status'[k] # "absent"
         /\ Canonical(s) \in Keys /\ status'[Canonical(s)] # "absent"
<1>1. CASE Canonical(s) = s /\ UNCHANGED sessions
  BY <1>1 DEF ExistInv, sessions, rows
<1>2. CASE Canonical(s) # s /\ Merge({s}, Canonical(s), {})
  <2> DEFINE home == Canonical(s)
  <2>1. home \in Keys /\ status[home] # "absent"
    BY <1>2, CanonicalFacts DEF ExistInv
  <2>2. PICK Old : Old = {s}  OBVIOUS
  <2>3. PICK I : I = {}  OBVIOUS
  <2>4. Merge(Old, home, I)  BY <1>2, <2>2, <2>3
  <2> HIDE DEF home
  <2>5. ExistInv' /\ \A k \in Keys : status[k] # "absent" <=> status'[k] # "absent"
    BY <2>1, <2>2, <2>3, <2>4, MergeExists
  <2> QED  BY <2>1, <2>5 DEF home
<1> QED  BY <1>1, <1>2, CanonicalizeMerges

(***************************************************************************)
(* Merges                                                                  *)
(***************************************************************************)
\* What a step may do to the rows: nothing but move them home.  The ids I may
\* get an alias.
MovesHome(I) ==
  /\ Homes' = Homes
  /\ \A i \in Ids \ I : alias[i] = None => alias'[i] = None
  /\ \A m \in Messages :
       /\ task'[m] # task[m] => task[m] # None /\ task'[m] \in Homes
       /\ message'[m] # message[m] => message[m] # None /\ message'[m] \in Homes
       /\ task[m] \notin merged => task'[m] \notin merged'
       /\ message[m] \notin merged => message'[m] \notin merged'
  /\ \A i \in TopicIds :
       (/\ status[Thread(i)] # "absent"
        /\ alias[i] \notin {None, Thread(i)} => Thread(i) \in merged)
       => (alias'[i] \notin {None, Thread(i)} => Thread(i) \in merged')
  /\ \A k \in Keys : status[k] # "absent" => status'[k] # "absent"

LEMMA HomesKept ==
  ASSUME here' = here, \A r \in Roots : at'[r] \in After <=> at[r] \in After
  PROVE  Homes' = Homes
BY DEF Homes

LEMMA HomesExist ==
  ASSUME FoundInv, NEW s \in Homes
  PROVE  s \in Keys /\ s # None /\ status[s] # "absent"
BY KeyFacts DEF FoundInv, Homes, Messages

\* A step that leaves the rows alone.
LEMMA RowsKept ==
  ASSUME UNCHANGED <<sessions, here>>, \A r \in Roots : at'[r] \in After <=> at[r] \in After,
         HomeInv
  PROVE  MovesHome({}) /\ HomeInv'
<1>1. Homes' = Homes  BY HomesKept
<1>2. UNCHANGED <<status, alias, pointer, task, message, merged>>  BY DEF sessions, rows
<1>3. MovesHome({})  BY <1>1, <1>2 DEF MovesHome
<1>4. HomeInv'  BY <1>1, <1>2 DEF HomeInv, BotsAgree
<1> QED  BY <1>3, <1>4

\* Threads of the topic are merged into its home.
LEMMA HomeMerge ==
  ASSUME RowTypes, FoundInv, ExistInv, HomeInv,
         NEW s \in Homes, NEW Old, Old \subseteq TopicThreads \ {s}, NEW I, I \subseteq Ids,
         Merge(Old, s, I),
         \A k \in Old : status[k] # "absent",
         \A i \in TopicIds : Thread(i) \in Old => i \in I \/ alias[i] # None,
         \A i \in I \cap TopicIds : status[Thread(i)] # "absent" => Thread(i) \in Old \cup {s},
         here' = here, \A r \in Roots : at'[r] \in After <=> at[r] \in After
  PROVE  MovesHome(I) /\ HomeInv'
<1>1. Homes' = Homes /\ Homes = {s}  BY HomesKept DEF HomeInv, BotsAgree
<1>2. s \in Keys /\ s # None /\ status[s] # "absent" /\ s \notin merged
  BY HomesExist DEF HomeInv
<1>3. Old \subseteq Keys /\ None \notin Old
  BY TopicThread, IdFacts, KeyFacts DEF TopicIds
<1>4. \A i \in Ids : alias'[i] = IF i \in I \/ alias[i] \in Old THEN s ELSE alias[i]
  BY DEF Merge
<1>5. \A i \in TopicIds : alias'[i] = IF i \in I THEN s ELSE alias[i]
  BY <1>1, <1>3, <1>4, IdFacts DEF HomeInv, TopicIds
<1>6. merged' = merged \cup Old  BY DEF Merge
<1>7. \A m \in Messages :
        /\ task'[m] = IF task[m] \in Old THEN s ELSE task[m]
        /\ message'[m] = IF message[m] \in Old THEN s ELSE message[m]
  BY DEF Merge, Moved, RowTypes
<1>8. \A k \in Keys : status[k] # "absent" <=> status'[k] # "absent"  BY DEF Merge
<1>9. MovesHome(I)
  <2>1. \A i \in Ids \ I : alias[i] = None => alias'[i] = None  BY <1>3, <1>4
  <2>2. \A m \in Messages :
          /\ task'[m] # task[m] => task[m] # None /\ task'[m] \in Homes
          /\ message'[m] # message[m] => message[m] # None /\ message'[m] \in Homes
          /\ task[m] \notin merged => task'[m] \notin merged'
          /\ message[m] \notin merged => message'[m] \notin merged'
    BY <1>2, <1>3, <1>6, <1>7
  <2>3. \A i \in TopicIds :
          (/\ status[Thread(i)] # "absent"
           /\ alias[i] \notin {None, Thread(i)} => Thread(i) \in merged)
          => (alias'[i] \notin {None, Thread(i)} => Thread(i) \in merged')
    BY <1>5, <1>6
  <2> QED  BY <1>1, <1>8, <2>1, <2>2, <2>3 DEF MovesHome
<1>10. HomeInv'
  <2>1. BotsAgree'  BY <1>1 DEF BotsAgree
  <2>2. \A i \in TopicIds : alias'[i] \in {None} \cup Homes'  BY <1>1, <1>5 DEF HomeInv
  <2>3. merged' \subseteq TopicThreads \ Homes'  BY <1>1, <1>6 DEF HomeInv
  <2>4. \A i \in TopicIds : Thread(i) \in merged' => alias'[i] # None
    BY <1>2, <1>5, <1>6 DEF HomeInv
  <2> QED  BY <2>1, <2>2, <2>3, <2>4 DEF HomeInv
<1> QED  BY <1>9, <1>10

\* Ids that nobody knows yet get an alias: there is nothing to merge.
LEMMA FreshAlias ==
  ASSUME RowTypes, ExistInv, HomeInv,
         NEW s \in Keys, status[s] # "absent", NEW I, I \subseteq Ids, AliasThreadKeys(s, I),
         \A i \in I : i \notin TopicIds /\ alias[i] = None,
         here' = here, \A r \in Roots : at'[r] \in After <=> at[r] \in After
  PROVE  MovesHome(I) /\ HomeInv'
<1>1. Homes' = Homes  BY HomesKept
<1>2. Named(I) \ {None, s} = {}  BY DEF Named, ExistInv
<1>3. Merge({}, s, I)  BY <1>2 DEF AliasThreadKeys
<1>4. \A i \in Ids : alias'[i] = IF i \in I THEN s ELSE alias[i]  BY <1>3 DEF Merge
<1>5. \A m \in Messages : task'[m] = task[m] /\ message'[m] = message[m]
  BY <1>3 DEF Merge, Moved, RowTypes
<1>6. pointer' = pointer /\ merged' = merged /\ \A k \in Keys : status'[k] = status[k]
  BY <1>3 DEF Merge
<1>7. \A i \in TopicIds : alias'[i] = alias[i]  BY <1>4, IdFacts DEF TopicIds
<1>8. MovesHome(I)  BY <1>1, <1>4, <1>5, <1>6, <1>7 DEF MovesHome
<1>9. HomeInv'  BY <1>1, <1>6, <1>7 DEF HomeInv, BotsAgree
<1> QED  BY <1>8, <1>9

\* aliasThreadKeysForSession with the session of a root message.
LEMMA RootAlias ==
  ASSUME AllInv, NEW r \in Roots, at[r] \in After, NEW I, I \subseteq TopicIds \cup {Ack(r)},
         AliasThreadKeys(here[r], I), alias[Ack(r)] = None \/ Ack(r) \notin I,
         here' = here, \A q \in Roots : at'[q] \in After <=> at[q] \in After
  PROVE  MovesHome(I) /\ HomeInv'
<1> DEFINE s == here[r]  Old == Named(I) \ {None, s}
<1>1. RowTypes /\ FoundInv /\ ExistInv /\ HomeInv  BY TwoTypes DEF AllInv
<1>2. r \in Messages /\ I \subseteq Ids  BY IdFacts DEF Messages, TopicIds
<1>3. s \in Homes /\ Homes = {s}  BY <1>1 DEF Homes, HomeInv, BotsAgree
<1>4. \A k \in Old : status[k] # "absent"  BY <1>1, <1>2, NamedTypes
<1>5. \A k \in Old : \E i \in I \cap TopicIds : k = Thread(i)
  <2> SUFFICES ASSUME NEW k \in Old PROVE \E i \in I \cap TopicIds : k = Thread(i)  OBVIOUS
  <2>1. CASE \E i \in I : k = alias[i]
    BY <1>1, <1>3, <2>1 DEF HomeInv
  <2>2. CASE \E i \in I : status[Thread(i)] # "absent" /\ k = Thread(i)
    BY <1>1, <1>2, <2>2 DEF ExistInv
  <2> QED  BY <2>1, <2>2 DEF Named
<1>6. Old \subseteq TopicThreads \ {s}  BY <1>5, TopicThread
<1>7. \A i \in TopicIds : Thread(i) \in Old => i \in I \/ alias[i] # None
  BY <1>5, KeyFacts, IdFacts DEF TopicIds
<1>8. \A i \in I \cap TopicIds : status[Thread(i)] # "absent" => Thread(i) \in Old \cup {s}
  BY <1>2, KeyFacts DEF Named
<1>9. Merge(Old, s, I)  BY DEF AliasThreadKeys
<1> HIDE DEF s, Old
<1> QED  BY <1>1, <1>2, <1>3, <1>4, <1>6, <1>7, <1>8, <1>9, HomeMerge

\* canonicalizeSessionId with the session of a turn: the id it finds is one of
\* the topic's, so the target is home.
LEMMA TurnCanonicalizes ==
  ASSUME AllInv, NEW m \in Messages, turn[m] # "none", Canonicalize(local[m]), UNCHANGED <<at, here>>
  PROVE  /\ MovesHome({}) /\ HomeInv'
         /\ Canonical(local[m]) # local[m] =>
              /\ Canonical(local[m]) \in Homes /\ local[m] \notin Homes /\ local[m] \in merged'
              /\ \A n \in Messages : task'[n] # local[m] /\ message'[n] # local[m]
         /\ Canonical(local[m]) = local[m] => UNCHANGED sessions
<1> DEFINE s == local[m]  home == Canonical(s)
<1>1. RowTypes /\ FoundInv /\ ExistInv /\ HomeInv  BY TwoTypes DEF AllInv
<1>2. s \in Keys /\ status[s] # "absent"  BY DEF AllInv, WorkInv
<1>3. CASE home = s
  BY <1>1, <1>2, <1>3, CanonicalizeMerges, RowsKept
<1>4. CASE home # s
  <2>1. PICK i \in Ids : s = Thread(i) /\ alias[i] # None /\ home = alias[i]
    BY <1>1, <1>2, <1>4, CanonicalFacts
  <2>2. i \in TopicIds /\ home \in Homes  BY <1>1, <1>2, <2>1 DEF ExistInv, HomeInv
  <2>3. s \notin Homes  BY <1>1, <1>4, <2>2 DEF HomeInv, BotsAgree
  <2>4. Merge({s}, home, {})  BY <1>2, <1>4, CanonicalizeMerges
  <2>5. s \in merged'  BY <2>4 DEF Merge
  <2>6. \A n \in Messages : task'[n] # s /\ message'[n] # s
    BY <1>1, <1>4, <2>4 DEF Merge, Moved, RowTypes
  <2>7. {s} \subseteq TopicThreads \ {home}  BY <1>4, <2>1, <2>2, TopicThread
  <2>8. \A j \in TopicIds : Thread(j) \in {s} => alias[j] # None
    BY <2>1, KeyFacts, IdFacts DEF TopicIds
  <2> HIDE DEF s, home
  <2>9. MovesHome({}) /\ HomeInv'
    <3>1. PICK Old : Old = {s}  OBVIOUS
    <3>2. PICK I : I = {}  OBVIOUS
    <3>3. /\ Old \subseteq TopicThreads \ {home} /\ I \subseteq Ids /\ Merge(Old, home, I)
          /\ \A k \in Old : status[k] # "absent"
          /\ \A j \in TopicIds : Thread(j) \in Old => j \in I \/ alias[j] # None
          /\ \A j \in I \cap TopicIds : status[Thread(j)] # "absent" => Thread(j) \in Old \cup {home}
      BY <1>2, <2>4, <2>7, <2>8, <3>1, <3>2
    <3>4. MovesHome(I) /\ HomeInv'
      BY <1>1, <2>2, <3>3, HomeMerge
    <3> QED  BY <3>2, <3>4
  <2> QED  BY <1>4, <2>2, <2>3, <2>5, <2>6, <2>9 DEF s, home
<1> QED  BY <1>3, <1>4

(***************************************************************************)
(* What the other invariants owe to a merge                                *)
(***************************************************************************)
\* The ids I are used up.
UsesUp(I) ==
  /\ \A i \in I :
       \/ i \in TopicIds
       \/ \E m \in Messages : i = Ack(m) /\ at'[m] = "enqueue"
       \/ \E m \in Replies : i = Own(m) /\ at'[m] = "enqueue"
       \/ \E m \in Messages : i = Sent(m) /\ turn'[m] = "done"
  /\ \A m \in Messages : turn'[m] # "done" => turn[m] # "done"

LEMMA MergeKeeps ==
  ASSUME AllInv, NEW I, MovesHome(I), Advances, UsesUp(I), UNCHANGED <<want, here>>
  PROVE  ThreadInv' /\ FreshInv' /\ RowInv'
<1>1. ThreadInv'  BY DEF AllInv, Advances, ThreadInv, MovesHome, After, Messages
<1>2. RowInv'
  <2> SUFFICES ASSUME NEW m \in Messages PROVE RowInv!(m)'  BY DEF RowInv
  <2>1. /\ task'[m] = task[m] \/ (task[m] # None /\ task'[m] \in Homes)
        /\ message'[m] = message[m] \/ (message[m] # None /\ message'[m] \in Homes)
    BY DEF MovesHome
  <2>2. \A k \in Homes : k # None  BY HomesExist DEF AllInv
  <2>3. at'[m] \in After <=> at[m] \in After  BY DEF Advances, After
  <2>4. RowInv!(m)  BY DEF AllInv, RowInv
  <2>5. Homes' = Homes  BY DEF MovesHome
  <2> QED  BY <2>1, <2>2, <2>3, <2>4, <2>5 DEF Advances
<1>3. FreshInv'
  <2>1. SUFFICES ASSUME NEW m \in Messages
                 PROVE  /\ at'[m] \notin {"enqueue", "done"} =>
                             alias'[Ack(m)] = None /\ (m \in Replies => alias'[Own(m)] = None)
                        /\ turn'[m] # "done" => alias'[Sent(m)] = None
    BY DEF FreshInv
  <2>2. ASSUME at'[m] \notin {"enqueue", "done"} PROVE alias'[Ack(m)] = None
    <3>1. at[m] \notin {"enqueue", "done"}  BY <2>2 DEF Advances
    <3>2. Ack(m) \in Ids \ I  BY <2>2, IdFacts DEF UsesUp, Messages
    <3> QED  BY <3>1, <3>2 DEF AllInv, FreshInv, MovesHome
  <2>3. ASSUME at'[m] \notin {"enqueue", "done"}, m \in Replies PROVE alias'[Own(m)] = None
    <3>1. at[m] \notin {"enqueue", "done"}  BY <2>3 DEF Advances
    <3>2. Own(m) \in Ids \ I  BY <2>3, IdFacts DEF UsesUp, Messages
    <3> QED  BY <2>3, <3>1, <3>2 DEF AllInv, FreshInv, MovesHome
  <2>4. ASSUME turn'[m] # "done" PROVE alias'[Sent(m)] = None
    <3>1. turn[m] # "done"  BY <2>4 DEF UsesUp
    <3>2. Sent(m) \in Ids \ I  BY <2>4, IdFacts DEF UsesUp, Messages
    <3> QED  BY <3>1, <3>2 DEF AllInv, FreshInv, MovesHome
  <2> QED  BY <2>2, <2>3, <2>4
<1> QED  BY <1>1, <1>2, <1>3

\* No turn moves.
LEMMA MergeKeepsTurns ==
  ASSUME AllInv, NEW I, MovesHome(I), Advances, UNCHANGED <<here, turn, local>>
  PROVE  TurnInv' /\ MovedInv'
<1>1. MovedInv'  BY DEF AllInv, MovedInv, MovesHome, Started
<1>2. ASSUME NEW m \in Messages, Started(m), NEW i \in TopicIds,
             here[m] = Thread(i), alias'[i] \notin {None, here[m]}
      PROVE  here[m] \in merged'
  <2>1. status[Thread(i)] # "absent"
    BY <1>2 DEF AllInv, WorkInv, FoundInv, Started, After
  <2> QED  BY <1>2, <2>1 DEF AllInv, TurnInv, MovesHome
<1>3. TurnInv'
  BY <1>2 DEF AllInv, TurnInv, Advances, MovesHome, Started
<1> QED  BY <1>1, <1>3

LEMMA NotEmpty == ASSUME NEW s, Len(s) > 0 PROVE s # <<>>
<1>1. Len(<<>>) = 0  BY EmptySeq
<1> QED  BY <1>1

(***************************************************************************)
(* Each step                                                               *)
(***************************************************************************)
\* A step of the handler before it has a session.
LEMMA Looking ==
  ASSUME TypeOK, Base, NEW m \in Messages, at[m] \notin After, NEW step \in ApiStep \ After,
         at' = [at EXCEPT ![m] = step], LookInv',
         UNCHANGED <<status, alias, rows, merged, here, delayed, worker>>,
         pointer' \in {pointer, None},
         \A n \in Messages : n # m => want'[n] = want[n]
  PROVE  Preserves
<1>1. \A n \in Messages : at'[n] \in After <=> at[n] \in After
  BY TwoTypes DEF LocalTypes
<1>2. \A n \in Messages : n # m => at'[n] = at[n]  BY TwoTypes DEF LocalTypes
<1>3. at[m] \notin {"enqueue", "done"} /\ at'[m] \notin {"enqueue", "done"}
      /\ at'[m] \notin After /\ turn[m] = "none"
  BY <1>1 DEF After, Base, WorkInv
<1>4. FoundInv'  BY <1>1, <1>2, <1>3 DEF Base, FoundInv, After
<1>5. ExistInv'  BY DEF Base, ExistInv
<1>6. WorkInv'   BY <1>2, <1>3 DEF Base, WorkInv, worker
<1>7. Keeps      BY <1>1 DEF Keeps
<1>8. ASSUME Agreed PROVE Agreed'
  <2>1. Homes' = Homes  BY <1>1, HomesKept DEF Messages
  <2>2. ThreadInv'  BY <1>1, <1>2, <1>3, <1>8, <2>1 DEF Agreed, ThreadInv, Messages
  <2>3. FreshInv'   BY <1>2, <1>3, <1>8 DEF Agreed, FreshInv, worker
  <2>4. HomeInv'    BY <1>8, <2>1 DEF Agreed, HomeInv, BotsAgree
  <2>5. RowInv'     BY <1>1, <1>2, <1>3, <1>8, <2>1 DEF Agreed, RowInv, rows, After
  <2>6. TurnInv'    BY <1>2, <1>3, <1>8, <2>1 DEF Agreed, TurnInv, worker, Started
  <2>7. MovedInv'   BY <1>8 DEF Agreed, MovedInv, Started, rows, worker
  <2> QED  BY <2>2, <2>3, <2>4, <2>5, <2>6, <2>7 DEF Agreed
<1> QED  BY <1>4, <1>5, <1>6, <1>7, <1>8 DEF Preserves, Base

\* The step that finds or makes the session s.
LEMMA Finding ==
  ASSUME TypeOK, Base, NEW m \in Messages, at[m] \in {"alias", "key", "pointer", "create"},
         NEW s \in Keys, Resolved(m, s), status'[s] # "absent",
         \A k \in Keys : status[k] # "absent" => status'[k] # "absent",
         \A i \in Ids : status'[Thread(i)] # "absent" => i \in TopicIds,
         Agreed /\ m \in Replies /\ want[m] # Boot(m) => s \in TopicThreads \cup Homes,
         UNCHANGED <<alias, pointer, rows, merged, todo, want, delayed, worker>>
  PROVE  Preserves
<1>1. RowTypes /\ LocalTypes  BY TwoTypes
<1>2. here' = [here EXCEPT ![m] = s]
  BY DEF Resolved, Found, FoundRoot
<1>3. PICK step \in {"quote", "store"} : at' = [at EXCEPT ![m] = step] /\ (step = "quote" => m \in Roots)
  BY DEF Resolved, Found, FoundRoot
<1>4. \A n \in Messages : n # m => at'[n] = at[n] /\ here'[n] = here[n]
  BY <1>1, <1>2, <1>3 DEF LocalTypes
<1>5. at'[m] = step /\ here'[m] = s /\ at[m] \notin After /\ at'[m] \in After
  BY <1>1, <1>2, <1>3 DEF LocalTypes, After
<1>6. turn[m] = "none"  BY <1>5 DEF Base, WorkInv, After
<1>7. LookInv'  BY <1>3, <1>4, <1>5 DEF Base, LookInv
<1>8. FoundInv'
  <2>1. ASSUME NEW n \in Messages PROVE FoundInv!(n)'
    <3>1. CASE n = m  BY <1>3, <1>5, <3>1 DEF Base, FoundInv, After
    <3>2. CASE n # m  BY <1>4, <3>2 DEF Base, FoundInv, After
    <3> QED  BY <3>1, <3>2
  <2> QED  BY <2>1 DEF FoundInv
<1>9. ExistInv'
  BY <1>1 DEF Base, ExistInv, RowTypes, Sessions
<1>10. WorkInv'  BY <1>4, <1>6 DEF Base, WorkInv, worker
<1>11. Keeps     BY <1>4, <1>5 DEF Keeps
<1>12. ASSUME Agreed, BotsAgree' PROVE Agreed'
  <2>1. Homes \subseteq Homes'  BY <1>4, <1>5 DEF Homes, Messages
  <2>2. \A k \in Homes' : k \in Homes \/ (m \in Roots /\ k = s)  BY <1>4, <1>5 DEF Homes, Messages
  <2>3. task[m] = None /\ message[m] = None  BY <1>5, <1>12 DEF Agreed, RowInv
  <2>4. ThreadInv'
    <3>1. ASSUME NEW n \in Replies PROVE ThreadInv!(n)'
      <4>1. CASE n = m  BY <1>5, <1>12, <2>1, <4>1
      <4>2. CASE n # m  BY <1>4, <1>12, <2>1, <4>2 DEF Agreed, ThreadInv, Messages
      <4> QED  BY <4>1, <4>2
    <3> QED  BY <3>1 DEF ThreadInv
  <2>5. FreshInv'  BY <1>4, <1>5, <1>12 DEF Agreed, FreshInv, worker, After
  <2>6. HomeInv'
    <3>1. merged' \subseteq TopicThreads \ Homes'
      <4>1. CASE Homes = {}
        <5>1. \A i \in TopicIds : alias[i] = None  BY <1>12, <4>1 DEF Agreed, HomeInv
        <5> QED  BY <1>12, <5>1, TopicThread DEF Agreed, HomeInv
      <4>2. CASE Homes # {}
        <5>1. Homes' = Homes  BY <1>12, <2>1, <4>2 DEF BotsAgree
        <5> QED  BY <1>12, <5>1 DEF Agreed, HomeInv
      <4> QED  BY <4>1, <4>2
    <3> QED  BY <1>12, <2>1, <3>1 DEF Agreed, HomeInv
  <2>7. RowInv'
    <3>1. ASSUME NEW n \in Messages PROVE RowInv!(n)'
      <4>1. CASE n = m  BY <1>3, <1>5, <2>3, <4>1 DEF rows
      <4>2. CASE n # m  BY <1>4, <1>12, <2>1, <4>2 DEF Agreed, RowInv, rows
      <4> QED  BY <4>1, <4>2
    <3> QED  BY <3>1 DEF RowInv
  <2>8. TurnInv'
    <3>1. ASSUME NEW n \in Messages PROVE TurnInv!(n)'
      <4>1. CASE n = m  BY <1>6, <4>1 DEF worker, Started
      <4>2. CASE n # m  BY <1>4, <1>12, <2>1, <4>2 DEF Agreed, TurnInv, worker, Started
      <4> QED  BY <4>1, <4>2
    <3> QED  BY <3>1 DEF TurnInv
  <2>9. MovedInv'  BY <1>12 DEF Agreed, MovedInv, Started, rows, worker
  <2> QED  BY <2>4, <2>5, <2>6, <2>7, <2>8, <2>9 DEF Agreed
<1> QED  BY <1>7, <1>8, <1>9, <1>10, <1>11, <1>12 DEF Preserves, Base

LEMMA Receiving == ASSUME TypeOK, Base, NEW m \in Messages, Receive(m) PROVE Preserves
<1>1. RowTypes /\ LocalTypes  BY TwoTypes
<1>2. ASSUME NEW ids \in Seq(Ids), NEW k, NEW step \in {"alias", "pointer"},
             at[m] = "new", Look(m, ids, k, step),
             k \in TopicThreads \cup {Boot(m)},
             m \in Roots => step # "alias" /\ k = Boot(m),
             step = "alias" => ids # <<>> /\ (k # Boot(m) => ids \in Seq(TopicIds)),
             step = "pointer" => k = Boot(m)
      PROVE  Preserves
  <2>1. /\ at'[m] = step /\ todo'[m] = ids /\ want'[m] = k
        /\ \A n \in Messages : n # m => at'[n] = at[n] /\ todo'[n] = todo[n] /\ want'[n] = want[n]
    BY <1>1, <1>2 DEF Look, LocalTypes
  <2>2. LookInv'
    <3>1. ASSUME NEW n \in Messages PROVE LookInv!(n)'
      <4>1. CASE n = m  BY <1>2, <2>1, <4>1
      <4>2. CASE n # m  BY <2>1, <4>2 DEF Base, LookInv
      <4> QED  BY <4>1, <4>2
    <3> QED  BY <3>1 DEF LookInv
  <2>3. at[m] \notin After /\ step \in ApiStep \ After  BY <1>2 DEF After, ApiStep
  <2> QED  BY <1>2, <2>1, <2>2, <2>3, Looking DEF Look, sessions
<1>3. CASE ReceiveRoot(m)
  <2>1. <<>> \in Seq(Ids)  OBVIOUS
  <2>2. at[m] = "new" /\ m \in Roots /\ Look(m, <<>>, Boot(m), "pointer")
    BY <1>3 DEF ReceiveRoot
  <2> QED  BY <1>2, <2>1, <2>2
<1>4. ASSUME NEW ids \in {<<Topic, RootId>>, <<Topic>>, <<RootId>>}, ReceiveInTopic(m, ids)
      PROVE  Preserves
  <2>1. ids \in Seq(TopicIds) /\ ids \in Seq(Ids) /\ ids # <<>>
    <3>1. Topic \in TopicIds /\ RootId \in TopicIds  BY DEF TopicIds
    <3>2. <<Topic, RootId>> \in Seq(TopicIds) /\ <<Topic>> \in Seq(TopicIds) /\ <<RootId>> \in Seq(TopicIds)
      BY <3>1
    <3>3. <<Topic, RootId>> \in Seq(Ids) /\ <<Topic>> \in Seq(Ids) /\ <<RootId>> \in Seq(Ids)
      BY IdFacts
    <3>4. Len(ids) > 0  OBVIOUS
    <3> QED  BY <3>2, <3>3, <3>4, EmptySeq
  <2>2. Thread(ids[1]) \in TopicThreads  BY DEF TopicThreads
  <2>3. m \notin Roots  BY <1>4, SessionsAssumption DEF ReceiveInTopic
  <2> QED  BY <1>2, <1>4, <2>1, <2>2, <2>3 DEF ReceiveInTopic
<1>5. ASSUME NEW i \in Posted, ReceiveAnswering(m, i) PROVE Preserves
  <2>1. i \in Ids  BY IdFacts DEF Posted, Messages
  <2>2. <<i>> \in Seq(Ids) /\ <<i>> # <<>>  BY <2>1
  <2>3. m \notin Roots  BY <1>5, SessionsAssumption DEF ReceiveAnswering
  <2> QED  BY <1>2, <1>5, <2>2, <2>3 DEF ReceiveAnswering
<1> QED  BY <1>3, <1>4, <1>5 DEF Receive

LEMMA Resolving ==
  ASSUME TypeOK, Base, NEW m \in Messages, ReadAlias(m) \/ ReadKey(m) \/ ReadPointer(m) \/ Create(m)
  PROVE  Preserves
<1>1. RowTypes /\ LocalTypes  BY TwoTypes
<1>2. \A i \in Ids : status[Thread(i)] # "absent" => i \in TopicIds  BY DEF Base, ExistInv
<1>3. ASSUME UNCHANGED status PROVE \A i \in Ids : status'[Thread(i)] # "absent" => i \in TopicIds
  BY <1>2, <1>3
<1>4. CASE ReadAlias(m)
  <2> DEFINE i == Head(todo[m])
  <2>1. i \in Ids /\ (want[m] # Boot(m) => i \in TopicIds) /\ m \notin Roots
    BY <1>1, <1>4, HeadTailProperties DEF ReadAlias, Base, LookInv, LocalTypes
  <2>2. CASE alias[i] # None
    <3>1. alias[i] \in Keys /\ status[alias[i]] # "absent"
      BY <1>1, <2>1, <2>2 DEF Base, ExistInv, RowTypes, Sessions
    <3>2. Agreed /\ want[m] # Boot(m) => alias[i] \in TopicThreads \cup Homes
      BY <2>1, <2>2 DEF Agreed, HomeInv
    <3>3. /\ Resolved(m, alias[i]) /\ at[m] = "alias"
          /\ UNCHANGED <<status, alias, pointer, rows, merged, todo, want, delayed, worker>>
      BY <1>4, <2>2 DEF ReadAlias, sessions
    <3> QED  BY <1>3, <2>1, <3>1, <3>2, <3>3, Finding
  <2>3. CASE alias[i] = None
    <3>1. /\ at[m] = "alias" /\ at' = [at EXCEPT ![m] = "key"]
          /\ UNCHANGED <<sessions, todo, want, here, delayed, worker>>
      BY <1>4, <2>3 DEF ReadAlias
    <3>2. LookInv'  BY <1>1, <3>1 DEF Base, LookInv, LocalTypes
    <3> QED  BY <3>1, <3>2, Looking DEF After, ApiStep, sessions
  <2> QED  BY <2>2, <2>3
<1>5. CASE ReadKey(m)
  <2> DEFINE i == Head(todo[m])  k == Thread(i)
  <2>1. i \in Ids /\ (want[m] # Boot(m) => i \in TopicIds) /\ m \notin Roots
    BY <1>1, <1>5, HeadTailProperties DEF ReadKey, Base, LookInv, LocalTypes
  <2>2. CASE status[k] # "absent"
    <3>1. k \in Keys /\ (want[m] # Boot(m) => k \in TopicThreads)
      BY <2>1, KeyFacts, TopicThread
    <3>2. /\ Resolved(m, k) /\ at[m] = "key"
          /\ UNCHANGED <<status, alias, pointer, rows, merged, todo, want, delayed, worker>>
      BY <1>5, <2>2 DEF ReadKey, sessions
    <3> QED  BY <1>3, <2>1, <2>2, <3>1, <3>2, Finding
  <2>3. CASE status[k] = "absent"
    <3>1. PICK step \in {"alias", "create", "pointer"} :
            /\ at' = [at EXCEPT ![m] = step]
            /\ step = "alias" => Len(todo[m]) > 1
            /\ step = "pointer" => want[m].kind # "thread"
      BY <1>5, <2>3 DEF ReadKey
    <3>2. /\ at[m] = "key" /\ todo' = [todo EXCEPT ![m] = Tail(@)]
          /\ UNCHANGED <<sessions, want, here, delayed, worker>>
      BY <1>5, <2>3 DEF ReadKey
    <3>3. step = "alias" => Tail(todo[m]) # <<>>
      <4>1. todo[m] \in Seq(Ids) /\ todo[m] # <<>>
        BY <1>1, <3>2 DEF Base, LookInv, LocalTypes
      <4>2. Len(Tail(todo[m])) = Len(todo[m]) - 1 /\ Len(todo[m]) \in Nat
        BY <4>1, HeadTailProperties
      <4>3. ASSUME step = "alias" PROVE Len(Tail(todo[m])) > 0  BY <3>1, <4>2, <4>3
      <4> QED  BY <4>3, NotEmpty
    <3>4. want[m] # Boot(m) => todo[m] \in Seq(TopicIds) /\ Tail(todo[m]) \in Seq(TopicIds)
      BY <3>2, HeadTailProperties DEF Base, LookInv
    <3>5. step = "pointer" => want[m] = Boot(m)
      BY <3>1, <3>2, KeyFacts, TopicThread, IdFacts DEF Base, LookInv, TopicIds
    <3>6. LookInv'
      <4>1. ASSUME NEW n \in Messages PROVE LookInv!(n)'
        <5>1. CASE n = m
          BY <1>1, <2>1, <3>1, <3>2, <3>3, <3>4, <3>5, <5>1 DEF Base, LookInv, LocalTypes
        <5>2. CASE n # m
          BY <1>1, <3>1, <3>2, <5>2 DEF Base, LookInv, LocalTypes
        <5> QED  BY <5>1, <5>2
      <4> QED  BY <4>1 DEF LookInv
    <3> QED  BY <3>1, <3>2, <3>6, Looking DEF After, ApiStep, sessions
  <2> QED  BY <2>2, <2>3
<1>6. CASE ReadPointer(m)
  <2>1. at[m] = "pointer" /\ want[m] = Boot(m)  BY <1>6 DEF ReadPointer, Base, LookInv
  <2>2. CASE Active /\ Resolved(m, pointer) /\ UNCHANGED pointer
    <3>1. pointer \in Keys /\ status[pointer] # "absent"
      BY <1>1, <2>2 DEF Active, RowTypes, Sessions
    <3>2. UNCHANGED <<status, alias, pointer, rows, merged, todo, want, delayed, worker>>
      BY <1>6, <2>2 DEF ReadPointer
    <3> QED  BY <1>3, <2>1, <2>2, <3>1, <3>2, Finding
  <2>3. CASE at' = [at EXCEPT ![m] = "create"] /\ UNCHANGED here /\ pointer' \in {pointer, None}
    <3>1. UNCHANGED <<status, alias, rows, merged, todo, want, delayed, worker>>
      BY <1>6 DEF ReadPointer
    <3>2. LookInv'  BY <1>1, <2>1, <2>3, <3>1 DEF Base, LookInv, LocalTypes
    <3> QED  BY <2>1, <2>3, <3>1, <3>2, Looking DEF After, ApiStep
  <2> QED  BY <1>6, <2>2, <2>3 DEF ReadPointer
<1>7. CASE Create(m)
  <2>1. /\ at[m] = "create" /\ Resolved(m, want[m])
        /\ status' = [status EXCEPT ![want[m]] = IF @ = "absent" THEN "active" ELSE @]
        /\ UNCHANGED <<alias, pointer, rows, merged, todo, want, delayed, worker>>
    BY <1>7 DEF Create
  <2>2. want[m] \in TopicThreads \cup {Boot(m)} /\ (m \in Roots => want[m] = Boot(m))
    BY <2>1 DEF Base, LookInv
  <2>3. want[m] \in Keys  BY <2>2, KeyFacts, TopicThread, IdFacts DEF TopicIds
  <2>4. \A k \in Keys : status'[k] = status[k] \/ (k = want[m] /\ status'[k] = "active")
    BY <1>1, <2>1, <2>3 DEF RowTypes
  <2>5. status'[want[m]] # "absent"  BY <1>1, <2>1, <2>3 DEF RowTypes
  <2>6. \A i \in Ids : status'[Thread(i)] # "absent" => i \in TopicIds
    BY <1>2, <2>2, <2>4, KeyFacts, IdFacts, TopicThread DEF TopicIds
  <2>7. \A k \in Keys : status[k] # "absent" => status'[k] # "absent"  BY <2>4
  <2> QED  BY <2>1, <2>2, <2>3, <2>5, <2>6, <2>7, Finding
<1> QED  BY <1>4, <1>5, <1>6, <1>7

LEMMA Storing ==
  ASSUME TypeOK, Base, NEW m \in Messages, Store(m) \/ CreateTask(m) \/ Acknowledge(m) \/ Enqueue(m)
  PROVE  Preserves
<1>1. RowTypes /\ LocalTypes  BY TwoTypes
<1>2. /\ at[m] \in After /\ at'[m] \in After \ {"quote"}
      /\ \A n \in Messages : n # m => at'[n] = at[n]
      /\ UNCHANGED <<alias, pointer, merged, todo, want, here, delayed>>
  BY <1>1 DEF Store, CreateTask, Acknowledge, Enqueue, Goes, After, LocalTypes, sessions
<1>3. here[m] \in Keys /\ here[m] # None /\ status[here[m]] # "absent"
  BY <1>2, KeyFacts DEF Base, FoundInv
<1>4. \A k \in Keys : status[k] = "absent" <=> status'[k] = "absent"
  BY <1>1, <1>3 DEF Store, CreateTask, Acknowledge, Enqueue, sessions, RowTypes
<1>5. at[m] # "done" /\ turn[m] = "none" /\ at'[m] # "quote"
  BY <1>1 DEF Store, CreateTask, Acknowledge, Enqueue, Goes, Base, WorkInv, LocalTypes
<1>6. at'[m] \notin {"new", "alias", "key", "pointer"}  BY <1>2 DEF After
<1>7. LookInv'   BY <1>2, <1>6 DEF Base, LookInv, After
<1>8. FoundInv'
  <2>1. ASSUME NEW n \in Messages PROVE FoundInv!(n)'
    <3>1. CASE n = m  BY <1>2, <1>3, <1>4, <1>5, <3>1 DEF Base, FoundInv
    <3>2. CASE n # m  BY <1>2, <1>4, <3>2 DEF Base, FoundInv
    <3> QED  BY <3>1, <3>2
  <2> QED  BY <2>1 DEF FoundInv
<1>9. ExistInv'
  BY <1>1, <1>2, <1>4, KeyFacts DEF Base, ExistInv, RowTypes, Sessions
<1>10. Keeps     BY <1>2, <1>4 DEF Keeps
<1>11. ASSUME Agreed PROVE Homes' = Homes /\ ThreadInv' /\ HomeInv'
  <2>1. Homes' = Homes  BY <1>2, HomesKept DEF Messages
  <2>2. ThreadInv'  BY <1>2, <1>11, <2>1 DEF Agreed, ThreadInv, Messages
  <2>3. HomeInv'    BY <1>2, <1>11, <2>1 DEF Agreed, HomeInv, BotsAgree
  <2> QED  BY <2>1, <2>2, <2>3
<1>12. CASE Store(m) \/ CreateTask(m) \/ Acknowledge(m)
  <2>1. /\ \A n \in Messages : n # m => task'[n] = task[n] /\ message'[n] = message[n]
        /\ task'[m] \in {task[m], here[m]} /\ message'[m] \in {message[m], here[m]}
        /\ UNCHANGED <<turn, local>>
    BY <1>1, <1>12 DEF Store, CreateTask, Acknowledge, RowTypes, sessions, rows, worker
  <2>2. WorkInv'  BY <1>2, <1>4, <1>5, <2>1 DEF Base, WorkInv
  <2>3. ASSUME Agreed PROVE FreshInv'
    BY <1>1, <1>2, <1>12, <2>1, <2>3 DEF Agreed, FreshInv, Store, CreateTask, Acknowledge, Goes, LocalTypes
  <2>4. ASSUME Agreed PROVE RowInv'
    <3>1. ASSUME NEW n \in Messages PROVE RowInv!(n)'
      <4>1. CASE n = m
        <5>1. at'[m] \in {"task", "reply", "upgrade", "enqueue", "done"} => message'[m] # None
          BY <1>1, <1>3, <1>12, <2>4 DEF Store, CreateTask, Acknowledge, Goes, LocalTypes, RowTypes, Agreed, RowInv, sessions, rows
        <5>2. at'[m] \in {"reply", "upgrade", "enqueue", "done"} => task'[m] # None
          BY <1>1, <1>3, <1>12, <2>4 DEF Store, CreateTask, Acknowledge, Goes, LocalTypes, RowTypes, Agreed, RowInv, sessions, rows
        <5> QED  BY <1>2, <1>11, <2>1, <2>4, <4>1, <5>1, <5>2 DEF Agreed, RowInv
      <4>2. CASE n # m  BY <1>2, <1>11, <2>1, <2>4, <4>2 DEF Agreed, RowInv
      <4> QED  BY <4>1, <4>2
    <3> QED  BY <3>1 DEF RowInv
  <2>5. ASSUME Agreed PROVE TurnInv' /\ MovedInv'
    <3>1. \A n \in Messages : turn[n] # "none" => n # m /\ task'[n] = task[n] /\ message'[n] = message[n]
      BY <1>5, <2>1
    <3>2. TurnInv'  BY <1>2, <1>11, <2>1, <2>5, <3>1 DEF Agreed, TurnInv, Started
    <3>3. MovedInv'  BY <1>2, <2>1, <2>5, <3>1 DEF Agreed, MovedInv, Started
    <3> QED  BY <3>2, <3>3
  <2> QED  BY <1>7, <1>8, <1>9, <1>10, <1>11, <2>2, <2>3, <2>4, <2>5 DEF Preserves, Base, Agreed
<1>13. CASE Enqueue(m)
  <2>1. /\ at[m] = "enqueue" /\ at'[m] = "done" /\ turn'[m] = "start" /\ local'[m] = here[m]
        /\ \A n \in Messages : n # m => turn'[n] = turn[n] /\ local'[n] = local[n]
        /\ UNCHANGED <<task, message>>
    BY <1>1, <1>13 DEF Enqueue, Goes, LocalTypes, sessions, rows
  <2>2. WorkInv'
    <3>1. ASSUME NEW n \in Messages PROVE WorkInv!(n)'
      <4>1. CASE n = m  BY <1>3, <1>4, <2>1, <4>1
      <4>2. CASE n # m  BY <1>2, <1>4, <2>1, <4>2 DEF Base, WorkInv
      <4> QED  BY <4>1, <4>2
    <3> QED  BY <3>1 DEF WorkInv
  <2>3. ASSUME Agreed PROVE FreshInv' /\ RowInv' /\ MovedInv'
    <3>1. FreshInv'  BY <1>2, <1>5, <2>1, <2>3 DEF Agreed, FreshInv
    <3>2. RowInv'    BY <1>2, <1>11, <2>1, <2>3 DEF Agreed, RowInv, After
    <3>3. MovedInv'  BY <1>2, <2>1, <2>3 DEF Agreed, MovedInv, Started
    <3> QED  BY <3>1, <3>2, <3>3
  <2>4. ASSUME Agreed PROVE TurnInv'
    <3>1. ASSUME NEW n \in Messages PROVE TurnInv!(n)'
      <4>1. CASE n = m  BY <1>2, <2>1, <4>1 DEF Started
      <4>2. CASE n # m  BY <1>2, <1>11, <2>1, <2>4, <4>2 DEF Agreed, TurnInv, Started
      <4> QED  BY <4>1, <4>2
    <3> QED  BY <3>1 DEF TurnInv
  <2> QED  BY <1>7, <1>8, <1>9, <1>10, <1>11, <2>2, <2>3, <2>4 DEF Preserves, Base, Agreed
<1> QED  BY <1>12, <1>13

LEMMA Aliasing ==
  ASSUME TypeOK, Base, NEW m \in Messages, Quote(m) \/ AliasTopic(m) \/ Upgrade(m)
  PROVE  Preserves
<1>1. RowTypes /\ LocalTypes  BY TwoTypes
<1>2. /\ Advances /\ at[m] \in After
      /\ UNCHANGED <<todo, want, here, turn, local>>
      /\ \A n \in Messages : delayed'[n] => delayed[n] \/ at[n] = "quote"
  BY <1>1 DEF Quote, AliasTopic, Upgrade, Goes, Advances, LocalTypes, worker, After, Base, FoundInv
<1>3. \A r \in Roots : at'[r] \in After <=> at[r] \in After
  BY <1>2 DEF Advances, Messages, After
<1>4. here[m] \in Keys /\ status[here[m]] # "absent"  BY <1>2 DEF Base, FoundInv
<1>5. ASSUME ExistInv', \A k \in Keys : status[k] # "absent" => status'[k] # "absent"
      PROVE  Base' /\ Keeps
  <2>1. WorkInv'  BY <1>2, <1>5 DEF Advances, Base, WorkInv
  <2> QED  BY <1>2, <1>5, <2>1, BaseKept
<1>6. ASSUME AllInv, NEW I, MovesHome(I), HomeInv', UsesUp(I) PROVE Agreed'
  BY <1>2, <1>6, MergeKeeps, MergeKeepsTurns DEF Agreed
<1>7. ASSUME UNCHANGED sessions PROVE Preserves
  <2>1. Base' /\ Keeps  BY <1>5, <1>7 DEF Base, ExistInv, sessions
  <2>2. ASSUME Agreed PROVE Agreed'
    <3>1. MovesHome({}) /\ HomeInv'
      BY <1>2, <1>3, <1>7, <2>2, RowsKept DEF Agreed
    <3>2. UsesUp({})  BY <1>2 DEF UsesUp
    <3> QED  BY <1>6, <2>2, <3>1, <3>2, Together
  <2> QED  BY <2>1, <2>2 DEF Preserves
<1>8. ASSUME m \in Roots, NEW I, I \subseteq TopicIds \cup {Ack(m)}, AliasThreadKeys(here[m], I),
             Ack(m) \in I => at[m] = "upgrade" /\ at'[m] = "enqueue"
      PROVE  Preserves
  <2>1. I \subseteq Ids  BY <1>8, IdFacts DEF TopicIds
  <2>2. Base' /\ Keeps  BY <1>1, <1>4, <1>5, <1>8, <2>1, AliasExists DEF Base
  <2>3. ASSUME Agreed PROVE Agreed'
    <3>1. AllInv  BY <2>3, Together
    <3>2. Ack(m) \in I => alias[Ack(m)] = None  BY <1>8, <2>3 DEF Agreed, FreshInv
    <3>3. MovesHome(I) /\ HomeInv'  BY <1>2, <1>3, <1>8, <3>1, <3>2, RootAlias
    <3>4. UsesUp(I)  BY <1>2, <1>8 DEF UsesUp
    <3> QED  BY <1>6, <3>1, <3>3, <3>4
  <2> QED  BY <2>2, <2>3 DEF Preserves
<1>9. CASE Quote(m)
  <2>1. m \in Roots  BY <1>9 DEF Quote, Base, FoundInv
  <2>2. PICK I : I = {Own(m)}  OBVIOUS
  <2>3. I \subseteq TopicIds  BY <2>1, <2>2, IdFacts DEF TopicIds
  <2>4. Ack(m) \notin I  BY <2>3, IdFacts
  <2>5. AliasThreadKeys(here[m], I)  BY <1>9, <2>2 DEF Quote
  <2> QED  BY <1>8, <2>1, <2>3, <2>4, <2>5
<1>10. CASE AliasTopic(m)
  <2>1. m \in Roots  BY <1>10 DEF AliasTopic, Base, FoundInv
  <2>2. PICK I : I = {Topic}  OBVIOUS
  <2>3. I \subseteq TopicIds  BY <2>2 DEF TopicIds
  <2>4. Ack(m) \notin I  BY <2>3, IdFacts
  <2>5. AliasThreadKeys(here[m], I)  BY <1>10, <2>2 DEF AliasTopic
  <2> QED  BY <1>8, <2>1, <2>3, <2>4, <2>5
<1>11. CASE Upgrade(m)
  <2>1. at[m] = "upgrade" /\ at'[m] = "enqueue"  BY <1>1, <1>11 DEF Upgrade, Goes, LocalTypes
  <2>2. PICK I : I = {Own(m), Ack(m)}  OBVIOUS
  <2>3. I \subseteq Ids  BY <2>2, IdFacts
  <2>4. CASE AliasThreadKeys(here[m], I) /\ m \in Roots
    <3>1. I \subseteq TopicIds \cup {Ack(m)}  BY <2>2, <2>4, IdFacts DEF TopicIds
    <3> QED  BY <1>8, <2>1, <2>4, <3>1
  <2>5. CASE AliasThreadKeys(here[m], I) /\ m \in Replies
    <3>1. Base' /\ Keeps  BY <1>1, <1>4, <1>5, <2>3, <2>5, AliasExists DEF Base
    <3>2. ASSUME Agreed PROVE Agreed'
      <4>1. alias[Ack(m)] = None /\ alias[Own(m)] = None
        BY <2>1, <2>5, <3>2 DEF Agreed, FreshInv
      <4>2. \A i \in I : i \notin TopicIds /\ alias[i] = None  BY <2>2, <2>5, <4>1, IdFacts
      <4>3. MovesHome(I) /\ HomeInv'
        BY <1>1, <1>2, <1>3, <1>4, <2>3, <2>5, <3>2, <4>2, FreshAlias DEF Agreed, Base
      <4>4. UsesUp(I)  BY <1>2, <2>1, <2>2, <2>5 DEF UsesUp
      <4> QED  BY <1>6, <3>2, <4>3, <4>4, Together
    <3> QED  BY <3>1, <3>2 DEF Preserves
  <2> QED  BY <1>7, <1>11, <2>2, <2>4, <2>5 DEF Upgrade, Messages
<1> QED  BY <1>9, <1>10, <1>11

LEMMA Refreshing ==
  ASSUME TypeOK, Base, NEW m \in Messages,
         NEW from \in {"start", "run"}, NEW changed \in {"adopt", "readopt"},
         NEW same \in {"run", "feedback"}, Refresh(m, from, changed, same)
  PROVE  Preserves
<1> DEFINE s == local[m]  home == Canonical(s)
<1>1. RowTypes /\ LocalTypes  BY TwoTypes
<1>2. /\ turn[m] = from /\ at[m] = "done" /\ s \in Keys /\ status[s] # "absent"
      /\ local' = [local EXCEPT ![m] = home]
      /\ turn' = [turn EXCEPT ![m] = IF home = s THEN same ELSE changed]
      /\ UNCHANGED api
  BY DEF Refresh, TurnGoes, Base, WorkInv
<1>3. UNCHANGED <<at, todo, want, here, delayed>>  BY <1>2 DEF api
<1>4. Base' /\ Keeps
  <2>1. /\ ExistInv' /\ \A k \in Keys : status[k] # "absent" => status'[k] # "absent"
        /\ home \in Keys /\ status'[home] # "absent"
    BY <1>1, <1>2, CanonicalExists DEF Refresh, Base
  <2>2. WorkInv'
    <3>1. ASSUME NEW n \in Messages PROVE WorkInv!(n)'
      <4>1. CASE n = m  BY <1>1, <1>2, <1>3, <2>1, <4>1 DEF LocalTypes
      <4>2. CASE n # m  BY <1>1, <1>2, <1>3, <2>1, <4>2 DEF Base, WorkInv, LocalTypes
      <4> QED  BY <4>1, <4>2
    <3> QED  BY <3>1 DEF WorkInv
  <2> QED  BY <1>3, <2>1, <2>2, BaseKept DEF Advances
<1>5. ASSUME Agreed PROVE Agreed'
  <2>1. AllInv  BY <1>5, Together
  <2>2. /\ MovesHome({}) /\ HomeInv'
        /\ home # s =>
             /\ home \in Homes /\ s \notin Homes /\ s \in merged'
             /\ \A n \in Messages : task'[n] # s /\ message'[n] # s
        /\ home = s => UNCHANGED sessions
    BY <1>2, <1>3, <2>1, TurnCanonicalizes DEF Refresh
  <2>3. /\ turn'[m] = IF home = s THEN same ELSE changed
        /\ local'[m] = home
        /\ \A n \in Messages : n # m => turn'[n] = turn[n] /\ local'[n] = local[n]
    BY <1>1, <1>2 DEF LocalTypes
  <2> HIDE DEF home, s
  <2>4. ThreadInv' /\ FreshInv' /\ RowInv'
    <3>1. UsesUp({})  BY <1>2, <2>3 DEF UsesUp
    <3>2. Advances  BY <1>3 DEF Advances
    <3> QED  BY <1>3, <2>1, <2>2, <3>1, <3>2, MergeKeeps
  <2>5. Homes' = Homes /\ \A k \in Homes : k \notin merged /\ k \notin merged'
    BY <2>1, <2>2 DEF MovesHome, HomeInv, AllInv
  <2>6. \A i \in Ids : s = Thread(i) /\ home = s => alias[i] \in {None, s}
    BY <1>2, KeyFacts DEF Canonical, home
  <2>7. ASSUME NEW i \in TopicIds, Started(m)', here[m] = Thread(i), alias'[i] \notin {None, here[m]}
         PROVE  here[m] \in merged'
    <3>1. CASE from = "run"
      <4>1. Started(m)  BY <1>2, <3>1 DEF Started
      <4>2. status[Thread(i)] # "absent"  BY <2>1, <1>2, <2>7 DEF AllInv, FoundInv, After
      <4> QED  BY <2>1, <2>2, <2>7, <4>1, <4>2 DEF AllInv, TurnInv, MovesHome
    <3>2. CASE from = "start"
      <4>1. s = here[m]  BY <2>1, <1>2, <3>2 DEF AllInv, TurnInv, s
      <4>2. CASE home # s  BY <2>2, <4>1, <4>2
      <4>3. CASE home = s
        <5>1. alias' = alias  BY <2>2, <4>3 DEF sessions
        <5>2. i \in Ids  BY IdFacts DEF TopicIds
        <5> QED  BY <2>6, <2>7, <4>1, <4>3, <5>1, <5>2
      <4> QED  BY <4>2, <4>3
    <3> QED  BY <3>1, <3>2
  <2>8. TurnInv'
    <3>1. ASSUME NEW n \in Messages PROVE TurnInv!(n)'
      <4>1. CASE n = m
        <5>1. turn'[m] # "start" /\ (turn'[m] \in {"adopt", "readopt"} => home # s)  BY <2>3
        <5>2. home \in {here[m]} \cup Homes  BY <1>2, <2>1, <2>2 DEF AllInv, TurnInv, s
        <5> QED  BY <1>2, <1>3, <2>2, <2>3, <2>5, <2>7, <4>1, <5>1, <5>2
      <4>2. CASE n # m
        <5>1. ASSUME NEW i \in TopicIds, Started(n), here[n] = Thread(i), alias'[i] \notin {None, here[n]}
              PROVE  here[n] \in merged'
          <6>1. status[Thread(i)] # "absent"
            BY <2>1, <5>1 DEF AllInv, WorkInv, FoundInv, Started, After
          <6> QED  BY <2>1, <2>2, <5>1, <6>1 DEF AllInv, TurnInv, MovesHome
        <5> QED  BY <2>1, <1>3, <2>3, <2>5, <4>2, <5>1 DEF AllInv, TurnInv, Started
      <4> QED  BY <4>1, <4>2
    <3> QED  BY <3>1 DEF TurnInv
  <2>9. MovedInv'
    <3>1. ASSUME NEW n \in Messages, Started(n)
          PROVE  task'[n] \notin merged' /\ message'[n] \notin merged'
      BY <2>1, <2>2, <3>1 DEF AllInv, MovedInv, MovesHome
    <3>2. ASSUME from = "start" PROVE task'[m] \notin merged' /\ message'[m] \notin merged'
      <4>1. s = here[m]  BY <2>1, <1>2, <3>2 DEF AllInv, TurnInv, s
      <4>2. task[m] \in {s} \cup Homes /\ message[m] \in {s} \cup Homes
        BY <2>1, <1>2, <4>1 DEF AllInv, RowInv
      <4>3. CASE home # s
        <5>1. /\ task'[m] = task[m] \/ task'[m] \in Homes
              /\ message'[m] = message[m] \/ message'[m] \in Homes
          BY <2>2 DEF MovesHome
        <5> QED  BY <2>2, <2>5, <4>2, <4>3, <5>1
      <4>4. CASE home = s
        <5>1. s \notin merged
          <6>1. SUFFICES ASSUME s \in merged PROVE FALSE  OBVIOUS
          <6>2. PICK i \in TopicIds : s = Thread(i)  BY <2>1, <6>1, TopicThread DEF AllInv, HomeInv
          <6>3. i \in Ids  BY IdFacts DEF TopicIds
          <6>4. alias[i] # None /\ alias[i] \in {None} \cup Homes
            BY <2>1, <6>1, <6>2 DEF AllInv, HomeInv
          <6> QED  BY <2>5, <2>6, <4>4, <6>1, <6>2, <6>3, <6>4
        <5>2. UNCHANGED <<task, message, merged>>  BY <2>2, <4>4 DEF sessions, rows
        <5> QED  BY <2>5, <4>2, <5>1, <5>2
      <4> QED  BY <4>3, <4>4
    <3>3. \A n \in Messages : Started(n)' => Started(n) \/ (n = m /\ from = "start")
      BY <1>2, <2>3 DEF Started
    <3> QED  BY <3>1, <3>2, <3>3 DEF MovedInv
  <2> QED  BY <2>2, <2>4, <2>8, <2>9 DEF Agreed
<1> QED  BY <1>4, <1>5 DEF Preserves

LEMMA Adopting ==
  ASSUME TypeOK, Base, NEW m \in Messages, NEW from \in {"adopt", "readopt"},
         NEW to \in {"run", "feedback"}, Adopt(m, from, to)
  PROVE  Preserves
<1>1. RowTypes /\ LocalTypes  BY TwoTypes
<1>2. /\ UNCHANGED <<status, alias, pointer, message, merged, local>>
      /\ UNCHANGED <<at, todo, want, here, delayed>>
      /\ turn[m] = from /\ at[m] = "done"
      /\ task'[m] = local[m] /\ turn'[m] = to
      /\ \A n \in Messages : n # m => task'[n] = task[n] /\ turn'[n] = turn[n]
  BY <1>1 DEF Adopt, api, TurnGoes, RowTypes, LocalTypes, Base, WorkInv
<1>3. Base' /\ Keeps
  BY <1>2 DEF Base, LookInv, FoundInv, ExistInv, WorkInv, Keeps
<1>4. ASSUME Agreed PROVE Agreed'
  <2>1. Homes' = Homes  BY <1>2, HomesKept
  <2>2. local[m] \in Homes /\ local[m] # None /\ local[m] \notin merged
    BY <1>2, <1>4, HomesExist DEF Agreed, Base, HomeInv, TurnInv
  <2>3. ThreadInv' /\ HomeInv'  BY <1>2, <1>4, <2>1 DEF Agreed, ThreadInv, HomeInv, BotsAgree
  <2>4. FreshInv'  BY <1>2, <1>4 DEF Agreed, FreshInv
  <2>5. RowInv'    BY <1>2, <1>4, <2>1, <2>2 DEF Agreed, RowInv
  <2>6. TurnInv'
    <3>1. ASSUME NEW n \in Messages PROVE TurnInv!(n)'
      <4>1. CASE n = m  BY <1>2, <1>4, <2>1, <4>1 DEF Agreed, TurnInv, Started
      <4>2. CASE n # m  BY <1>2, <1>4, <2>1, <4>2 DEF Agreed, TurnInv, Started
      <4> QED  BY <4>1, <4>2
    <3> QED  BY <3>1 DEF TurnInv
  <2>7. MovedInv'  BY <1>2, <1>4, <2>2 DEF Agreed, MovedInv, Started
  <2> QED  BY <2>3, <2>4, <2>5, <2>6, <2>7 DEF Agreed
<1> QED  BY <1>3, <1>4 DEF Preserves

LEMMA Telling == ASSUME TypeOK, Base, NEW m \in Messages, Feedback(m) PROVE Preserves
<1>1. RowTypes /\ LocalTypes  BY TwoTypes
<1>2. /\ turn[m] = "feedback" /\ turn'[m] = "done" /\ UNCHANGED local
      /\ \A n \in Messages : n # m => turn'[n] = turn[n]
      /\ UNCHANGED <<at, todo, want, here, delayed>>
  BY <1>1 DEF Feedback, TurnGoes, LocalTypes, api
<1>3. PICK I : I = {Sent(m)}  OBVIOUS
<1>4. I \subseteq Ids /\ local[m] \in Keys /\ status[local[m]] # "absent"
  BY <1>2, <1>3, IdFacts DEF Base, WorkInv
<1>5. Base' /\ Keeps
  <2>1. ExistInv' /\ \A k \in Keys : status[k] # "absent" => status'[k] # "absent"
    <3>1. CASE UNCHANGED sessions  BY <3>1 DEF Base, ExistInv, sessions
    <3>2. CASE AliasThreadKeys(local[m], I)  BY <1>1, <1>4, <3>2, AliasExists DEF Base
    <3> QED  BY <1>3, <3>1, <3>2 DEF Feedback
  <2>2. WorkInv'  BY <1>2, <2>1 DEF Base, WorkInv
  <2> QED  BY <1>2, <2>1, <2>2, BaseKept DEF Advances
<1>6. ASSUME Agreed PROVE Agreed'
  <2>1. AllInv  BY <1>6, Together
  <2>2. MovesHome(I) /\ HomeInv'
    <3>1. CASE UNCHANGED sessions
      <4>1. MovesHome({}) /\ HomeInv'  BY <1>2, <2>1, <3>1, RowsKept DEF AllInv
      <4>2. MovesHome(I)  BY <4>1 DEF MovesHome
      <4> QED  BY <4>1, <4>2
    <3>2. CASE AliasThreadKeys(local[m], I)
      <4>1. alias[Sent(m)] = None  BY <1>2, <2>1 DEF AllInv, FreshInv
      <4>2. \A i \in I : i \notin TopicIds /\ alias[i] = None
        BY <1>3, <4>1, IdFacts
      <4> QED  BY <1>1, <1>2, <1>4, <2>1, <3>2, <4>2, FreshAlias DEF AllInv
    <3> QED  BY <1>3, <3>1, <3>2 DEF Feedback
  <2>3. Advances /\ UsesUp(I)  BY <1>2, <1>3 DEF Advances, UsesUp
  <2>4. ThreadInv' /\ FreshInv' /\ RowInv'
    BY <1>2, <2>1, <2>2, <2>3, MergeKeeps
  <2>5. ASSUME NEW n \in Messages, Started(n), NEW i \in TopicIds,
               here[n] = Thread(i), alias'[i] \notin {None, here[n]}
        PROVE  here[n] \in merged'
    <3>1. status[Thread(i)] # "absent"
      BY <2>1, <2>5 DEF AllInv, WorkInv, FoundInv, Started, After
    <3> QED  BY <2>1, <2>2, <2>5, <3>1 DEF AllInv, TurnInv, MovesHome
  <2>6. \A n \in Messages : Started(n)' <=> Started(n)  BY <1>2 DEF Started
  <2>7. TurnInv'
    <3>1. ASSUME NEW n \in Messages PROVE TurnInv!(n)'
      BY <1>2, <2>1, <2>2, <2>5, <2>6 DEF AllInv, TurnInv, MovesHome
    <3> QED  BY <3>1 DEF TurnInv
  <2>8. MovedInv'  BY <2>1, <2>2, <2>6 DEF AllInv, MovedInv, MovesHome
  <2> QED  BY <2>2, <2>4, <2>7, <2>8 DEF Agreed
<1> QED  BY <1>5, <1>6 DEF Preserves

LEMMA Commanding == ASSUME TypeOK, Base, Users PROVE Preserves
<1>1. RowTypes /\ LocalTypes  BY TwoTypes
<1>2. UNCHANGED <<alias, rows, merged, at, todo, want, here, delayed, turn, local>>
  BY DEF Users, Command, NewSession, UseSession, CloseSession, Reset, api, worker
<1>3. /\ \A k \in Keys : status[k] # "absent" => status'[k] # "absent"
      /\ \A i \in Ids : status'[Thread(i)] # "absent" => status[Thread(i)] # "absent"
      /\ pointer' # None => pointer' \in Keys /\ status'[pointer'] # "absent"
  <2> USE DEF RowTypes, Command, Sessions
  <2>1. ASSUME NEW n \in Manuals, NewSession(n) PROVE <1>3
    BY <1>1, <2>1, KeyFacts DEF NewSession
  <2>2. ASSUME NEW k \in Keys, UseSession(k) PROVE <1>3
    BY <1>1, <2>2, KeyFacts DEF UseSession
  <2>3. ASSUME NEW k \in Keys, CloseSession(k) PROVE <1>3
    BY <1>1, <2>3, KeyFacts DEF CloseSession, Base, ExistInv
  <2>4. CASE Reset  BY <1>1, <2>4, KeyFacts DEF Reset
  <2> QED  BY <2>1, <2>2, <2>3, <2>4 DEF Users
<1>4. ExistInv'  BY <1>1, <1>2, <1>3 DEF Base, ExistInv, RowTypes, Sessions
<1>5. LookInv' /\ FoundInv' /\ WorkInv' /\ Keeps
  BY <1>2, <1>3 DEF Base, LookInv, FoundInv, WorkInv, Keeps
<1>6. ASSUME Agreed PROVE Agreed'
  <2>1. Homes' = Homes  BY <1>2, HomesKept
  <2> QED  BY <1>2, <1>6, <2>1 DEF Agreed, ThreadInv, FreshInv, HomeInv, BotsAgree, RowInv, TurnInv,
              MovedInv, Started, rows
<1> QED  BY <1>4, <1>5, <1>6 DEF Preserves, Base

(***************************************************************************)
(* Every step                                                              *)
(***************************************************************************)
LEMMA Stuttering == ASSUME TypeOK, Base, UNCHANGED vars PROVE Preserves
<1>1. UNCHANGED <<status, alias, pointer, task, message, merged, at, todo, want, here, delayed,
                  turn, local>>
  BY DEF vars, sessions, rows, api, worker
<1>2. Base' /\ Keeps
  BY <1>1 DEF Base, LookInv, FoundInv, ExistInv, WorkInv, Keeps
<1>3. ASSUME Agreed PROVE Agreed'
  <2>1. Homes' = Homes  BY <1>1, HomesKept
  <2> QED  BY <1>1, <1>3, <2>1 DEF Agreed, ThreadInv, FreshInv, HomeInv, BotsAgree, RowInv, TurnInv,
              MovedInv, Started
<1> QED  BY <1>2, <1>3 DEF Preserves

LEMMA Working == ASSUME TypeOK, Base, NEW m \in Messages, Work(m) PROVE Preserves
<1>1. CASE Start(m)    BY <1>1, Refreshing, Adopting DEF Start
<1>2. CASE Finish(m)   BY <1>2, Refreshing, Adopting DEF Finish
<1>3. CASE Feedback(m) BY <1>3, Telling
<1> QED  BY <1>1, <1>2, <1>3 DEF Work

LEMMA Inductive == ASSUME IInv, [Next]_vars PROVE IInv'
<1>1. TypeOK /\ Base  BY DEF IInv
<1>2. Preserves
  <2>1. CASE UNCHANGED vars  BY <1>1, <2>1, Stuttering
  <2>2. ASSUME NEW m \in Messages, Receive(m) PROVE Preserves  BY <1>1, <2>2, Receiving
  <2>3. ASSUME NEW m \in Messages, Handle(m) PROVE Preserves
    BY <1>1, <2>3, Resolving, Storing, Aliasing DEF Handle
  <2>4. ASSUME NEW m \in Messages, AliasTopic(m) PROVE Preserves  BY <1>1, <2>4, Aliasing
  <2>5. ASSUME NEW m \in Messages, Work(m) PROVE Preserves  BY <1>1, <2>5, Working
  <2>6. CASE Users  BY <1>1, <2>6, Commanding
  <2> QED  BY <2>1, <2>2, <2>3, <2>4, <2>5, <2>6 DEF Next
<1>3. TypeOK'  BY <1>1, Types
<1>4. ASSUME BotsAgree' PROVE Agreed'
  BY <1>2, <1>4, StillAgree DEF Preserves, IInv
<1> QED  BY <1>2, <1>3, <1>4 DEF Preserves, IInv

(***************************************************************************)
(* What the invariant says                                                 *)
(***************************************************************************)
LEMMA MergedLeadsOn == AllInv => LeadsOn
<1> SUFFICES ASSUME AllInv, NEW s \in merged
             PROVE  s.kind = "thread" /\ alias[s.id] \notin merged \cup {None}
  BY DEF LeadsOn
<1>1. PICK i \in TopicIds : s = Thread(i)  BY TopicThread DEF AllInv, HomeInv
<1>2. s.kind = "thread" /\ s.id = i  BY <1>1, IdFacts, KeyFacts DEF TopicIds
<1>3. alias[i] # None /\ alias[i] \in Homes  BY <1>1 DEF AllInv, HomeInv
<1> QED  BY <1>2, <1>3 DEF AllInv, HomeInv

LEMMA OneHome == AllInv => TopicIsOneSession
<1> SUFFICES ASSUME AllInv, alias[RootId] # None, alias[Topic] # None
             PROVE  /\ alias[RootId] = alias[Topic]
                    /\ \A m \in Messages : Started(m) /\ InTopic(m) =>
                         task[m] = alias[RootId] /\ message[m] = alias[RootId]
  BY DEF TopicIsOneSession
<1> DEFINE h == alias[RootId]
<1>1. h \in Homes /\ alias[Topic] = h /\ \A s \in Homes : s = h
  BY DEF AllInv, HomeInv, BotsAgree, TopicIds
<1>2. \A i \in TopicIds : alias[i] = h /\ h # None  BY <1>1 DEF TopicIds
<1> HIDE DEF h
<1>3. ASSUME NEW m \in Messages, Started(m), InTopic(m) PROVE task[m] = h /\ message[m] = h
  <2>1. at[m] = "done" /\ at[m] \in After  BY <1>3 DEF AllInv, WorkInv, Started, After
  <2>2. /\ task[m] \in {here[m], h} /\ message[m] \in {here[m], h}
        /\ task[m] \notin merged /\ message[m] \notin merged
    BY <1>1, <1>3, <2>1 DEF AllInv, RowInv, MovedInv
  <2>3. CASE here[m] = h  BY <2>2, <2>3
  <2>4. CASE here[m] # h
    <3>1. m \notin Roots  BY <1>1, <2>1, <2>4 DEF Homes
    <3>2. want[m] # Boot(m)
      BY <1>3, <3>1, IdFacts, KeyFacts DEF InTopic
    <3>3. here[m] \in TopicThreads
      BY <1>1, <2>1, <2>4, <3>1, <3>2 DEF AllInv, ThreadInv, Messages
    <3>4. PICK i \in TopicIds : here[m] = Thread(i)  BY <3>3, TopicThread
    <3>5. here[m] \in merged  BY <1>2, <1>3, <2>4, <3>4 DEF AllInv, TurnInv
    <3> QED  BY <2>2, <3>5
  <2> QED  BY <2>3, <2>4
<1> QED  BY <1>1, <1>3 DEF h

(***************************************************************************)
(* The theorems                                                            *)
(***************************************************************************)
LEMMA Invariance == Spec => []IInv
<1>1. Init => IInv  BY Initially
<1>2. IInv /\ [Next]_vars => IInv'  BY Inductive
<1> QED  BY <1>1, <1>2, PTL DEF Spec

\* The tables and the variables of handlers and turns hold what they are
\* declared to hold, whatever the bots of a root message resolve it to.
THEOREM TypeCorrect == Spec => []TypeOK
<1>1. IInv => TypeOK  BY DEF IInv
<1> QED  BY <1>1, Invariance, PTL

\* canonicalizeSessionId needs one step only: from a session that was merged
\* away (resolve.ts, mergeSessionIntoTarget) the alias of its key leads to one
\* that was not, however many bots, handlers and turns merged at the same time,
\* unless the pointer of the chat moved between two bots of one root message.
THEOREM MergesLeadOn == Spec => []LeadsOn
<1>1. IInv => LeadsOn  BY MergedLeadsOn, Together DEF IInv, LeadsOn
<1> QED  BY <1>1, Invariance, PTL

\* The turn of processTask has its task and its user message in a session that
\* was not merged away, from its first canonicalization on, with the same exception.
THEOREM TurnsRunWhereTheTopicIs == Spec => []RunsWhereTheTopicIs
<1>1. IInv => RunsWhereTheTopicIs  BY DEF IInv, Agreed, MovedInv, RunsWhereTheTopicIs
<1> QED  BY <1>1, Invariance, PTL

\* When upgradeRootProvisionalSession and the lookup of the topic have set the
\* aliases, all turns of the topic that have started share one session, with the
\* same exception.
THEOREM TopicsAreOneSession == Spec => []TopicIsOneSession
<1>1. IInv => TopicIsOneSession  BY OneHome, Together DEF IInv, TopicIsOneSession
<1> QED  BY <1>1, Invariance, PTL

=============================================================================
