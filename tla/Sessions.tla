------------------------------- MODULE Sessions -------------------------------
(***************************************************************************)
(* Which session a message of a Lark group belongs to, and how sessions    *)
(* that turn out to be one are merged (packages/session resolve.ts and     *)
(* commands.ts, apps/api server.ts, reply-threading.ts and                 *)
(* topic-session-alias.ts, apps/worker task-session-canonicalization.ts).  *)
(*                                                                         *)
(* A root message starts a topic; its session has a key of its own.  Lark  *)
(* makes the topic's id when a first reply lands, and a reply carries that *)
(* id, the root's id, both, or only the message it answers.  The session   *)
(* takes over the topic by aliases of these ids, which are written after   *)
(* the bot replied; replies to other bots of the chat are handled          *)
(* meanwhile and may have opened a session for the topic themselves.       *)
(*                                                                         *)
(*   api      processEvent, a handler for each delivered message           *)
(*   delayed  the lookup of the topic's id for a root that quotes an image *)
(*   worker   the turn of each task                                        *)
(*   user     the commands that move the chat's session pointer            *)
(*                                                                         *)
(* A merge is one transaction.  What it does not see because it is         *)
(* inserted meanwhile, is inserted after it here.  Each task is enqueued   *)
(* and fetched (TaskPipeline has the failures); turns of one session are   *)
(* not kept apart.  A reply quotes no image.                               *)
(***************************************************************************)
EXTENDS Integers, Sequences, SequencesExt

CONSTANTS
  Roots,        \* deliveries of the root message, one for each bot it names
  Replies,      \* messages of the topic
  Root,         \* stands for the root message in ids
  Manuals,      \* sessions that /new may make
  None,
  MaxCommands,  \* bound: commands of users
  MaxFaults     \* bound: aliases that fail

Messages == Roots \cup Replies

ASSUME SessionsAssumption ==
  /\ Roots # {} /\ Roots \cap Replies = {} /\ Root \notin Messages
  /\ Root \notin Manuals
  /\ MaxCommands \in Nat /\ MaxFaults \in Nat

\* What a message may refer to: a user's message, the topic, a bot's message.
Own(m)  == [of |-> IF m \in Roots THEN Root ELSE m, sort |-> "own"]
Topic   == [of |-> Root, sort |-> "topic"]
RootId  == [of |-> Root, sort |-> "own"]
Ack(m)  == [of |-> m, sort |-> "ack"]
Sent(m) == [of |-> m, sort |-> "sent"]
Ids == {RootId, Topic} \cup UNION {{Own(m), Ack(m), Sent(m)} : m \in Messages}

\* A session is known by its key, which is unique.
Boot(m)   == [kind |-> "bootstrap", id |-> Own(m)]
Thread(i) == [kind |-> "thread", id |-> i]
Manual(n) == [kind |-> "manual", id |-> n]
Main      == [kind |-> "main", id |-> Root]
Keys == {Boot(m) : m \in Messages} \cup {Thread(i) : i \in Ids}
          \cup {Manual(n) : n \in Manuals} \cup {Main}

ASSUME NoneAssumption == None \notin Keys

VARIABLES
  (* Postgres *)
  status,    \* sessions.status, "absent" without a row
  alias,     \* session_aliases
  pointer,   \* chat_active_sessions of the chat
  message,   \* the session of each user message
  task,      \* the session of each task
  (* the API's handlers *)
  at,
  todo,      \* ids whose session is still to be looked for
  want,      \* the session to make when none is found
  here,      \* the session found, later that of the job
  delayed,   \* aliasGeneratedTopicWhenAvailable
  (* the worker's turns *)
  turn,
  local,     \* sessionId of the turn
  (* history and bounds *)
  merged,    \* sessions something was merged out of
  commands,
  faults

rows     == <<message, task>>
sessions == <<status, alias, pointer, rows, merged>>
api      == <<at, todo, want, here, delayed>>
worker   == <<turn, local>>
vars     == <<sessions, api, worker, commands, faults>>

ApiStep  == {"new", "alias", "key", "pointer", "create", "quote", "store", "task",
             "reply", "upgrade", "enqueue", "done"}
TurnStep == {"none", "start", "adopt", "run", "readopt", "feedback", "done"}

Init ==
  /\ status = [s \in Keys |-> "absent"]
  /\ alias = [i \in Ids |-> None]
  /\ pointer = None
  /\ message = [m \in Messages |-> None]
  /\ task = message
  /\ at = [m \in Messages |-> "new"]
  /\ todo = [m \in Messages |-> <<>>]
  /\ want = message /\ here = message
  /\ delayed = [m \in Messages |-> FALSE]
  /\ turn = [m \in Messages |-> "none"]
  /\ local = message
  /\ merged = {} /\ commands = 0 /\ faults = 0

(***************************************************************************)
(* Merging.                                                                *)
(***************************************************************************)
Moved(f, Old, s) == [x \in DOMAIN f |-> IF f[x] \in Old THEN s ELSE f[x]]

\* mergeSessionIntoTarget for each session of Old.  The aliases of the ids I
\* are set to s in the same transaction.
Merge(Old, s, I) ==
  /\ alias' = [i \in Ids |-> IF i \in I \/ alias[i] \in Old THEN s ELSE alias[i]]
  /\ pointer' = IF pointer \in Old THEN s ELSE pointer
  /\ message' = Moved(message, Old, s)
  /\ task' = Moved(task, Old, s)
  /\ status' = [x \in Keys |-> IF x \in Old THEN "merged" ELSE status[x]]
  /\ merged' = merged \cup Old

\* Whom the ids I name so far: by alias, or by the key of a session.
Named(I) == {alias[i] : i \in I} \cup {Thread(i) : i \in {j \in I : status[Thread(j)] # "absent"}}

\* Mutant: a session that has the key itself is not looked for.
AliasThreadKeysOnly(s, I) == Merge({alias[i] : i \in I} \ {None, s}, s, I)

\* aliasThreadKeysForSession
AliasThreadKeys(s, I) == Merge(Named(I) \ {None, s}, s, I)

\* Mutant: the alias is looked up under the id, and never found.
CanonicalById(s) == s

\* canonicalizeSessionId: the session whose alias took the key of s.
Canonical(s) ==
  IF s.kind = "thread" /\ alias[s.id] # None THEN alias[s.id] ELSE s

\* Mutant: source and target are swapped.
CanonicalizeBackwards(s) ==
  IF Canonical(s) = s THEN UNCHANGED sessions ELSE Merge({Canonical(s)}, s, {})

Canonicalize(s) ==
  IF Canonical(s) = s THEN UNCHANGED sessions ELSE Merge({s}, Canonical(s), {})

(***************************************************************************)
(* resolveSession.                                                         *)
(***************************************************************************)
Look(m, ids, session, step) ==
  /\ todo' = [todo EXCEPT ![m] = ids]
  /\ want' = [want EXCEPT ![m] = session]
  /\ at' = [at EXCEPT ![m] = step]
  /\ UNCHANGED <<sessions, here, delayed, worker, commands, faults>>

\* A root's parent, if it has one, is a message no session knows.
ReceiveRoot(m) ==
  at[m] = "new" /\ m \in Roots /\ Look(m, <<>>, Boot(m), "pointer")

\* Rule 3, with thread_id or root_id: the first id names a new session.
ReceiveInTopic(m, ids) ==
  at[m] = "new" /\ m \in Replies /\ Look(m, ids, Thread(ids[1]), "alias")

\* The messages of the topic so far.
Posted ==
  {RootId} \cup {Own(m) : m \in {n \in Replies : at[n] # "new"}}
    \cup {Ack(m) : m \in {n \in Messages : at[n] \in {"upgrade", "enqueue", "done"}}}
    \cup {Sent(m) : m \in {n \in Messages : turn[n] = "done"}}

\* Rule 3, with parent_id alone: no session is made for the parent.
ReceiveAnswering(m, i) ==
  /\ at[m] = "new" /\ m \in Replies /\ i # Own(m)
  /\ Look(m, <<i>>, Boot(m), "alias")

Found(m, s) ==
  /\ here' = [here EXCEPT ![m] = s]
  /\ at' = [at EXCEPT ![m] = "store"]

\* A root that quotes an image becomes the owner of its id at once.
FoundRoot(m, s) ==
  /\ here' = [here EXCEPT ![m] = s]
  /\ \E step \in {"quote", "store"} : at' = [at EXCEPT ![m] = step]

Resolved(m, s) == IF m \in Roots THEN FoundRoot(m, s) ELSE Found(m, s)

\* findThreadSession, the alias ...
ReadAlias(m) ==
  /\ at[m] = "alias"
  /\ IF alias[Head(todo[m])] # None
       THEN Resolved(m, alias[Head(todo[m])])
       ELSE at' = [at EXCEPT ![m] = "key"] /\ UNCHANGED here
  /\ UNCHANGED <<sessions, todo, want, delayed, worker, commands, faults>>

\* ... and then the key.
ReadKey(m) ==
  LET s == Thread(Head(todo[m])) IN
  /\ at[m] = "key"
  /\ IF status[s] # "absent"
       THEN Resolved(m, s) /\ UNCHANGED todo
       ELSE /\ todo' = [todo EXCEPT ![m] = Tail(@)]
            /\ at' = [at EXCEPT ![m] = IF Len(todo[m]) > 1 THEN "alias"
                                       ELSE IF want[m].kind = "thread" THEN "create"
                                       ELSE "pointer"]
            /\ UNCHANGED here
  /\ UNCHANGED <<sessions, want, delayed, worker, commands, faults>>

Active == pointer # None /\ status[pointer] = "active"

\* Rule 4: the chat's active session, which may have expired.
ReadPointer(m) ==
  /\ at[m] = "pointer"
  /\ \/ /\ Active
        /\ Resolved(m, pointer)
        /\ UNCHANGED pointer
     \/ /\ ~Active
        /\ at' = [at EXCEPT ![m] = "create"]
        /\ UNCHANGED <<here, pointer>>
     \/ /\ pointer # None /\ pointer' = None
        /\ at' = [at EXCEPT ![m] = "create"]
        /\ UNCHANGED here
  /\ UNCHANGED <<status, alias, rows, merged, todo, want, delayed, worker, commands, faults>>

\* getOrCreateSession: who loses the insert takes the row that won.
Create(m) ==
  /\ at[m] = "create"
  /\ status' = [status EXCEPT ![want[m]] = IF @ = "absent" THEN "active" ELSE @]
  /\ Resolved(m, want[m])
  /\ UNCHANGED <<alias, pointer, rows, merged, todo, want, delayed, worker, commands, faults>>

(***************************************************************************)
(* The rest of the handler.                                                *)
(***************************************************************************)
Goes(m, step) == at' = [at EXCEPT ![m] = step]

\* aliasQuotedImageTopicStart
Quote(m) ==
  /\ at[m] = "quote"
  /\ AliasThreadKeys(here[m], {Own(m)})
  /\ delayed' = [delayed EXCEPT ![m] = TRUE]
  /\ Goes(m, "store")
  /\ UNCHANGED <<todo, want, here, worker, commands, faults>>

\* aliasGeneratedTopicWhenAvailable, when one of its four lookups finds the
\* topic and nothing throws; it need not happen.
AliasTopic(m) ==
  /\ delayed[m]
  /\ AliasThreadKeys(here[m], {Topic})
  /\ delayed' = [delayed EXCEPT ![m] = FALSE]
  /\ UNCHANGED <<at, todo, want, here, worker, commands, faults>>

\* touchSession makes the session active whatever it was.
Store(m) ==
  /\ at[m] = "store"
  /\ status' = [status EXCEPT ![here[m]] = "active"]
  /\ message' = [message EXCEPT ![m] = here[m]]
  /\ Goes(m, "task")
  /\ UNCHANGED <<alias, pointer, task, merged, todo, want, here, delayed, worker,
                 commands, faults>>

CreateTask(m) ==
  /\ at[m] = "task"
  /\ task' = [task EXCEPT ![m] = here[m]]
  /\ Goes(m, "reply")
  /\ UNCHANGED <<status, alias, pointer, message, merged, todo, want, here, delayed,
                 worker, commands, faults>>

\* ThreePhaseFeedback.sendAck.  A message inside a topic needs no alias.
Acknowledge(m) ==
  /\ at[m] = "reply"
  /\ Goes(m, IF want[m].kind = "thread" THEN "enqueue" ELSE "upgrade")
  /\ UNCHANGED <<sessions, todo, want, here, delayed, worker, commands, faults>>

\* upgradeRootProvisionalSession; its failure is logged and forgotten.
Upgrade(m) ==
  /\ at[m] = "upgrade"
  /\ \/ AliasThreadKeys(here[m], {Own(m), Ack(m)}) /\ UNCHANGED faults
     \/ faults < MaxFaults /\ faults' = faults + 1 /\ UNCHANGED sessions
  /\ Goes(m, "enqueue")
  /\ UNCHANGED <<todo, want, here, delayed, worker, commands>>

Enqueue(m) ==
  /\ at[m] = "enqueue"
  /\ turn' = [turn EXCEPT ![m] = "start"]
  /\ local' = [local EXCEPT ![m] = here[m]]
  /\ Goes(m, "done")
  /\ UNCHANGED <<sessions, todo, want, here, delayed, commands, faults>>

(***************************************************************************)
(* The worker: processTask, as far as it deals with its session.           *)
(***************************************************************************)
TurnGoes(m, step) == turn' = [turn EXCEPT ![m] = step]

\* refreshTaskSessionCanonicalId, before anything else and before the end.
Refresh(m, from, changed, same) ==
  /\ turn[m] = from
  /\ Canonicalize(local[m])
  /\ local' = [local EXCEPT ![m] = Canonical(@)]
  /\ TurnGoes(m, IF Canonical(local[m]) = local[m] THEN same ELSE changed)
  /\ UNCHANGED <<api, commands, faults>>

\* ... which then writes what it learned to the task.
Adopt(m, from, to) ==
  /\ turn[m] = from
  /\ task' = [task EXCEPT ![m] = local[m]]
  /\ TurnGoes(m, to)
  /\ UNCHANGED <<status, alias, pointer, message, merged, api, local, commands, faults>>

\* Mutant: the session of the job is taken as it is.
StartAsEnqueued(m) ==
  turn[m] = "start" /\ TurnGoes(m, "run") /\ UNCHANGED <<sessions, api, local, commands, faults>>

Start(m)  == Refresh(m, "start", "adopt", "run") \/ Adopt(m, "adopt", "run")
Finish(m)  == Refresh(m, "run", "readopt", "feedback") \/ Adopt(m, "readopt", "feedback")

\* aliasSentFeedbackMessages; its failure is logged and forgotten.
Feedback(m) ==
  /\ turn[m] = "feedback"
  /\ \/ AliasThreadKeys(local[m], {Sent(m)}) /\ UNCHANGED faults
     \/ faults < MaxFaults /\ faults' = faults + 1 /\ UNCHANGED sessions
  /\ TurnGoes(m, "done")
  /\ UNCHANGED <<api, local, commands>>

(***************************************************************************)
(* Commands.                                                               *)
(***************************************************************************)
Command ==
  /\ commands < MaxCommands
  /\ commands' = commands + 1
  /\ UNCHANGED <<alias, rows, merged, api, worker, faults>>

\* /new
NewSession(n) ==
  /\ Command
  /\ status[Manual(n)] = "absent"
  /\ status' = [status EXCEPT ![Manual(n)] = "active"]
  /\ pointer' = Manual(n)

\* /session use
UseSession(s) ==
  Command /\ status[s] # "absent" /\ pointer' = s /\ UNCHANGED status

\* /close
CloseSession(s) ==
  /\ Command
  /\ status[s] # "absent"
  /\ status' = [status EXCEPT ![s] = "archived"]
  /\ pointer' = IF pointer = s THEN None ELSE pointer

\* /reset
Reset ==
  /\ Command
  /\ pointer' = None
  /\ status' = [status EXCEPT ![Main] = IF @ = "absent" THEN "active" ELSE @]

(***************************************************************************)
(* The specification.                                                      *)
(***************************************************************************)
Receive(m) ==
  \/ ReceiveRoot(m)
  \/ \E ids \in {<<Topic, RootId>>, <<Topic>>, <<RootId>>} : ReceiveInTopic(m, ids)
  \/ \E i \in Posted : ReceiveAnswering(m, i)

Handle(m) ==
  \/ ReadAlias(m) \/ ReadKey(m) \/ ReadPointer(m) \/ Create(m) \/ Quote(m)
  \/ Store(m) \/ CreateTask(m) \/ Acknowledge(m) \/ Upgrade(m) \/ Enqueue(m)

Work(m) == Start(m) \/ Finish(m) \/ Feedback(m)

Users ==
  \/ \E n \in Manuals : NewSession(n)
  \/ \E s \in Keys : UseSession(s) \/ CloseSession(s)
  \/ Reset

Next ==
  \/ \E m \in Messages :
       Receive(m) \/ Handle(m) \/ AliasTopic(m) \/ Work(m)
  \/ Users

Spec == Init /\ [][Next]_vars

\* Event loops go on; nobody has to send a message or a command, and a topic
\* need not be found.
Fairness == \A m \in Messages : WF_vars(Handle(m)) /\ WF_vars(Work(m))

FairSpec == Spec /\ Fairness

(***************************************************************************)
(* Properties.                                                             *)
(***************************************************************************)
Sessions == Keys \cup {None}

TypeOK ==
  /\ status \in [Keys -> {"absent", "active", "merged", "archived"}]
  /\ alias \in [Ids -> Sessions]
  /\ pointer \in Sessions
  /\ message \in [Messages -> Sessions] /\ task \in [Messages -> Sessions]
  /\ want \in [Messages -> Sessions] /\ here \in [Messages -> Sessions]
  /\ local \in [Messages -> Sessions]
  /\ at \in [Messages -> ApiStep]
  /\ todo \in [Messages -> Seq(Ids)]
  /\ delayed \in [Messages -> BOOLEAN]
  /\ turn \in [Messages -> TurnStep]
  /\ merged \subseteq Keys
  /\ commands \in 0..MaxCommands /\ faults \in 0..MaxFaults

Started(m) == turn[m] \notin {"none", "start"}

InTopic(m) == m \in Roots \/ want[m] \in {Thread(Topic), Thread(RootId)}

\* The handlers that have their session.
After == {"quote", "store", "task", "reply", "upgrade", "enqueue", "done"}

\* The home of a topic is the session its root message was resolved to.
Homes == {here[r] : r \in {q \in Roots : at[q] \in After}}

\* The bots a root message names resolve it one by one.  The pointer of the chat
\* may move between them, and then each starts the topic in a session of its own.
BotsAgree == \A s, t \in Homes : s = t

\* From a session that was merged away one step of canonicalizeSessionId leads
\* to one that was not: merges never chase each other, and no alias is left
\* pointing at the session that owned the key (resolve.ts:388-415, 418-432).
\* Excepted is a root message whose bots started it in several sessions.
LeadsOn ==
  BotsAgree => \A s \in merged : s.kind = "thread" /\ alias[s.id] \notin merged \cup {None}

\* A turn that has started never has its task or its user message in a session
\* that was merged away, though the API may have inserted both behind the merge
\* and a merge may come at any moment of the turn.  The exception is the same.
RunsWhereTheTopicIs ==
  BotsAgree =>
    \A m \in Messages : Started(m) => task[m] \notin merged /\ message[m] \notin merged

\* Once the ids of the topic have aliases, every turn of the topic that has
\* started has its rows in the one session they name, whoever opened sessions
\* for the topic before.  The exception is the same.
TopicIsOneSession ==
  BotsAgree /\ alias[RootId] # None /\ alias[Topic] # None =>
    /\ alias[RootId] = alias[Topic]
    /\ \A m \in Messages : Started(m) /\ InTopic(m) =>
         task[m] = alias[RootId] /\ message[m] = alias[RootId]

\* Rows that were inserted behind a merge do not stay there.
StaleRowsMove ==
  \A m \in Messages : task[m] \in merged ~> task[m] \notin merged

\* Refuted without the aliases of TopicIsOneSession: only a root that quotes an
\* image ever gets the topic's id, and an upgrade that fails is not repeated.
TopicIsOneSessionAtRest ==
  (\A m \in Messages : turn[m] = "done") =>
    \A m, n \in Messages : InTopic(m) /\ InTopic(n) => task[m] = task[n]

=============================================================================
