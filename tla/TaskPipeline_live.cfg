SPECIFICATION FairSpec
CONSTANTS
  t1 = t1
  t2 = t2
  a1 = a1
  a2 = a2
  s1 = s1
  s2 = s2
  Tasks = {t1, t2}
  NoTask = NoTask
  Agents = {a1, a2}
  Sessions = {s1, s2}
  AgentOf <- OneAgent
  SessionOf <- OneSession
  Channels = {"lark"}
  Concurrency = 2
  AgentMaxConcurrency = 2
  MaxStarts = 2
  Paced = FALSE
  MaxSendAttempts = 3
  MaxTransitionAttempts = 3
  TurnsOutliveJobs = FALSE
  LostReplies = FALSE
  MaxFaults = 0
  MaxStops = 0
  MaxRedeliveries = 0
PROPERTY Settles
CHECK_DEADLOCK FALSE
