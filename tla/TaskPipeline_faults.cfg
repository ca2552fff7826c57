SPECIFICATION Spec
CONSTANTS
  t1 = t1
  t2 = t2
  a1 = a1
  a2 = a2
  s1 = s1
  s2 = s2
  Tasks = {t1}
  NoTask = NoTask
  Agents = {a1, a2}
  Sessions = {s1, s2}
  AgentOf <- OneAgent
  SessionOf <- EachSession
  Channels = {"lark", "slack"}
  Concurrency = 2
  AgentMaxConcurrency = 2
  MaxStarts = 2
  Paced = TRUE
  MaxSendAttempts = 3
  MaxTransitionAttempts = 2
  TurnsOutliveJobs = TRUE
  LostReplies = FALSE
  MaxFaults = 2
  MaxStops = 1
  MaxRedeliveries = 1
PROPERTY ImplementsLifecycle
INVARIANT ExecutingIsAccountedFor
CHECK_DEADLOCK FALSE
