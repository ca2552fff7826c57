SPECIFICATION FairSpec
CONSTANTS
  Roots = {r1}
  Replies = {m1}
  Root = root
  Manuals = {new1}
  None = None
  MaxCommands = 1
  MaxFaults = 1
INVARIANT LeadsOn
INVARIANT RunsWhereTheTopicIs
INVARIANT TopicIsOneSession
PROPERTY StaleRowsMove
CHECK_DEADLOCK FALSE
