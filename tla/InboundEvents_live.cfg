SPECIFICATION FairSpec
CONSTANTS
  Deliveries = {h1, h2, h3}
  Channels = {"slack", "lark"}
  MaxFaults = 2
INVARIANT RunsOnce
INVARIANT ClosedIsQueued
INVARIANT NothingDropped
PROPERTY EventIsQueued
CHECK_DEADLOCK FALSE
