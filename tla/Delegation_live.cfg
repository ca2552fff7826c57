SPECIFICATION FairSpec
CONSTANTS
  Agents = {a1, a2, a3}
  RootAgent = a1
  NoAgent = NoAgent
  MaxDepth = 1
  MaxFanout = 2
  MaxTotalTasks = 2
  MaxFaults = 1
INVARIANT Budgets
INVARIANT EdgesTellOutcome
INVARIANT ParentIdle
INVARIANT NothingStranded
PROPERTY Resumes
CHECK_DEADLOCK FALSE
