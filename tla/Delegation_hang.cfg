SPECIFICATION FairSpec
CONSTANTS
  Agents = {a1, a2, a3}
  RootAgent = a1
  NoAgent = NoAgent
  MaxDepth = 1
  MaxFanout = 2
  MaxTotalTasks = 2
  MaxFaults = 0
PROPERTY WaitingParentResumes
CHECK_DEADLOCK FALSE
