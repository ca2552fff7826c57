SPECIFICATION FairSpec
CONSTANTS
  Dispatches = {d1, d2}
  Cap = 1
  MaxFaults = 1
INVARIANT WithinCap
INVARIANT ToldTheTruth
INVARIANT StreamIsFed
PROPERTY DispatchSettles
PROPERTY OrphanStops
CHECK_DEADLOCK FALSE
