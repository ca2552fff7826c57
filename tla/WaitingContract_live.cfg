SPECIFICATION FairSpec
CONSTANTS
  Relays = {r1}
  NoRelay = NoRelay
  MaxFaults = 3
INVARIANT ContractBeforeTask
INVARIANT SettledIsTold
INVARIANT OneOutcome
PROPERTY NeverAbandoned
CHECK_DEADLOCK FALSE
