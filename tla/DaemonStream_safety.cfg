CONSTANTS
  Sockets = {k1, k2}
  NoSocket = none
  Events <- LimitEvents
  ArtifactChoices = {TRUE}
  MaxCount = 2
  MaxBytes = 2
  FrameCap = 3
  TruncatedBytes = 1
  FailureBytes = 1
  MaxEvents = 2
  MaxDrops = 1
SPECIFICATION Spec
INVARIANTS
  NothingLost
  RetiredOnlyWhenDelivered
  LostMeansLost
  GraceMatchesConnection
PROPERTIES
  DeliversInOrder
SYMMETRY SocketSymmetry
CHECK_DEADLOCK FALSE
