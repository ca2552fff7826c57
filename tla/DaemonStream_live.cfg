CONSTANTS
  Sockets = {k1, k2}
  NoSocket = none
  Events <- PlainEvents
  ArtifactChoices = {FALSE}
  MaxCount = 3
  MaxBytes = 3
  FrameCap = 2
  TruncatedBytes = 1
  FailureBytes = 1
  MaxEvents = 1
  MaxDrops = 1
SPECIFICATION FairSpec
PROPERTIES
  TerminalSettles
CHECK_DEADLOCK FALSE
