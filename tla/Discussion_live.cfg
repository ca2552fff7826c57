SPECIFICATION FairSpec
CONSTANTS
  Participants = 2
  RoundLimit = 2
  Deliveries = 2
  NoTurn = NoTurn
  MaxFaults = 1
INVARIANT OneSpeaker
INVARIANT ThreadInOrder
INVARIANT CarriedOn
PROPERTY StopIsFinal
PROPERTY Concludes
CHECK_DEADLOCK FALSE
