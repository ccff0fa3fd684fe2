SPECIFICATION FairSpec
CONSTANTS
  N = 1
  Id = {1, 2}
  None = None
  PauseForLagged = TRUE
  MaxInbox = 1
  MaxRaised = 2
INVARIANTS
  TypeOK
  NoLostWakeup
  WaitsForItsEvent
  ReadWhenDone
PROPERTIES
  Handled
  DropSilent
CHECK_DEADLOCK FALSE
