SPECIFICATION FairSpec
CONSTANTS
  a = a  b = b  p = p  r = r
  NumClients = 1
  Period = 1
  Command = {a, b, p, r}
  PauseCmds = {p}
  ResumeCmds = {r}
  Script <- PauseScript
  SlowSlots = {}
  SmoothInterval = 2
  Fallback = 0
  MaxLists = 4
INVARIANTS
  TypeOK
  Agreement
  
  NothingPassedBy
  PauseAgrees
  CommandConserved
  IndInv
PROPERTIES
  NoGiveUp
  Delivery
  DisconnectNoticed
  ImplementsLog
CHECK_DEADLOCK FALSE
