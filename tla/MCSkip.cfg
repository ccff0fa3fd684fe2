SPECIFICATION Spec
CONSTANTS
  a = a  b = b  p = p  r = r
  NumClients = 2
  Period = 2
  Command = {a, b, p, r}
  PauseCmds = {p}
  ResumeCmds = {r}
  Script <- ServerScript
  SlowSlots = {1}
  SmoothInterval = 2
  Fallback = 0
  MaxLists = 2
INVARIANTS
  NotAhead
  OnlySkips
PROPERTIES
  ImplementsLog
CHECK_DEADLOCK FALSE
