SPECIFICATION Spec
CONSTANTS
  a = a  b = b  p = p  r = r
  NumClients = 1
  Period = 4
  Command = {a, b, p, r}
  PauseCmds = {p}
  ResumeCmds = {r}
  Script <- ServerScript
  SlowSlots = {}
  SmoothInterval = 2
  Fallback = 1
  MaxLists = 4
INVARIANTS
  PauseStopsClients
CHECK_DEADLOCK FALSE
