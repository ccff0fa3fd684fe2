SPECIFICATION Spec
CONSTANTS
  Slot = {r, c}
  Resident = {r}
  Comer = {c}
  r = r
  c = c
  MaxRequests = 1
  MaxUp = 2
PROPERTIES
  GoesOn
CHECK_DEADLOCK FALSE
