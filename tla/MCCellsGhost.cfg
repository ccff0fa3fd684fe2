SPECIFICATION Spec
CONSTANTS
  u = u
  walker = walker
  giant = giant
  bird = bird
  hut = hut
  None = None
  Unit = {u}
  Type = {walker, giant, bird, hut}
  Size <- Sizes
  Solid <- Cells
  FieldOf <- Fields
  Can <- GiantFlies
  Placed = {giant}
  Tiring = {"move", "build"}
  Width = 3
  Height = 2
  Obstacle <- Pond
  MaxQueue = 2
INVARIANTS
  NoGhost
CHECK_DEADLOCK FALSE
