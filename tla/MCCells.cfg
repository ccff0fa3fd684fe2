SPECIFICATION Spec
CONSTANTS
  u = u
  v = v
  walker = walker
  giant = giant
  bird = bird
  hut = hut
  None = None
  Unit = {u, v}
  Type = {walker, giant, bird, hut}
  Size <- Sizes
  Solid <- Cells
  FieldOf <- Fields
  Can <- Skills
  Placed = {walker, bird}
  Tiring = {"move", "build"}
  Width = 3
  Height = 2
  Obstacle <- Pond
  MaxQueue = 2
SYMMETRY Symmetry
INVARIANTS
  TypeOK
  OwnCells
  NoThrow
  NoGhost
CHECK_DEADLOCK FALSE
