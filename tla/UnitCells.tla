------------------------------ MODULE UnitCells ------------------------------
(***************************************************************************)
(* Who stands where.  Each cell of the map names, for each field, the unit *)
(* that takes it; units move, build, morph and die, and the pathfinder,    *)
(* the builders and the morphs ask the cells for room.  The world's update *)
(* runs the units one after the other, each on the map that the others     *)
(* left; users order and cancel in between.                                *)
(*                                                                         *)
(* The orders to produce and to upgrade are in UnitOrders: on the map, a   *)
(* produced unit is one more that World::placeUnit puts there.             *)
(***************************************************************************)
EXTENDS Integers, Sequences, FiniteSets

CONSTANTS
  Unit,           \* the units there may be
  Type,           \* UnitType
  Size,           \* Size[t]: UnitType::size
  Solid,          \* Solid[t]: the offsets that the cell map of t fills
  FieldOf,        \* FieldOf[t]: UnitType::field
  Can,            \* Can[t]: the orders that a unit of type t has
  Placed,         \* the types that are put on the map ready made
  Tiring,         \* the skills that cost energy
  Width, Height,  \* of the map
  Obstacle,       \* the cells with an object, a resource or deep water
  None,
  MaxQueue        \* bound: the length of a command queue

Field == {"land", "air"}
Cell == (0 .. Width - 1) \X (0 .. Height - 1)
Place == Int \X Int
Order ==
  [kind : {"stop", "move"}, of : {None}] \cup [kind : {"build", "morph"}, of : Type]

ASSUME UnitAssumption == None \notin Unit \cup Type
ASSUME TypeAssumption ==
  /\ Size \in [Type -> Nat]
  /\ Solid \in [Type -> SUBSET Place]
  /\ \A t \in Type : Solid[t] \subseteq (0 .. Size[t] - 1) \X (0 .. Size[t] - 1)
  /\ FieldOf \in [Type -> Field]
  /\ Can \in [Type -> SUBSET Order]
  /\ Placed \subseteq Type
ASSUME MapAssumption == Width \in Nat /\ Height \in Nat /\ Obstacle \subseteq Cell
ASSUME BoundAssumption == MaxQueue \in Nat
(* updateBuild looks for room on the land, whatever it builds.             *)
ASSUME BuildAssumption ==
  \A t \in Type : \A o \in Can[t] : o.kind = "build" => FieldOf[o.of] = "land"

(* A Command: its order, and Command::unitRef, the building it has begun.  *)
Command == [order : Order, site : Unit \cup {None}]

(* The dead are "rotten" while their deadCount is not 0.                   *)
Skill == {"unborn", "stop", "move", "build", "morph", "beBuilt", "die", "rotten"}

VARIABLES
  unit,           \* of each unit: type, pos, targetPos, commands and the class
                  \* of currSkill
  alive,          \* the units whose Unit::alive is set
  blocked,        \* the units whose Unit::morphFieldsBlocked is set
  cell,           \* cell[f][c]: Cell::units[f] of the cell c
  threw           \* an exception has ended the game

vars == <<unit, alive, blocked, cell, threw>>

UnitRecord ==
  [type : Type \cup {None}, pos : Place, target : Place, commands : Seq(Command),
   skill : Skill]
World ==
  [unit : [Unit -> UnitRecord], alive : SUBSET Unit, blocked : SUBSET Unit,
   cell : [Field -> [Cell -> Unit \cup {None}]], threw : BOOLEAN]
W == [unit |-> unit, alive |-> alive, blocked |-> blocked, cell |-> cell, threw |-> threw]
(* An exception ends the game, and what an update had changed before it.   *)
Becomes(w) ==
  /\ threw' = w.threw
  /\ IF w.threw THEN UNCHANGED <<unit, alive, blocked, cell>>
     ELSE /\ unit' = w.unit /\ alive' = w.alive
          /\ blocked' = w.blocked /\ cell' = w.cell

Unborn == [type |-> None, pos |-> <<0, 0>>, target |-> <<0, 0>>, commands |-> << >>,
           skill |-> "unborn"]

Init ==
  /\ unit = [u \in Unit |-> Unborn]
  /\ alive = {} /\ blocked = {}
  /\ cell = [f \in Field |-> [c \in Cell |-> None]]
  /\ threw = FALSE

(* The square of a size at a place, and what a type takes of it.           *)
Square(p, size) ==
  {<<p[1] + i, p[2] + j>> : i \in 0 .. size - 1, j \in 0 .. size - 1}
Taken(t, p) == {<<p[1] + d[1], p[2] + d[2]>> : d \in Solid[t]}

OnMap(r) == r.skill \notin {"unborn", "die", "rotten"}
Operative(w, u) == OnMap(w.unit[u]) /\ u \in w.alive /\ w.unit[u].skill # "beBuilt"
Current(r, kind) == r.commands # << >> /\ Head(r.commands).order.kind = kind

-----------------------------------------------------------------------------
(* The map.                                                                *)

IsPutrefacting(r) == r.skill = "rotten"
(* Cell::isFree.                                                           *)
IsFree(w, c, f) == w.cell[f][c] = None \/ IsPutrefacting(w.unit[w.cell[f][c]])
IsFreeCell(w, c, f) ==
  c \in Cell /\ IsFree(w, c, f) /\ (f = "land" => c \notin Obstacle)
IsFreeCells(w, p, size, f) == \A c \in Square(p, size) : IsFreeCell(w, c, f)

IsFreeCellOrHasUnit(w, c, f, u) == c \in Cell /\ (w.cell[f][c] = u \/ IsFreeCell(w, c, f))
IsFreeCellsOrHasUnit(w, p, size, f, u) ==
  \A c \in Square(p, size) : IsFreeCellOrHasUnit(w, c, f, u)

(* Mutant: of a large unit only the corner is looked at.                   *)
CanMoveCorner(w, u, p) == IsFreeCellOrHasUnit(w, p, FieldOf[w.unit[u].type], u)
CanMove(w, u, p) ==
  IsFreeCellsOrHasUnit(w, p, Size[w.unit[u].type], FieldOf[w.unit[u].type], u)

(* The next places on a path.                                              *)
Beside(w, u) ==
  {p \in Cell : /\ p # w.unit[u].pos
                /\ p[1] - w.unit[u].pos[1] \in -1 .. 1
                /\ p[2] - w.unit[u].pos[2] \in -1 .. 1
                /\ CanMove(w, u, p)}

PutType(w, u, p, t) ==
  IF /\ Square(p, Size[t]) \subseteq Cell
     /\ \A c \in Taken(t, p) : w.cell[FieldOf[t]][c] \in {None, u}
  THEN [w EXCEPT !.cell[FieldOf[t]] = [c \in Cell |-> IF c \in Taken(t, p) THEN u ELSE @[c]]]
  ELSE [w EXCEPT !.threw = TRUE]

(* putUnitCells with ignoreSkill, and without: a morph reserves the cells  *)
(* of the type that it leads to.                                           *)
PutOwnCells(w, u, p) == [PutType(w, u, p, w.unit[u].type) EXCEPT !.unit[u].pos = p]

Reserving(r) == r.skill = "morph" /\ Current(r, "morph")
PutUnitCells(w, u, p) ==
  LET r == w.unit[u] IN
  IF Reserving(r)
  THEN [PutType(PutOwnCells(w, u, p), u, p, Head(r.commands).order.of)
          EXCEPT !.blocked = @ \cup {u}]
  ELSE PutOwnCells(w, u, p)

(* clearUnitCells with ignoreSkill, and without: the reserved cells are    *)
(* cleared in the place of the unit's own.                                 *)
ClearType(w, u, p, t) ==
  [w EXCEPT !.cell[FieldOf[t]] =
     [c \in Cell |-> IF c \in Taken(t, p) /\ @[c] = u THEN None ELSE @[c]]]
ClearOwnCells(w, u) == ClearType(w, u, w.unit[u].pos, w.unit[u].type)

ClearsReserved(w, u) ==
  LET r == w.unit[u] IN
  Reserving(r) /\ u \in w.blocked /\ Size[r.type] <= Size[Head(r.commands).order.of]
ClearUnitCells(w, u) ==
  LET r == w.unit[u] IN
  IF ClearsReserved(w, u)
  THEN [ClearType(w, u, r.pos, Head(r.commands).order.of) EXCEPT !.blocked = @ \ {u}]
  ELSE ClearOwnCells(w, u)

-----------------------------------------------------------------------------
(* Orders.                                                                 *)

SetSkill(w, u, skill) == [w EXCEPT !.unit[u].skill = skill]
SetCommands(w, u, q) == [w EXCEPT !.unit[u].commands = q]

(* Unit::undoCommand of the current command.  Mutant: the cells of the     *)
(* unit itself are not set again.                                          *)
UndoMorphOnlyClears(w, u) == ClearUnitCells(w, u)
UndoMorph(w, u) ==
  PutOwnCells(ClearUnitCells(w, u), u, w.unit[u].pos)
UndoCurrent(w, u) ==
  IF Reserving(w.unit[u]) THEN UndoMorph(w, u) ELSE w

(* The last command is undone; only the current one can have cells.        *)
CancelCommand(w, u) ==
  LET q == w.unit[u].commands
      undone == IF Len(q) = 1 THEN UndoCurrent(w, u) ELSE w
  IN  IF q = << >> THEN w ELSE SetCommands(undone, u, SubSeq(q, 1, Len(q) - 1))

ClearCommands(w, u) ==
  IF w.unit[u].commands = << >> THEN w ELSE SetCommands(UndoCurrent(w, u), u, << >>)

FinishCommand(w, u) ==
  IF w.unit[u].commands = << >> THEN w ELSE SetCommands(w, u, Tail(w.unit[u].commands))

Queuable(order, tryQueue) == order.kind # "stop" /\ tryQueue
(* Mutant: an order may wait behind a morph.                               *)
AppendableToMorph(order) == order.kind # "stop"
Appendable(order) == order.kind \notin {"stop", "morph"}

MakeRoom(w, u, order, tryQueue) ==
  LET q == w.unit[u].commands IN
  IF ~Queuable(order, tryQueue) THEN ClearCommands(w, u)
  ELSE IF q # << >> /\ ~Appendable(q[Len(q)].order) THEN CancelCommand(w, u)
  ELSE w

(* Unit::giveCommand: room is made before the order is checked.            *)
GiveCommand(w, u, order, tryQueue) ==
  LET room == MakeRoom(w, u, order, tryQueue)
      r == room.unit[u]
  IN  IF Operative(room, u) /\ order \in Can[r.type]
      THEN SetCommands(room, u, Append(r.commands, [order |-> order, site |-> None]))
      ELSE room

-----------------------------------------------------------------------------
(* UnitUpdater::updateUnitCommand: what the current command of a unit may  *)
(* do in one update, as the set of the worlds that it leaves.              *)

(* PathFinder::findPath.  It gives up at once when the faction has found   *)
(* enough paths in this frame, and then it leaves the skill alone.         *)
Moving(w, u) ==
  {[w EXCEPT !.unit[u].target = p, !.unit[u].skill = "move"] : p \in Beside(w, u)}
Halted(w, u) == SetSkill(w, u, "stop")

UpdateStop(w, u) == {SetSkill(w, u, "stop")}

UpdateMove(w, u) ==
  Moving(w, u) \cup {Halted(w, u), FinishCommand(Halted(w, u), u)}

(* Unit::getCellPos: a cell that the building fills.                       *)
CellPos(t, p) == IF Solid[t] = {} THEN p ELSE CHOOSE c \in Taken(t, p) : TRUE

(* Unit::create for a new unit, with the skill that it then gets.          *)
Create(w, v, t, p, skill) ==
  LET new == [type |-> t, pos |-> p, target |-> p, commands |-> << >>, skill |-> "stop"]
      born == [w EXCEPT !.unit[v] = new, !.alive = @ \cup {v}]
  IN  SetSkill(PutUnitCells(born, v, p), v, skill)

(* Arrived: a building is begun where there is room; the order that is     *)
(* cancelled for want of it is the last one, whichever this is.            *)
Sites(w, t) == {p \in Cell : IsFreeCells(w, p, Size[t], "land")}

Begun(w, u, v, t, p) ==
  [Create(w, v, t, p, "beBuilt") EXCEPT
     !.unit[u] = [@ EXCEPT !.skill = "build", !.target = CellPos(t, p),
                           !.commands[1].site = v]]

BeginBuilding(w, u) ==
  LET t == Head(w.unit[u].commands).order.of
      h == Halted(w, u)
  IN  {Begun(h, u, v, t, p) : v \in {x \in Unit : w.unit[x].skill = "unborn"},
                              p \in Sites(w, t)}
        \cup (IF Sites(w, t) = Cell THEN {} ELSE {Halted(CancelCommand(h, u), u)})

(* On the way to the place.                                                *)
Approach(w, u) ==
  Moving(w, u) \cup {w, Halted(w, u), CancelCommand(w, u), CancelCommand(Halted(w, u), u)}

(* The building is found through the map; when it is done it is born.      *)
Building(w, u) ==
  LET b == w.cell["land"][w.unit[u].target]
      done == Halted(FinishCommand(w, u), u)
  IN  IF b # None /\ b # Head(w.unit[u].commands).site THEN {Halted(w, u)}
      ELSE IF b = None THEN {done}
      ELSE IF w.unit[b].skill # "beBuilt" THEN {done}
      ELSE {w, SetSkill(done, b, "stop")}

UpdateBuild(w, u) ==
  IF w.unit[u].skill = "build" THEN Building(w, u) ELSE Approach(w, u) \cup BeginBuilding(w, u)

(* Unit::morph, and what updateMorph makes of its result.                  *)
Morph(w, u, t) ==
  PutUnitCells([ClearOwnCells(w, u) EXCEPT !.unit[u].type = t], u, w.unit[u].pos)

EndMorph(w, u) ==
  LET t == Head(w.unit[u].commands).order.of
      cleared == ClearUnitCells(w, u)
  IN  Halted(IF IsFreeCellsOrHasUnit(cleared, w.unit[u].pos, Size[t], FieldOf[t], u)
             THEN FinishCommand(Morph(cleared, u, t), u)
             ELSE CancelCommand(cleared, u),
             u)

StartMorph(w, u) ==
  LET t == Head(w.unit[u].commands).order.of IN
  IF IsFreeCellsOrHasUnit(w, w.unit[u].pos, Size[t], FieldOf[t], u)
  THEN PutUnitCells(SetSkill(w, u, "morph"), u, w.unit[u].pos)
  ELSE CancelCommand(w, u)

UpdateMorph(w, u) ==
  IF w.unit[u].skill = "morph" THEN {w, EndMorph(w, u)} ELSE {StartMorph(w, u)}

UpdateCommand(w, u) ==
  LET r == w.unit[u] IN
  CASE r.commands = << >>  -> {w}
    [] Current(r, "stop")  -> UpdateStop(w, u)
    [] Current(r, "move")  -> UpdateMove(w, u)
    [] Current(r, "build") -> UpdateBuild(w, u)
    [] Current(r, "morph") -> UpdateMorph(w, u)

-----------------------------------------------------------------------------
(* UnitUpdater::updateUnit.                                                *)

(* A unit without a command stands, and is told to.                        *)
Idle(w, u) ==
  IF w.unit[u].commands = << >> /\ Operative(w, u)
  THEN GiveCommand(Halted(w, u), u, [kind |-> "stop", of |-> None], FALSE)
  ELSE w

(* Out of energy: the skill is gone before the order is cancelled.         *)
Tire(w, u, tired) == IF tired THEN CancelCommand(Halted(w, u), u) ELSE w

(* World::moveUnitCells, which asks nobody whether the cells are free.     *)
MoveUnitCells(w, u) ==
  IF w.unit[u].skill = "move" /\ w.unit[u].target # w.unit[u].pos
  THEN PutUnitCells(ClearUnitCells(w, u), u, w.unit[u].target)
  ELSE w

(* Unit::kill; nothing reads the rest of the record of a dead unit.        *)
(* Mutant: the skill is set first.                                         *)
Dead == [Unborn EXCEPT !.skill = "die"]
KillSkillFirst(w, u) ==
  [ClearOwnCells(ClearCommands(SetSkill(w, u, "die"), u), u) EXCEPT !.unit[u] = Dead]
Kill(w, u) == [ClearOwnCells(ClearCommands(w, u), u) EXCEPT !.unit[u] = Dead]
Bury(w, u) == IF u \in w.alive THEN w ELSE Kill(w, u)

Update(u) ==
  /\ ~threw /\ OnMap(unit[u])
  /\ \E w1 \in UpdateCommand(W, u), tired \in BOOLEAN :
       LET w2 == Idle(w1, u) IN
       /\ tired => w2.unit[u].skill \in Tiring
       /\ Becomes(Bury(MoveUnitCells(Tire(w2, u, tired), u), u))

(* A frame in which the skill of a dead unit is not over.                  *)
Die(u) == ~threw /\ OnMap(unit[u]) /\ u \notin alive /\ Becomes(Kill(W, u))

(* The deadCount of a dead unit is counted up until the unit is deleted; a *)
(* cell that still names it then may read any value.                       *)
Decay(u) ==
  /\ ~threw /\ unit[u].skill \in {"die", "rotten"}
  /\ unit' = [unit EXCEPT ![u].skill = IF @ = "die" THEN "rotten" ELSE "die"]
  /\ UNCHANGED <<alive, blocked, cell, threw>>

(* World::placeUnit for a unit that is there from the start, or that a     *)
(* script, a building or an attack brings.                                 *)
PlaceUnit(v, t) ==
  /\ ~threw /\ unit[v].skill = "unborn"
  /\ \E p \in {p \in Cell : IsFreeCells(W, p, Size[t], FieldOf[t])} :
       Becomes(Create(W, v, t, p, "stop"))

(* An order of a user; bound: the queue.                                   *)
Give(u, order, tryQueue) ==
  /\ ~threw /\ OnMap(unit[u]) /\ Len(unit[u].commands) < MaxQueue
  /\ Becomes(GiveCommand(W, u, order, tryQueue))

Cancel(u) ==
  /\ ~threw /\ OnMap(unit[u]) /\ unit[u].commands # << >>
  /\ Becomes(CancelCommand(W, u))

(* The last hit points of a unit are taken.                                *)
Hit(u) ==
  /\ ~threw /\ OnMap(unit[u]) /\ u \in alive
  /\ alive' = alive \ {u}
  /\ UNCHANGED <<unit, blocked, cell, threw>>

Next ==
  \E u \in Unit :
    \/ Update(u)
    \/ Die(u)
    \/ Decay(u)
    \/ Hit(u)
    \/ Cancel(u)
    \/ \E t \in Placed : PlaceUnit(u, t)
    \/ \E order \in UNION {Can[t] : t \in Type}, tryQueue \in BOOLEAN : Give(u, order, tryQueue)

Spec == Init /\ [][Next]_vars

-----------------------------------------------------------------------------
(* Properties.                                                             *)

(* Every variable has its type, the units on the map have one, and nothing *)
(* waits behind a morph (qOnlyLast), after which a unit is another.        *)
TypeOK ==
  /\ W \in World
  /\ \A u \in Unit : OnMap(unit[u]) => unit[u].type \in Type
  /\ \A u \in Unit : \A i \in 1 .. Len(unit[u].commands) - 1 :
       unit[u].commands[i].order.kind # "morph"

(* A unit on the map holds every cell that its type takes where it stands: *)
(* no unit takes a cell of another, or loses one of its own while orders   *)
(* to move, build and morph are begun, cancelled and cut short.            *)
OwnCells ==
  \A u \in Unit : OnMap(unit[u]) =>
    \A c \in Taken(unit[u].type, unit[u].pos) :
      c \in Cell /\ cell[FieldOf[unit[u].type]][c] = u

(* The exceptions of putUnitCellsPrivate ("Trying to move unit into        *)
(* occupied cell", and a cell outside the map) are never thrown, although  *)
(* moveUnitCells and morph put units without asking, and what is asked     *)
(* calls a cell free that a putrefying unit takes.                         *)
NoThrow == ~threw

(* A cell names nobody but a unit that is on the map, and stands there or  *)
(* is turning into one that will: the dead, and the morphs that were       *)
(* cancelled, leave nothing behind.                                        *)
Stands(u, f, c) == f = FieldOf[unit[u].type] /\ c \in Taken(unit[u].type, unit[u].pos)
Reserves(u, f, c) ==
  /\ unit[u].skill = "morph" /\ Current(unit[u], "morph")
  /\ LET t == Head(unit[u].commands).order.of IN
     f = FieldOf[t] /\ c \in Taken(t, unit[u].pos)
NoGhost ==
  \A f \in Field, c \in Cell : cell[f][c] # None =>
    /\ OnMap(unit[cell[f][c]])
    /\ Stands(cell[f][c], f, c) \/ Reserves(cell[f][c], f, c)
=============================================================================
