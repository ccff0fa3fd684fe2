-------------------------- MODULE UnitCellsProofs ---------------------------
(***************************************************************************)
(* On every map, with every set of units and types, the units keep the     *)
(* cells that they stand on; and if no unit morphs into a smaller one      *)
(* elsewhere, and morphing costs no energy, no cell names a unit that is   *)
(* not there, no cell is put twice, and nothing throws.                    *)
(*                                                                         *)
(* The operators of UnitCells take a world and give a world; so do the     *)
(* lemmas.  An operation on one unit is local: it changes the record of    *)
(* that unit and the cells that name it, and what holds of the others      *)
(* stays.                                                                  *)
(***************************************************************************)
EXTENDS UnitCells, SequenceTheorems, TLAPS

(* No type turns into a smaller one of the other field, or into one whose  *)
(* cells it does not cover, and a unit that morphs cannot get tired.       *)
NoFieldShrink ==
  \A t \in Type : \A o \in Can[t] : o.kind = "morph" =>
    \/ Size[t] <= Size[o.of]
    \/ FieldOf[t] = FieldOf[o.of] /\ Solid[o.of] \subseteq Solid[t]
Orderly == NoFieldShrink /\ "morph" \notin Tiring

Standing(w, u, f, c) ==
  f = FieldOf[w.unit[u].type] /\ c \in Taken(w.unit[u].type, w.unit[u].pos)
Reserved(w, u, f, c) ==
  /\ Reserving(w.unit[u]) /\ u \in w.blocked
  /\ f = FieldOf[Head(w.unit[u].commands).order.of]
  /\ c \in Taken(Head(w.unit[u].commands).order.of, w.unit[u].pos)

(* There is room for a type; and what holds of one unit: it has its cells, *)
(* its queue is in order, it holds no other cells.                         *)
Fits(w, u, t, p) ==
  /\ t \in Type /\ p \in Place /\ Square(p, Size[t]) \subseteq Cell
  /\ \A c \in Taken(t, p) : w.cell[FieldOf[t]][c] \in {None, u}
Rooted(w, u) ==
  OnMap(w.unit[u]) =>
    /\ w.unit[u].type \in Type
    /\ Square(w.unit[u].pos, Size[w.unit[u].type]) \subseteq Cell
    /\ \A c \in Taken(w.unit[u].type, w.unit[u].pos) : w.cell[FieldOf[w.unit[u].type]][c] = u
Queued(r) ==
  /\ \A i \in 1 .. Len(r.commands) - 1 : r.commands[i].order.kind # "morph"
  /\ OnMap(r) => \A i \in 1 .. Len(r.commands) : r.commands[i].order \in Can[r.type]
Cleared(w, u) ==
  Orderly => \A f \in Field, c \in Cell :
    w.cell[f][c] = u => OnMap(w.unit[u]) /\ (Standing(w, u, f, c) \/ Reserved(w, u, f, c))

Good(w) ==
  /\ w \in World /\ ~w.threw
  /\ \A u \in Unit : Rooted(w, u) /\ Queued(w.unit[u]) /\ Cleared(w, u)

(* Outside a morph, the cells of a unit are those where it stands.         *)
Tight(w, u) ==
  Orderly => \A f \in Field, c \in Cell :
    w.cell[f][c] = u => OnMap(w.unit[u]) /\ Standing(w, u, f, c)
Steady(w, u) == Good(w) /\ Tight(w, u)

(* Between updates a unit has arrived; within one it may be on its way to  *)
(* a place that is free.  A builder looks at a cell.                       *)
Rests(w, u) ==
  /\ w.unit[u].skill = "move" => w.unit[u].target = w.unit[u].pos
  /\ w.unit[u].skill = "build" => w.unit[u].target \in Cell
Goes(w, u) ==
  /\ w.unit[u].skill = "move" =>
       w.unit[u].target = w.unit[u].pos \/ CanMove(w, u, w.unit[u].target)
  /\ w.unit[u].skill = "build" => w.unit[u].target \in Cell

(* Where types are not orderly, cells may name the dead, and an update may *)
(* end with an exception.                                                  *)
IsWorld(w) == DOMAIN w = {"unit", "alive", "blocked", "cell", "threw"}
Thrown(w) == ~Orderly /\ IsWorld(w) /\ w.threw = TRUE

(* An operation on the unit u.                                             *)
Turning(r, m) == Reserving(r) /\ m = Head(r.commands).order.of
Local(w, w2, u) ==
  /\ w2 \in World
  /\ \A v \in Unit \ {u} :
       /\ w2.unit[v] = w.unit[v]
       /\ v \in w2.blocked <=> v \in w.blocked
       /\ \A f \in Field, c \in Cell : w2.cell[f][c] = v <=> w.cell[f][c] = v

-----------------------------------------------------------------------------
(* The map.                                                                *)

LEMMA TakenInSquare ==
  ASSUME NEW t \in Type, NEW p \in Place
  PROVE  Taken(t, p) \subseteq Square(p, Size[t])
<1>1. Solid[t] \subseteq (0 .. Size[t] - 1) \X (0 .. Size[t] - 1) /\ Size[t] \in Nat
  BY TypeAssumption
<1>2. ASSUME NEW d \in Solid[t]
      PROVE  <<p[1] + d[1], p[2] + d[2]>> \in Square(p, Size[t])
  <2>1. d[1] \in 0 .. Size[t] - 1 /\ d[2] \in 0 .. Size[t] - 1
    BY <1>1
  <2> QED BY <2>1 DEF Square
<1> QED BY <1>2 DEF Taken

(* A cell is free, or names a unit that is dead; and where types are       *)
(* orderly, no cell does.                                                  *)
LEMMA FreeIsEmpty ==
  ASSUME NEW w, Good(w), Orderly, NEW f \in Field, NEW c, IsFreeCell(w, c, f)
  PROVE  w.cell[f][c] = None
<1>1. c \in Cell /\ w.cell[f][c] \in Unit \cup {None}
  BY DEF Good, World, IsFreeCell
<1>2. ASSUME w.cell[f][c] \in Unit PROVE OnMap(w.unit[w.cell[f][c]])
  BY <1>1, <1>2 DEF Good, Cleared
<1> QED BY <1>1, <1>2 DEF IsFreeCell, IsFree, IsPutrefacting, OnMap

(* The unit u may have given up some of its cells before it asks.          *)
LEMMA RoomForUnit ==
  ASSUME NEW w, NEW w1, NEW u \in Unit, NEW t \in Type, NEW p \in Place,
         Good(w), Orderly, Local(w, w1, u),
         IsFreeCellsOrHasUnit(w1, p, Size[t], FieldOf[t], u)
  PROVE  Fits(w1, u, t, p)
<1> DEFINE f == FieldOf[t]
<1>1. f \in Field
  BY TypeAssumption
<1> HIDE DEF f
<1>2. ASSUME NEW c \in Square(p, Size[t])
      PROVE  c \in Cell /\ w1.cell[f][c] \in {None, u}
  <2>1. c \in Cell /\ (w1.cell[f][c] = u \/ IsFree(w1, c, f))
    BY DEF IsFreeCellsOrHasUnit, IsFreeCellOrHasUnit, IsFreeCell, f
  <2>2. w1.cell[f][c] \in Unit \cup {None}
    BY <1>1, <2>1 DEF Local, World
  <2>3. ASSUME NEW v \in Unit \ {u}, w1.cell[f][c] = v PROVE FALSE
    <3>1. w.cell[f][c] = v /\ w1.unit[v] = w.unit[v]
      BY <1>1, <2>1, <2>3 DEF Local
    <3>2. OnMap(w.unit[v])
      BY <1>1, <2>1, <3>1 DEF Good, Cleared
    <3>3. IsPutrefacting(w1.unit[v])
      BY <2>1, <2>3, UnitAssumption DEF IsFree
    <3> QED BY <3>1, <3>2, <3>3 DEF IsPutrefacting, OnMap
  <2> QED BY <2>1, <2>2, <2>3
<1> QED BY <1>2, TakenInSquare DEF Fits, f

LEMMA RoomForNewUnit ==
  ASSUME NEW w, NEW u \in Unit, NEW t \in Type, NEW p \in Place,
         Good(w), Orderly, IsFreeCells(w, p, Size[t], FieldOf[t])
  PROVE  Fits(w, u, t, p)
<1>1. FieldOf[t] \in Field
  BY TypeAssumption
<1>2. \A c \in Square(p, Size[t]) : c \in Cell /\ w.cell[FieldOf[t]][c] = None
  BY <1>1, FreeIsEmpty DEF IsFreeCells, IsFreeCell
<1> QED BY <1>2, TakenInSquare DEF Fits

-----------------------------------------------------------------------------
(* Exceptions.                                                             *)

(* Whatever the rest of an update would do, it does not take an exception  *)
(* back.                                                                   *)
LEMMA WorldIsWorld ==
  ASSUME NEW w \in World PROVE IsWorld(w)
BY DEF World, IsWorld

LEMMA ThrownRecord ==
  ASSUME NEW w, Thrown(w), NEW x
  PROVE  Thrown([w EXCEPT !.unit = x])
BY DEF Thrown, IsWorld

LEMMA ThrownBlocked ==
  ASSUME NEW w, Thrown(w), NEW u
  PROVE  Thrown([w EXCEPT !.blocked = @ \cup {u}]) /\ Thrown([w EXCEPT !.blocked = @ \ {u}])
BY DEF Thrown, IsWorld

LEMMA ThrownPutType ==
  ASSUME NEW w, Thrown(w), NEW u, NEW p, NEW t
  PROVE  Thrown(PutType(w, u, p, t))
BY DEF Thrown, IsWorld, PutType

LEMMA ThrownSet ==
  ASSUME NEW w, Thrown(w), NEW u, NEW x
  PROVE  Thrown(SetSkill(w, u, x)) /\ Thrown(SetCommands(w, u, x)) /\ Thrown(Halted(w, u))
BY DEF Thrown, IsWorld, SetSkill, SetCommands, Halted

LEMMA ThrownPut ==
  ASSUME NEW w, Thrown(w), NEW u, NEW p
  PROVE  Thrown(PutOwnCells(w, u, p)) /\ Thrown(PutUnitCells(w, u, p))
<1>1. Thrown(PutOwnCells(w, u, p))
  <2> DEFINE put == PutType(w, u, p, w.unit[u].type)
  <2>1. Thrown(put)
    BY ThrownPutType
  <2> HIDE DEF put
  <2>2. Thrown([put EXCEPT !.unit[u].pos = p])
    BY <2>1 DEF Thrown, IsWorld
  <2> QED BY <2>2 DEF PutOwnCells, put
<1> QED BY <1>1, ThrownPutType, ThrownBlocked DEF PutUnitCells

LEMMA ThrownClear ==
  ASSUME NEW w, Thrown(w), NEW u
  PROVE  Thrown(ClearOwnCells(w, u)) /\ Thrown(ClearUnitCells(w, u))
<1>1. ASSUME NEW p, NEW t PROVE Thrown(ClearType(w, u, p, t))
  BY DEF Thrown, IsWorld, ClearType
<1> QED BY <1>1, ThrownBlocked DEF ClearOwnCells, ClearUnitCells

LEMMA ThrownCommands ==
  ASSUME NEW w, Thrown(w), NEW u
  PROVE  /\ Thrown(CancelCommand(w, u)) /\ Thrown(ClearCommands(w, u))
         /\ Thrown(FinishCommand(w, u))
<1>1. Thrown(UndoCurrent(w, u))
  BY ThrownClear, ThrownPut DEF UndoCurrent, UndoMorph
<1>2. Thrown(CancelCommand(w, u))
  BY <1>1, ThrownSet DEF CancelCommand
<1>3. Thrown(ClearCommands(w, u))
  BY <1>1, ThrownSet DEF ClearCommands
<1>4. Thrown(FinishCommand(w, u))
  BY ThrownSet DEF FinishCommand
<1> QED BY <1>2, <1>3, <1>4

LEMMA ThrownUpdate ==
  ASSUME NEW w, Thrown(w), NEW u, NEW tired
  PROVE  Thrown(Idle(w, u)) /\ Thrown(Tire(w, u, tired)) /\ Thrown(MoveUnitCells(w, u))
         /\ Thrown(Bury(w, u))
<1>1. ASSUME NEW h, Thrown(h), NEW order, NEW tryQueue
      PROVE  Thrown(GiveCommand(h, u, order, tryQueue))
  <2> DEFINE room == MakeRoom(h, u, order, tryQueue)
  <2>1. Thrown(room)
    BY <1>1, ThrownCommands DEF MakeRoom
  <2> HIDE DEF room
  <2>2. \A q : Thrown(SetCommands(room, u, q))
    BY <2>1, ThrownSet
  <2> QED BY <2>1, <2>2 DEF GiveCommand, room
<1>2. Thrown(Halted(w, u))
  BY ThrownSet
<1>3. Thrown(Idle(w, u))
  BY <1>1, <1>2 DEF Idle
<1>4. Thrown(Tire(w, u, tired))
  BY <1>2, ThrownCommands DEF Tire
<1>5. Thrown(MoveUnitCells(w, u))
  BY ThrownClear, ThrownPut DEF MoveUnitCells
<1>6. Thrown(Bury(w, u))
  <2> DEFINE c == ClearOwnCells(ClearCommands(w, u), u)
  <2>1. Thrown(c)
    BY ThrownCommands, ThrownClear
  <2> HIDE DEF c
  <2>2. Thrown([c EXCEPT !.unit[u] = Dead])
    BY <2>1 DEF Thrown, IsWorld
  <2> QED BY <2>2 DEF Bury, Kill, c
<1> QED BY <1>3, <1>4, <1>5, <1>6

-----------------------------------------------------------------------------
(* What the operations on the map do.                                      *)

(* What putUnitCellsPrivate does where there is room.                      *)
LEMMA PutTypeEffect ==
  ASSUME NEW w \in World, NEW u \in Unit, NEW t, NEW p, Fits(w, u, t, p),
         NEW w2, w2 = PutType(w, u, p, t)
  PROVE
         /\ w2 \in World /\ w2.unit = w.unit /\ w2.threw = w.threw
         /\ w2.blocked = w.blocked /\ w2.alive = w.alive
         /\ \A f \in Field, c \in Cell :
              w2.cell[f][c] = IF f = FieldOf[t] /\ c \in Taken(t, p) THEN u ELSE w.cell[f][c]
<1> DEFINE layer == [c \in Cell |-> IF c \in Taken(t, p) THEN u ELSE w.cell[FieldOf[t]][c]]
<1>1. t \in Type /\ FieldOf[t] \in Field
  BY TypeAssumption DEF Fits
<1>2. w2 = [w EXCEPT !.cell[FieldOf[t]] = layer]
  BY DEF Fits, PutType
<1>3. layer \in [Cell -> Unit \cup {None}]
  BY <1>1 DEF World
<1>4. /\ w2.cell = [w.cell EXCEPT ![FieldOf[t]] = layer] /\ w2.unit = w.unit
      /\ w2.threw = w.threw /\ w2.blocked = w.blocked /\ w2.alive = w.alive
  BY <1>2 DEF World
<1>5. w2 \in World
  BY <1>1, <1>2, <1>3 DEF World
<1>6. ASSUME NEW f \in Field, NEW c \in Cell
      PROVE  w2.cell[f][c] = IF f = FieldOf[t] /\ c \in Taken(t, p) THEN u ELSE w.cell[f][c]
  BY <1>1, <1>4 DEF World
<1> QED BY <1>4, <1>5, <1>6

LEMMA ClearTypeEffect ==
  ASSUME NEW w \in World, NEW u \in Unit, NEW t \in Type, NEW p,
         NEW w2, w2 = ClearType(w, u, p, t)
  PROVE
         /\ w2 \in World /\ w2.unit = w.unit /\ w2.threw = w.threw
         /\ w2.blocked = w.blocked /\ w2.alive = w.alive
         /\ \A f \in Field, c \in Cell :
              w2.cell[f][c] = IF f = FieldOf[t] /\ c \in Taken(t, p) /\ w.cell[f][c] = u
                              THEN None ELSE w.cell[f][c]
<1> DEFINE layer == [c \in Cell |-> IF c \in Taken(t, p) /\ w.cell[FieldOf[t]][c] = u
                                    THEN None ELSE w.cell[FieldOf[t]][c]]
<1>1. FieldOf[t] \in Field
  BY TypeAssumption
<1>2. w2 = [w EXCEPT !.cell[FieldOf[t]] = layer]
  BY DEF ClearType
<1>3. layer \in [Cell -> Unit \cup {None}]
  BY <1>1 DEF World
<1>4. /\ w2.cell = [w.cell EXCEPT ![FieldOf[t]] = layer] /\ w2.unit = w.unit
      /\ w2.threw = w.threw /\ w2.blocked = w.blocked /\ w2.alive = w.alive
  BY <1>2 DEF World
<1>5. w2 \in World
  BY <1>1, <1>2, <1>3 DEF World
<1>6. ASSUME NEW f \in Field, NEW c \in Cell
      PROVE  w2.cell[f][c] = IF f = FieldOf[t] /\ c \in Taken(t, p) /\ w.cell[f][c] = u
                             THEN None ELSE w.cell[f][c]
  BY <1>1, <1>4 DEF World
<1> QED BY <1>4, <1>5, <1>6

(* The type that a reserving unit turns into.                              *)
LEMMA MorphType ==
  ASSUME NEW w \in World, NEW u \in Unit, Reserving(w.unit[u])
  PROVE  /\ Head(w.unit[u].commands).order \in Order
         /\ Head(w.unit[u].commands).order.of \in Type
<1>1. w.unit[u].commands \in Seq(Command) /\ w.unit[u].commands # << >>
  BY DEF World, UnitRecord, Reserving, Current
<1>2. Head(w.unit[u].commands) \in Command
  BY <1>1
<1>3. Head(w.unit[u].commands).order.kind = "morph"
  BY DEF Reserving, Current
<1> QED BY <1>2, <1>3 DEF Command, Order

(* putUnitCells for a unit that reserves nothing, or is not to.            *)
LEMMA PutEffect ==
  ASSUME NEW w \in World, NEW u \in Unit, NEW p, NEW w2,
         Fits(w, u, w.unit[u].type, p),
         \/ w2 = PutOwnCells(w, u, p)
         \/ w2 = PutUnitCells(w, u, p) /\ ~Reserving(w.unit[u])
  PROVE  /\ Local(w, w2, u) /\ w2.threw = w.threw
         /\ w2.blocked = w.blocked /\ w2.alive = w.alive
         /\ w2.unit[u] = [w.unit[u] EXCEPT !.pos = p]
         /\ \A f \in Field, c \in Cell :
              w2.cell[f][c] =
                IF f = FieldOf[w.unit[u].type] /\ c \in Taken(w.unit[u].type, p)
                THEN u ELSE w.cell[f][c]
<1> DEFINE t == w.unit[u].type
           w1 == PutType(w, u, p, t)
<1>1. w2 = [w1 EXCEPT !.unit[u].pos = p]
  BY DEF PutUnitCells, PutOwnCells
<1>2. /\ w1 \in World /\ w1.unit = w.unit /\ w1.threw = w.threw
      /\ w1.blocked = w.blocked /\ w1.alive = w.alive
      /\ \A f \in Field, c \in Cell :
           w1.cell[f][c] = IF f = FieldOf[t] /\ c \in Taken(t, p) THEN u ELSE w.cell[f][c]
  BY PutTypeEffect
<1> HIDE DEF w1
<1>3. p \in Place
  BY DEF Fits
<1>4. /\ w2.cell = w1.cell /\ w2.threw = w.threw
      /\ w2.blocked = w.blocked /\ w2.alive = w.alive
      /\ w2.unit = [w.unit EXCEPT ![u] = [w.unit[u] EXCEPT !.pos = p]]
  BY <1>1, <1>2 DEF World
<1>5. [w.unit[u] EXCEPT !.pos = p] \in UnitRecord
  BY <1>3 DEF World, UnitRecord
<1>6. w2 \in World
  BY <1>1, <1>2, <1>4, <1>5 DEF World
<1>7. ASSUME NEW v \in Unit \ {u}, NEW f \in Field, NEW c \in Cell
      PROVE  w2.cell[f][c] = v <=> w.cell[f][c] = v
  BY <1>2, <1>4, UnitAssumption DEF Fits
<1>8. \A v \in Unit \ {u} : w2.unit[v] = w.unit[v]
  BY <1>4 DEF World
<1>9. Local(w, w2, u)
  BY <1>4, <1>6, <1>7, <1>8 DEF Local
<1>10. w2.unit[u] = [w.unit[u] EXCEPT !.pos = p]
  BY <1>4 DEF World
<1> QED BY <1>2, <1>4, <1>9, <1>10

(* putUnitCells for a unit that is in a morph.                             *)
PutBoth(w, u, p, m) ==
  [PutType(PutOwnCells(w, u, p), u, p, m) EXCEPT !.blocked = @ \cup {u}]
IsPutBoth(w, w2, u, p, m) ==
  /\ Local(w, w2, u) /\ w2.threw = w.threw /\ u \in w2.blocked
  /\ w2.alive = w.alive /\ w2.unit[u] = [w.unit[u] EXCEPT !.pos = p]
  /\ \A f \in Field, c \in Cell :
       w2.cell[f][c] =
         IF \/ f = FieldOf[w.unit[u].type] /\ c \in Taken(w.unit[u].type, p)
            \/ f = FieldOf[m] /\ c \in Taken(m, p)
         THEN u ELSE w.cell[f][c]

LEMMA PutBothEffect ==
  ASSUME NEW w \in World, NEW u \in Unit, NEW p, NEW m,
         Fits(w, u, w.unit[u].type, p), Fits(w, u, m, p),
         NEW w2, w2 = PutBoth(w, u, p, m)
  PROVE  IsPutBoth(w, w2, u, p, m)
<1> DEFINE t == w.unit[u].type
<1> DEFINE own == PutOwnCells(w, u, p)
           w1 == PutType(own, u, p, m)
<1>1. w2 = [w1 EXCEPT !.blocked = @ \cup {u}]
  BY DEF PutBoth
<1>2. /\ Local(w, own, u) /\ own.threw = w.threw
      /\ own.blocked = w.blocked /\ own.alive = w.alive
      /\ own.unit[u] = [w.unit[u] EXCEPT !.pos = p]
      /\ \A f \in Field, c \in Cell :
           own.cell[f][c] = IF f = FieldOf[t] /\ c \in Taken(t, p) THEN u ELSE w.cell[f][c]
  BY PutEffect
<1> HIDE DEF own
<1>3. Fits(own, u, m, p)
  <2>1. m \in Type /\ FieldOf[m] \in Field /\ Taken(m, p) \subseteq Cell
    BY TakenInSquare, TypeAssumption DEF Fits
  <2> QED BY <1>2, <2>1 DEF Fits
<1>4. own \in World
  BY <1>2 DEF Local
<1>5. /\ w1 \in World /\ w1.unit = own.unit /\ w1.threw = own.threw
      /\ w1.blocked = own.blocked /\ w1.alive = own.alive
      /\ \A f \in Field, c \in Cell :
           w1.cell[f][c] = IF f = FieldOf[m] /\ c \in Taken(m, p) THEN u ELSE own.cell[f][c]
  BY <1>3, <1>4, PutTypeEffect
<1> HIDE DEF w1
<1>6. /\ w2.cell = w1.cell /\ w2.threw = w.threw /\ w2.unit = own.unit
      /\ w2.blocked = w.blocked \cup {u} /\ w2.alive = w.alive
  BY <1>1, <1>2, <1>5 DEF World
<1>7. w2 \in World
  <2>1. w1.blocked \cup {u} \in SUBSET Unit
    BY <1>5 DEF World
  <2> QED BY <1>1, <1>5, <2>1 DEF World
<1>8. ASSUME NEW v \in Unit \ {u}, NEW f \in Field, NEW c \in Cell
      PROVE  w2.cell[f][c] = v <=> w.cell[f][c] = v
  <2>1. own.cell[f][c] = v <=> w.cell[f][c] = v
    BY <1>2 DEF Local
  <2>2. CASE f = FieldOf[m] /\ c \in Taken(m, p)
    <3>1. own.cell[f][c] \in {None, u}
      BY <1>3, <2>2 DEF Fits
    <3> QED BY <1>5, <1>6, <2>1, <2>2, <3>1, UnitAssumption
  <2>3. CASE ~(f = FieldOf[m] /\ c \in Taken(m, p))
    BY <1>5, <1>6, <2>1, <2>3
  <2> QED BY <2>2, <2>3
<1>9. \A v \in Unit \ {u} : w2.unit[v] = w.unit[v]
  BY <1>2, <1>6 DEF Local
<1>10. Local(w, w2, u)
  BY <1>6, <1>7, <1>8, <1>9 DEF Local
<1>11. ASSUME NEW f \in Field, NEW c \in Cell
       PROVE  w2.cell[f][c] = IF \/ f = FieldOf[t] /\ c \in Taken(t, p)
                                 \/ f = FieldOf[m] /\ c \in Taken(m, p)
                              THEN u ELSE w.cell[f][c]
  <2>1. CASE f = FieldOf[m] /\ c \in Taken(m, p)
    BY <1>5, <1>6, <2>1
  <2>2. CASE ~(f = FieldOf[m] /\ c \in Taken(m, p))
    BY <1>2, <1>5, <1>6, <2>2
  <2> QED BY <2>1, <2>2
<1> QED BY <1>2, <1>6, <1>10, <1>11 DEF IsPutBoth

LEMMA ReserveEffect ==
  ASSUME NEW w \in World, NEW u \in Unit, NEW p, NEW m, Turning(w.unit[u], m),
         Fits(w, u, w.unit[u].type, p), Fits(w, u, m, p),
         NEW w2, w2 = PutUnitCells(w, u, p)
  PROVE  IsPutBoth(w, w2, u, p, m)
<1>1. w2 = PutBoth(w, u, p, m)
  BY DEF PutUnitCells, Turning, PutBoth
<1> QED BY <1>1, PutBothEffect

(* Where there is no room, putUnitCellsPrivate throws.                     *)
LEMMA PutTypeThrows ==
  ASSUME NEW w, NEW u, NEW t \in Type, NEW p \in Place, ~Fits(w, u, t, p),
         ~Orderly, IsWorld(w)
  PROVE  Thrown(PutType(w, u, p, t))
BY DEF Fits, PutType, Thrown, IsWorld

LEMMA PutThrows ==
  ASSUME NEW w \in World, NEW u \in Unit, w.unit[u].type \in Type, NEW p \in Place,
         ~Fits(w, u, w.unit[u].type, p), ~Orderly
  PROVE  Thrown(PutUnitCells(w, u, p))
<1> DEFINE own == PutType(w, u, p, w.unit[u].type)
<1>1. Thrown(own)
  BY PutTypeThrows, WorldIsWorld
<1> HIDE DEF own
<1>2. Thrown([own EXCEPT !.unit[u].pos = p])
  BY <1>1 DEF Thrown, IsWorld
<1>3. Thrown(PutOwnCells(w, u, p))
  BY <1>2 DEF PutOwnCells, own
<1> QED BY <1>3, ThrownPutType, ThrownBlocked DEF PutUnitCells

LEMMA ReserveThrows ==
  ASSUME NEW w \in World, NEW u \in Unit, NEW p, NEW m \in Type, Turning(w.unit[u], m),
         Fits(w, u, w.unit[u].type, p), ~Fits(w, u, m, p), ~Orderly
  PROVE  Thrown(PutUnitCells(w, u, p))
<1> DEFINE t == w.unit[u].type
           own == PutOwnCells(w, u, p)
           put == PutType(own, u, p, m)
<1>1. /\ Local(w, own, u) /\ own.threw = w.threw
      /\ own.blocked = w.blocked /\ own.alive = w.alive
      /\ own.unit[u] = [w.unit[u] EXCEPT !.pos = p]
      /\ \A f \in Field, c \in Cell :
           own.cell[f][c] = IF f = FieldOf[t] /\ c \in Taken(t, p) THEN u ELSE w.cell[f][c]
  BY PutEffect
<1>2. own \in World /\ t \in Type /\ p \in Place
  BY <1>1 DEF Local, Fits
<1> HIDE DEF own
<1>3. ASSUME Fits(own, u, m, p) PROVE FALSE
  <2>1. FieldOf[m] \in Field /\ Taken(m, p) \subseteq Cell /\ Square(p, Size[m]) \subseteq Cell
    BY <1>2, <1>3, TakenInSquare, TypeAssumption DEF Fits
  <2>2. \A c \in Taken(m, p) : w.cell[FieldOf[m]][c] \in {None, u}
    <3> TAKE c \in Taken(m, p)
    <3>1. own.cell[FieldOf[m]][c] \in {None, u}
      BY <1>3 DEF Fits
    <3>2. CASE FieldOf[m] = FieldOf[t] /\ c \in Taken(t, p)
      BY <3>2 DEF Fits
    <3>3. CASE ~(FieldOf[m] = FieldOf[t] /\ c \in Taken(t, p))
      BY <1>1, <2>1, <3>1, <3>3
    <3> QED BY <3>2, <3>3
  <2> QED BY <1>2, <2>1, <2>2 DEF Fits
<1>4. Thrown(put)
  BY <1>2, <1>3, PutTypeThrows, WorldIsWorld
<1> HIDE DEF put
<1>5. PutUnitCells(w, u, p) = [put EXCEPT !.blocked = @ \cup {u}]
  BY DEF PutUnitCells, Turning, put, own
<1>6. Thrown([put EXCEPT !.blocked = @ \cup {u}])
  BY <1>4, ThrownBlocked
<1> QED BY <1>5, <1>6

(* A local operation leaves the others as they are.                        *)
LEMMA LocalOthers ==
  ASSUME NEW w, NEW w2, NEW u \in Unit, Good(w), Local(w, w2, u), ~w2.threw,
         Rooted(w2, u), Queued(w2.unit[u]), Cleared(w2, u)
  PROVE  Good(w2)
<1>1. w \in World /\ w2 \in World
  BY DEF Good, Local
<1>2. ASSUME NEW v \in Unit \ {u}
      PROVE  Rooted(w2, v) /\ Queued(w2.unit[v]) /\ Cleared(w2, v)
  <2>1. /\ w2.unit[v] = w.unit[v] /\ (v \in w2.blocked <=> v \in w.blocked)
        /\ \A f \in Field, c \in Cell : w2.cell[f][c] = v <=> w.cell[f][c] = v
    BY DEF Local
  <2>2. Rooted(w, v) /\ Queued(w.unit[v]) /\ Cleared(w, v)
    BY DEF Good
  <2>3. Rooted(w2, v)
    <3>1. SUFFICES ASSUME OnMap(w.unit[v])
                   PROVE  /\ w.unit[v].type \in Type
                          /\ Square(w.unit[v].pos, Size[w.unit[v].type]) \subseteq Cell
                          /\ \A c \in Taken(w.unit[v].type, w.unit[v].pos) :
                               w2.cell[FieldOf[w.unit[v].type]][c] = v
      BY <2>1 DEF Rooted
    <3>2. /\ w.unit[v].type \in Type
          /\ Square(w.unit[v].pos, Size[w.unit[v].type]) \subseteq Cell
          /\ \A c \in Taken(w.unit[v].type, w.unit[v].pos) :
               w.cell[FieldOf[w.unit[v].type]][c] = v
      BY <2>2, <3>1 DEF Rooted
    <3>3. w.unit[v].pos \in Place
      BY <1>1 DEF World, UnitRecord
    <3>4. /\ Taken(w.unit[v].type, w.unit[v].pos) \subseteq Cell
          /\ FieldOf[w.unit[v].type] \in Field
      BY <3>2, <3>3, TakenInSquare, TypeAssumption
    <3> QED BY <2>1, <3>2, <3>4
  <2>4. Queued(w2.unit[v])
    BY <2>1, <2>2
  <2>5. Cleared(w2, v)
    BY <2>1, <2>2 DEF Cleared, Standing, Reserved
  <2> QED BY <2>3, <2>4, <2>5
<1> QED BY <1>1, <1>2 DEF Good

LEMMA SteadyUnless ==
  ASSUME NEW w, NEW u \in Unit, Good(w), Orderly => ~Reserving(w.unit[u])
  PROVE  Steady(w, u)
<1>1. Cleared(w, u)
  BY DEF Good
<1> QED BY <1>1 DEF Cleared, Tight, Steady, Reserved

(* The cells that name a unit and the place where it stands decide.        *)
LEMMA SteadyAgain ==
  ASSUME NEW w, NEW w2, NEW u \in Unit, Steady(w, u), Local(w, w2, u), ~w2.threw,
         \A f \in Field, c \in Cell : w2.cell[f][c] = u <=> w.cell[f][c] = u,
         w2.unit[u].type = w.unit[u].type, w2.unit[u].pos = w.unit[u].pos,
         OnMap(w2.unit[u]) <=> OnMap(w.unit[u]), Queued(w2.unit[u])
  PROVE  Steady(w2, u)
<1>1. Good(w) /\ Tight(w, u) /\ Rooted(w, u) /\ w \in World
  BY DEF Steady, Good
<1>2. Rooted(w2, u)
  <2>1. SUFFICES ASSUME OnMap(w.unit[u])
                 PROVE  /\ w.unit[u].type \in Type
                        /\ Square(w.unit[u].pos, Size[w.unit[u].type]) \subseteq Cell
                        /\ \A c \in Taken(w.unit[u].type, w.unit[u].pos) :
                             w2.cell[FieldOf[w.unit[u].type]][c] = u
    BY DEF Rooted
  <2>2. /\ w.unit[u].type \in Type
        /\ Square(w.unit[u].pos, Size[w.unit[u].type]) \subseteq Cell
        /\ \A c \in Taken(w.unit[u].type, w.unit[u].pos) :
             w.cell[FieldOf[w.unit[u].type]][c] = u
    BY <1>1, <2>1 DEF Rooted
  <2>3. w.unit[u].pos \in Place
    BY <1>1 DEF World, UnitRecord
  <2>4. /\ Taken(w.unit[u].type, w.unit[u].pos) \subseteq Cell
        /\ FieldOf[w.unit[u].type] \in Field
    BY <2>2, <2>3, TakenInSquare, TypeAssumption
  <2> QED BY <2>2, <2>4
<1>3. Tight(w2, u)
  BY <1>1 DEF Tight, Standing
<1>4. Cleared(w2, u)
  BY <1>3 DEF Tight, Cleared
<1>5. Good(w2)
  BY <1>1, <1>2, <1>4, LocalOthers
<1> QED BY <1>3, <1>5 DEF Steady

(* A new record for one unit.                                              *)
WithRecord(w, u, r) == [w EXCEPT !.unit[u] = r]

LEMMA RecordEffect ==
  ASSUME NEW w \in World, NEW u \in Unit, NEW r \in UnitRecord,
         NEW w2, w2 = WithRecord(w, u, r)
  PROVE  /\ Local(w, w2, u) /\ w2.unit[u] = r /\ w2.threw = w.threw
         /\ w2.alive = w.alive /\ w2.blocked = w.blocked /\ w2.cell = w.cell
<1>1. /\ w2.unit = [w.unit EXCEPT ![u] = r] /\ w2.threw = w.threw
      /\ w2.alive = w.alive /\ w2.blocked = w.blocked /\ w2.cell = w.cell
  BY DEF World, WithRecord
<1>2. [w.unit EXCEPT ![u] = r] \in [Unit -> UnitRecord]
  BY DEF World
<1>3. w2 \in World
  BY <1>2 DEF World, WithRecord
<1>4. w2.unit[u] = r /\ \A v \in Unit \ {u} : w2.unit[v] = w.unit[v]
  BY <1>1 DEF World
<1> QED BY <1>1, <1>3, <1>4 DEF Local

-----------------------------------------------------------------------------
(* Skills and orders.                                                      *)

AsBefore(w, w2, u) ==
  /\ Local(w, w2, u) /\ Steady(w2, u) /\ w2.alive = w.alive
  /\ w2.unit[u].type = w.unit[u].type /\ w2.unit[u].pos = w.unit[u].pos
  /\ w2.unit[u].target = w.unit[u].target

LEMMA SetSkillEffect ==
  ASSUME NEW w, NEW u \in Unit, NEW skill, Steady(w, u), OnMap(w.unit[u]),
         skill \in Skill \ {"unborn", "die", "rotten"}, NEW w2, w2 = SetSkill(w, u, skill)
  PROVE  /\ AsBefore(w, w2, u) /\ OnMap(w2.unit[u]) /\ w2.unit[u].skill = skill
         /\ w2.unit[u].commands = w.unit[u].commands /\ w2.cell = w.cell
<1> DEFINE r == [w.unit[u] EXCEPT !.skill = skill]
<1>1. w \in World /\ ~w.threw /\ Queued(w.unit[u]) /\ w.unit[u] \in UnitRecord
  BY DEF Steady, Good, World
<1>2. /\ r \in UnitRecord /\ r.type = w.unit[u].type /\ r.pos = w.unit[u].pos
      /\ r.target = w.unit[u].target /\ r.commands = w.unit[u].commands /\ r.skill = skill
  BY <1>1 DEF UnitRecord
<1>3. w2 = WithRecord(w, u, r)
  BY <1>1 DEF SetSkill, World, WithRecord
<1> HIDE DEF r
<1>4. /\ Local(w, w2, u) /\ w2.unit[u] = r /\ w2.threw = w.threw
      /\ w2.alive = w.alive /\ w2.cell = w.cell
  BY <1>1, <1>2, <1>3, RecordEffect
<1>5. OnMap(w2.unit[u]) /\ Queued(w2.unit[u])
  BY <1>1, <1>2, <1>4 DEF OnMap, Queued
<1>6. Steady(w2, u)
  BY <1>1, <1>2, <1>4, <1>5, SteadyAgain
<1> QED BY <1>2, <1>4, <1>5, <1>6 DEF AsBefore

LEMMA SetCommandsEffect ==
  ASSUME NEW w, NEW u \in Unit, NEW q \in Seq(Command), Steady(w, u),
         \A i \in 1 .. Len(q) - 1 : q[i].order.kind # "morph",
         OnMap(w.unit[u]) => \A i \in 1 .. Len(q) : q[i].order \in Can[w.unit[u].type],
         NEW w2, w2 = SetCommands(w, u, q)
  PROVE  /\ AsBefore(w, w2, u) /\ w2.unit[u].skill = w.unit[u].skill
         /\ w2.unit[u].commands = q
<1> DEFINE r == [w.unit[u] EXCEPT !.commands = q]
<1>1. w \in World /\ ~w.threw /\ w.unit[u] \in UnitRecord
  BY DEF Steady, Good, World
<1>2. /\ r \in UnitRecord /\ r.type = w.unit[u].type /\ r.pos = w.unit[u].pos
      /\ r.target = w.unit[u].target /\ r.commands = q /\ r.skill = w.unit[u].skill
  BY <1>1 DEF UnitRecord
<1>3. w2 = WithRecord(w, u, r)
  BY <1>1 DEF SetCommands, World, WithRecord
<1> HIDE DEF r
<1>4. /\ Local(w, w2, u) /\ w2.unit[u] = r /\ w2.threw = w.threw
      /\ w2.alive = w.alive /\ w2.cell = w.cell
  BY <1>1, <1>2, <1>3, RecordEffect
<1>5. (OnMap(w2.unit[u]) <=> OnMap(w.unit[u])) /\ Queued(w2.unit[u])
  BY <1>1, <1>2, <1>4 DEF OnMap, Queued
<1>6. Steady(w2, u)
  BY <1>1, <1>2, <1>4, <1>5, SteadyAgain
<1> QED BY <1>2, <1>4, <1>5, <1>6 DEF AsBefore

LEMMA LocalTwice ==
  ASSUME NEW w, NEW w1, NEW w2, NEW u \in Unit, Local(w, w1, u), Local(w1, w2, u)
  PROVE  Local(w, w2, u)
BY DEF Local

(* What a unit in a morph clears.                                          *)
LEMMA ClearEffect ==
  ASSUME NEW w \in World, NEW u \in Unit, NEW t \in Type, NEW p,
         NEW w2, w2 = ClearType(w, u, p, t)
  PROVE  /\ Local(w, w2, u) /\ w2.unit = w.unit /\ w2.threw = w.threw
         /\ w2.alive = w.alive /\ w2.blocked = w.blocked
         /\ \A f \in Field, c \in Cell :
              /\ w2.cell[f][c] = u => w.cell[f][c] = u /\ ~(f = FieldOf[t] /\ c \in Taken(t, p))
              /\ w.cell[f][c] \in {None, u} => w2.cell[f][c] \in {None, u}
<1>1. /\ w2 \in World /\ w2.unit = w.unit /\ w2.threw = w.threw
      /\ w2.blocked = w.blocked /\ w2.alive = w.alive
      /\ \A f \in Field, c \in Cell :
           w2.cell[f][c] = IF f = FieldOf[t] /\ c \in Taken(t, p) /\ w.cell[f][c] = u
                           THEN None ELSE w.cell[f][c]
  BY ClearTypeEffect
<1>2. ASSUME NEW f \in Field, NEW c \in Cell
      PROVE  /\ w2.cell[f][c] = u => w.cell[f][c] = u /\ ~(f = FieldOf[t] /\ c \in Taken(t, p))
             /\ w.cell[f][c] \in {None, u} => w2.cell[f][c] \in {None, u}
             /\ \A v \in Unit \ {u} : w2.cell[f][c] = v <=> w.cell[f][c] = v
  BY <1>1, UnitAssumption
<1> QED BY <1>1, <1>2 DEF Local

(* clearUnitCells in a morph: what the unit still holds lies where it      *)
(* stands, or was not in its way.                                          *)
LEMMA TurningFacts ==
  ASSUME NEW w, NEW u \in Unit, NEW m, Good(w), Turning(w.unit[u], m)
  PROVE  /\ Reserving(w.unit[u]) /\ OnMap(w.unit[u])
         /\ m \in Type /\ w.unit[u].type \in Type /\ w.unit[u].pos \in Place
         /\ w.unit[u].commands \in Seq(Command) /\ Len(w.unit[u].commands) = 1
         /\ Orderly => \/ Size[w.unit[u].type] <= Size[m]
                       \/ /\ FieldOf[w.unit[u].type] = FieldOf[m]
                          /\ Solid[m] \subseteq Solid[w.unit[u].type]
<1>1. /\ w \in World /\ Rooted(w, u) /\ Queued(w.unit[u]) /\ Reserving(w.unit[u])
      /\ m = Head(w.unit[u].commands).order.of
  BY DEF Good, Turning
<1>2. w.unit[u] \in UnitRecord
  BY <1>1 DEF World
<1>3. OnMap(w.unit[u]) /\ Head(w.unit[u].commands).order.kind = "morph"
  BY <1>1 DEF Reserving, OnMap, Current
<1>4. w.unit[u].commands \in Seq(Command) /\ w.unit[u].commands # << >>
  BY <1>1, <1>2 DEF UnitRecord, Reserving, Current
<1>5. Head(w.unit[u].commands) = w.unit[u].commands[1] /\ Len(w.unit[u].commands) \in Nat \ {0}
  BY <1>4
<1>6. Len(w.unit[u].commands) = 1
  <2>1. \A i \in 1 .. Len(w.unit[u].commands) - 1 : w.unit[u].commands[i].order.kind # "morph"
    BY <1>1 DEF Queued
  <2>2. w.unit[u].commands[1].order.kind = "morph"
    BY <1>3, <1>5
  <2>3. 1 \notin 1 .. Len(w.unit[u].commands) - 1
    BY <2>1, <2>2
  <2>4. \A n \in Nat \ {0} : 1 \notin 1 .. n - 1 => n = 1
    OBVIOUS
  <2> QED BY <1>5, <2>3, <2>4
<1>7. w.unit[u].type \in Type /\ w.unit[u].pos \in Place
  BY <1>1, <1>2, <1>3 DEF Rooted, UnitRecord
<1>8. Head(w.unit[u].commands).order \in Can[w.unit[u].type]
  BY <1>1, <1>3, <1>5, <1>6 DEF Queued
<1>9. m \in Type
  BY <1>1, MorphType
<1>10. Orderly => \/ Size[w.unit[u].type] <= Size[m]
                  \/ /\ FieldOf[w.unit[u].type] = FieldOf[m]
                     /\ Solid[m] \subseteq Solid[w.unit[u].type]
  BY <1>1, <1>3, <1>7, <1>8 DEF Orderly, NoFieldShrink
<1> QED BY <1>1, <1>3, <1>4, <1>6, <1>7, <1>9, <1>10

IsCleared(w, w2, u) ==
  /\ Local(w, w2, u) /\ w2.unit = w.unit /\ w2.threw = w.threw /\ w2.alive = w.alive
  /\ \A f \in Field, c \in Cell :
       /\ w2.cell[f][c] = u => w.cell[f][c] = u
       /\ w.cell[f][c] \in {None, u} => w2.cell[f][c] \in {None, u}
       /\ Orderly /\ w2.cell[f][c] = u => Standing(w, u, f, c)

LEMMA ClearsReservedEffect ==
  ASSUME NEW w, NEW u \in Unit, NEW m, Good(w), Turning(w.unit[u], m),
         NEW w1, w1 = ClearType(w, u, w.unit[u].pos, m),
         NEW w2, w2 = [w1 EXCEPT !.blocked = @ \ {u}]
  PROVE  IsCleared(w, w2, u)
<1>1. w \in World /\ m \in Type /\ Cleared(w, u)
  BY TurningFacts DEF Good
<1>2. /\ Local(w, w1, u) /\ w1.unit = w.unit /\ w1.threw = w.threw
      /\ w1.alive = w.alive /\ w1.blocked = w.blocked
      /\ \A f \in Field, c \in Cell :
           /\ w1.cell[f][c] = u =>
                w.cell[f][c] = u /\ ~(f = FieldOf[m] /\ c \in Taken(m, w.unit[u].pos))
           /\ w.cell[f][c] \in {None, u} => w1.cell[f][c] \in {None, u}
  BY <1>1, ClearEffect
<1>3. w1 \in World /\ w1.blocked \in SUBSET Unit
  BY <1>2 DEF Local, World
<1>4. /\ w2.unit = w1.unit /\ w2.threw = w1.threw /\ w2.alive = w1.alive
      /\ w2.cell = w1.cell /\ w2.blocked = w1.blocked \ {u}
  BY <1>3 DEF World
<1>5. w2 \in World
  <2>1. w1.blocked \ {u} \in SUBSET Unit
    BY <1>3
  <2> QED BY <1>3, <2>1 DEF World
<1>6. Local(w, w2, u)
  BY <1>2, <1>4, <1>5 DEF Local
<1>7. ASSUME NEW f \in Field, NEW c \in Cell, Orderly, w2.cell[f][c] = u
      PROVE  Standing(w, u, f, c)
  <2>1. w.cell[f][c] = u /\ ~(f = FieldOf[m] /\ c \in Taken(m, w.unit[u].pos))
    BY <1>2, <1>4, <1>7
  <2>2. Standing(w, u, f, c) \/ Reserved(w, u, f, c)
    BY <1>1, <1>7, <2>1 DEF Cleared
  <2> QED BY <2>1, <2>2 DEF Reserved, Turning
<1> QED BY <1>2, <1>4, <1>6, <1>7 DEF IsCleared

LEMMA ClearsOwnEffect ==
  ASSUME NEW w, NEW u \in Unit, NEW m, Good(w), Turning(w.unit[u], m),
         u \in w.blocked => Size[w.unit[u].type] > Size[m],
         NEW w2, w2 = ClearType(w, u, w.unit[u].pos, w.unit[u].type)
  PROVE  IsCleared(w, w2, u)
<1>1. /\ w \in World /\ w.unit[u].type \in Type /\ m \in Type /\ Cleared(w, u)
      /\ Orderly => \/ Size[w.unit[u].type] <= Size[m]
                    \/ /\ FieldOf[w.unit[u].type] = FieldOf[m]
                       /\ Solid[m] \subseteq Solid[w.unit[u].type]
  BY TurningFacts DEF Good
<1>2. /\ Local(w, w2, u) /\ w2.unit = w.unit /\ w2.threw = w.threw /\ w2.alive = w.alive
      /\ \A f \in Field, c \in Cell :
           /\ w2.cell[f][c] = u => w.cell[f][c] = u
           /\ w.cell[f][c] \in {None, u} => w2.cell[f][c] \in {None, u}
  BY <1>1, ClearEffect
<1>3. ASSUME NEW f \in Field, NEW c \in Cell, Orderly, w2.cell[f][c] = u
      PROVE  Standing(w, u, f, c)
  <2>1. Standing(w, u, f, c) \/ Reserved(w, u, f, c)
    BY <1>1, <1>2, <1>3 DEF Cleared
  <2>2. ASSUME Reserved(w, u, f, c) PROVE Standing(w, u, f, c)
    <3>1. /\ u \in w.blocked /\ f = FieldOf[m] /\ c \in Taken(m, w.unit[u].pos)
      BY <2>2 DEF Reserved, Turning
    <3>2. Size[w.unit[u].type] \in Nat /\ Size[m] \in Nat
      BY <1>1, TypeAssumption
    <3>3. FieldOf[w.unit[u].type] = FieldOf[m] /\ Solid[m] \subseteq Solid[w.unit[u].type]
      BY <1>1, <1>3, <3>1, <3>2
    <3>4. Taken(m, w.unit[u].pos) \subseteq Taken(w.unit[u].type, w.unit[u].pos)
      BY <3>3 DEF Taken
    <3> QED BY <3>1, <3>3, <3>4 DEF Standing
  <2> QED BY <2>1, <2>2
<1> QED BY <1>2, <1>3 DEF IsCleared

LEMMA ClearInMorph ==
  ASSUME NEW w, NEW u \in Unit, NEW m, Good(w), Turning(w.unit[u], m),
         NEW w2, w2 = ClearUnitCells(w, u)
  PROVE  IsCleared(w, w2, u)
<1>1. CASE ClearsReserved(w, u)
  <2>1. w2 = [ClearType(w, u, w.unit[u].pos, m) EXCEPT !.blocked = @ \ {u}]
    BY <1>1 DEF ClearUnitCells, Turning
  <2> QED BY <2>1, ClearsReservedEffect
<1>2. CASE ~ClearsReserved(w, u)
  <2>1. w2 = ClearType(w, u, w.unit[u].pos, w.unit[u].type)
    BY <1>2 DEF ClearUnitCells, ClearOwnCells
  <2>2. u \in w.blocked => Size[w.unit[u].type] > Size[m]
    <3>1. w.unit[u].type \in Type /\ m \in Type
      BY TurningFacts
    <3>2. Size[w.unit[u].type] \in Nat /\ Size[m] \in Nat
      BY <3>1, TypeAssumption
    <3> QED BY <1>2, <3>2 DEF ClearsReserved, Turning
  <2> QED BY <2>1, <2>2, ClearsOwnEffect
<1> QED BY <1>1, <1>2

(* A unit in a morph that has lost cells gets its own ones again.          *)
LEMMA RestoreEffect ==
  ASSUME NEW w, NEW u \in Unit, NEW m, Good(w), Turning(w.unit[u], m),
         NEW w1, IsCleared(w, w1, u),
         NEW w2, w2 = PutOwnCells(w1, u, w.unit[u].pos)
  PROVE  AsBefore(w, w2, u) /\ w2.unit[u] = w.unit[u]
<1> DEFINE t == w.unit[u].type
           p == w.unit[u].pos
<1>1. /\ w \in World /\ ~w.threw /\ Rooted(w, u) /\ Queued(w.unit[u])
      /\ OnMap(w.unit[u]) /\ t \in Type /\ p \in Place /\ w.unit[u] \in UnitRecord
  BY TurningFacts DEF Good, World
<1>2. IsCleared(w, w1, u)
  OBVIOUS
<1>3. w2 = PutOwnCells(w1, u, p)
  OBVIOUS
<1>4. /\ Local(w, w1, u) /\ w1.unit = w.unit /\ w1.threw = w.threw
      /\ w1.alive = w.alive /\ w1 \in World
  BY <1>2 DEF IsCleared, Local
<1>5. Square(p, Size[t]) \subseteq Cell /\ \A c \in Taken(t, p) : w.cell[FieldOf[t]][c] = u
  BY <1>1 DEF Rooted
<1>6. Taken(t, p) \subseteq Cell /\ FieldOf[t] \in Field
  BY <1>1, <1>5, TakenInSquare, TypeAssumption
<1>7. Fits(w1, u, w1.unit[u].type, p)
  <2>1. \A c \in Taken(t, p) : w1.cell[FieldOf[t]][c] \in {None, u}
    BY <1>2, <1>5, <1>6 DEF IsCleared
  <2> QED BY <1>1, <1>4, <1>5, <2>1 DEF Fits
<1>8. /\ Local(w1, w2, u) /\ w2.threw = w1.threw /\ w2.alive = w1.alive
      /\ w2.unit[u] = [w1.unit[u] EXCEPT !.pos = p]
      /\ \A f \in Field, c \in Cell :
           w2.cell[f][c] =
             IF f = FieldOf[w1.unit[u].type] /\ c \in Taken(w1.unit[u].type, p)
             THEN u ELSE w1.cell[f][c]
  BY <1>3, <1>4, <1>7, PutEffect
<1>9. w2.unit[u] = w.unit[u]
  BY <1>1, <1>4, <1>8 DEF UnitRecord
<1>10. \A f \in Field, c \in Cell :
         w2.cell[f][c] = IF f = FieldOf[t] /\ c \in Taken(t, p) THEN u ELSE w1.cell[f][c]
  BY <1>4, <1>8
<1>11. Rooted(w2, u)
  BY <1>1, <1>5, <1>6, <1>9, <1>10 DEF Rooted
<1>12. Tight(w2, u)
  <2>1. ASSUME Orderly, NEW f \in Field, NEW c \in Cell, w2.cell[f][c] = u
        PROVE  Standing(w, u, f, c)
    <3>1. CASE f = FieldOf[t] /\ c \in Taken(t, p)
      BY <3>1 DEF Standing
    <3>2. CASE ~(f = FieldOf[t] /\ c \in Taken(t, p))
      BY <1>2, <1>10, <2>1, <3>2 DEF IsCleared
    <3> QED BY <3>1, <3>2
  <2> QED BY <1>1, <1>9, <2>1 DEF Tight, Standing
<1>13. Local(w, w2, u)
  BY <1>4, <1>8, LocalTwice
<1>14. Good(w2)
  <2>1. Cleared(w2, u)
    BY <1>12 DEF Tight, Cleared
  <2>2. Queued(w2.unit[u]) /\ ~w2.threw
    BY <1>1, <1>4, <1>8, <1>9
  <2> QED BY <1>11, <1>13, <2>1, <2>2, LocalOthers
<1> QED BY <1>4, <1>8, <1>9, <1>12, <1>13, <1>14 DEF AsBefore, Steady

(* Unit::undoCommand leaves the unit on its own cells.                     *)
LEMMA UndoMorphEffect ==
  ASSUME NEW w, NEW u \in Unit, NEW m, Good(w), Turning(w.unit[u], m),
         NEW w2, w2 = UndoMorph(w, u)
  PROVE  AsBefore(w, w2, u) /\ w2.unit[u] = w.unit[u]
<1> DEFINE w1 == ClearUnitCells(w, u)
<1>1. IsCleared(w, w1, u)
  BY ClearInMorph
<1>2. w2 = PutOwnCells(w1, u, w.unit[u].pos)
  BY DEF UndoMorph
<1> HIDE DEF w1
<1> DEFINE w3 == PutOwnCells(w1, u, w.unit[u].pos)
<1>3. AsBefore(w, w3, u) /\ w3.unit[u] = w.unit[u]
  BY <1>1, RestoreEffect
<1> QED BY <1>2, <1>3

LEMMA LocalSame ==
  ASSUME NEW w, NEW u \in Unit, Steady(w, u)
  PROVE  AsBefore(w, w, u)
BY DEF AsBefore, Steady, Good, Local

LEMMA UndoEffect ==
  ASSUME NEW w, NEW u \in Unit, Good(w), NEW w2, w2 = UndoCurrent(w, u)
  PROVE  AsBefore(w, w2, u) /\ w2.unit[u] = w.unit[u]
<1>1. CASE Reserving(w.unit[u])
  <2> DEFINE m == Head(w.unit[u].commands).order.of
  <2>1. Turning(w.unit[u], m) /\ w2 = UndoMorph(w, u)
    BY <1>1 DEF Turning, UndoCurrent
  <2> HIDE DEF m
  <2> QED BY <2>1, UndoMorphEffect
<1>2. CASE ~Reserving(w.unit[u])
  <2>1. w2 = w /\ Steady(w, u)
    BY <1>2, SteadyUnless DEF UndoCurrent
  <2> QED BY <2>1, LocalSame
<1> QED BY <1>1, <1>2

LEMMA AsBeforeTwice ==
  ASSUME NEW w, NEW w1, NEW w2, NEW u \in Unit, AsBefore(w, w1, u), AsBefore(w1, w2, u)
  PROVE  AsBefore(w, w2, u)
BY LocalTwice DEF AsBefore

(* The queue of a unit, seen from the unit.                                *)
LEMMA QueueFacts ==
  ASSUME NEW w, NEW u \in Unit, Good(w)
  PROVE  /\ w.unit[u].commands \in Seq(Command)
         /\ \A i \in 1 .. Len(w.unit[u].commands) - 1 :
              w.unit[u].commands[i].order.kind # "morph"
         /\ OnMap(w.unit[u]) => \A i \in 1 .. Len(w.unit[u].commands) :
              w.unit[u].commands[i].order \in Can[w.unit[u].type]
BY DEF Good, World, UnitRecord, Queued

LEMMA ClearCommandsEffect ==
  ASSUME NEW w, NEW u \in Unit, Good(w), NEW w2, w2 = ClearCommands(w, u)
  PROVE  /\ AsBefore(w, w2, u) /\ w2.unit[u].skill = w.unit[u].skill
         /\ w2.unit[u].commands = << >>
<1>1. CASE w.unit[u].commands = << >>
  <2>1. w2 = w /\ ~Reserving(w.unit[u])
    BY <1>1 DEF ClearCommands, Reserving, Current
  <2>2. Steady(w, u)
    BY <2>1, SteadyUnless
  <2> QED BY <1>1, <2>1, <2>2, LocalSame
<1>2. CASE w.unit[u].commands # << >>
  <2> DEFINE w1 == UndoCurrent(w, u)
  <2>1. AsBefore(w, w1, u) /\ w1.unit[u] = w.unit[u]
    BY UndoEffect
  <2>2. w2 = SetCommands(w1, u, << >>)
    BY <1>2 DEF ClearCommands
  <2> HIDE DEF w1
  <2>3. Steady(w1, u)
    BY <2>1 DEF AsBefore
  <2>4. /\ AsBefore(w1, w2, u) /\ w2.unit[u].skill = w1.unit[u].skill
        /\ w2.unit[u].commands = << >>
    <3> DEFINE r == << >>
    <3>1. r \in Seq(Command)
      OBVIOUS
    <3>2. \A i \in 1 .. Len(r) - 1 : r[i].order.kind # "morph"
      OBVIOUS
    <3>3. OnMap(w1.unit[u]) => \A i \in 1 .. Len(r) : r[i].order \in Can[w1.unit[u].type]
      OBVIOUS
    <3>4. w2 = SetCommands(w1, u, r)
      BY <2>2
    <3> HIDE DEF r
    <3>5. /\ AsBefore(w1, w2, u) /\ w2.unit[u].skill = w1.unit[u].skill
          /\ w2.unit[u].commands = r
      BY <2>3, <3>1, <3>2, <3>3, <3>4, SetCommandsEffect
    <3> QED BY <3>5 DEF r
  <2> QED BY <2>1, <2>4, AsBeforeTwice
<1> QED BY <1>1, <1>2

LEMMA Shorter ==
  ASSUME NEW q \in Seq(Command), q # << >>, NEW r, r = SubSeq(q, 1, Len(q) - 1)
  PROVE  r \in Seq(Command) /\ Len(r) = Len(q) - 1 /\ \A i \in 1 .. Len(r) : r[i] = q[i]
<1>1. Len(q) \in Nat \ {0}
  OBVIOUS
<1> DEFINE n == Len(q) - 1
<1>2. n \in Nat /\ \A i \in 1 .. n : q[i] \in Command
  BY <1>1
<1>3. r = SubSeq(q, 1, n)
  OBVIOUS
<1> HIDE DEF n
<1>4. /\ SubSeq(q, 1, n) \in Seq(Command)
      /\ Len(SubSeq(q, 1, n)) = IF 1 <= n THEN n - 1 + 1 ELSE 0
      /\ \A i \in 1 .. n - 1 + 1 : SubSeq(q, 1, n)[i] = q[1 + i - 1]
  BY <1>2, SubSeqProperties
<1>5. Len(r) = n /\ \A i \in 1 .. n : r[i] = q[i]
  BY <1>2, <1>3, <1>4
<1> QED BY <1>3, <1>4, <1>5 DEF n

LEMMA TailFacts ==
  ASSUME NEW q \in Seq(Command), q # << >>, NEW r, r = Tail(q)
  PROVE  r \in Seq(Command) /\ Len(r) = Len(q) - 1 /\ \A i \in 1 .. Len(r) : r[i] = q[i + 1]
OBVIOUS

LEMMA CancelCommandEffect ==
  ASSUME NEW w, NEW u \in Unit, Good(w), NEW w2, w2 = CancelCommand(w, u)
  PROVE  /\ AsBefore(w, w2, u) /\ w2.unit[u].skill = w.unit[u].skill
         /\ \A i \in 1 .. Len(w2.unit[u].commands) :
              w2.unit[u].commands[i].order.kind # "morph"
<1> DEFINE q == w.unit[u].commands
<1>1. /\ q \in Seq(Command) /\ \A i \in 1 .. Len(q) - 1 : q[i].order.kind # "morph"
      /\ OnMap(w.unit[u]) => \A i \in 1 .. Len(q) : q[i].order \in Can[w.unit[u].type]
  BY QueueFacts
<1>2. CASE q = << >>
  <2>1. w2 = w /\ ~Reserving(w.unit[u])
    BY <1>2 DEF CancelCommand, Reserving, Current
  <2>2. Steady(w, u)
    BY <2>1, SteadyUnless
  <2> QED BY <1>2, <2>1, <2>2, LocalSame
<1>3. CASE q # << >>
  <2> DEFINE w1 == IF Len(q) = 1 THEN UndoCurrent(w, u) ELSE w
             r == SubSeq(q, 1, Len(q) - 1)
  <2>1. w2 = SetCommands(w1, u, r)
    BY <1>3 DEF CancelCommand
  <2>2. AsBefore(w, w1, u) /\ w1.unit[u] = w.unit[u]
    <3>1. CASE Len(q) = 1
      BY <3>1, UndoEffect
    <3>2. CASE Len(q) # 1
      <4>1. q[1] = Head(q) /\ Len(q) \in Nat \ {0}
        BY <1>1, <1>3
      <4>a. 1 \in 1 .. Len(q) - 1
        <5>1. \A n \in Nat \ {0} : n # 1 => 1 \in 1 .. n - 1
          OBVIOUS
        <5> QED BY <3>2, <4>1, <5>1
      <4>2. ~Reserving(w.unit[u])
        BY <1>1, <4>1, <4>a DEF Reserving, Current
      <4> QED BY <3>2, <4>2, SteadyUnless, LocalSame
    <3> QED BY <3>1, <3>2
  <2>3. r \in Seq(Command) /\ Len(r) = Len(q) - 1 /\ \A i \in 1 .. Len(r) : r[i] = q[i]
    BY <1>1, <1>3, Shorter
  <2> HIDE DEF w1, r, q
  <2>4. Steady(w1, u) /\ Len(q) \in Nat
    BY <1>1, <2>2 DEF AsBefore
  <2>5. \A i \in 1 .. Len(r) : r[i].order.kind # "morph"
    BY <1>1, <2>3
  <2>6. \A i \in 1 .. Len(r) - 1 : r[i].order.kind # "morph"
    BY <2>3, <2>4, <2>5
  <2>7. OnMap(w1.unit[u]) => \A i \in 1 .. Len(r) : r[i].order \in Can[w1.unit[u].type]
    BY <1>1, <2>2, <2>3, <2>4
  <2>8. /\ AsBefore(w1, w2, u) /\ w2.unit[u].skill = w1.unit[u].skill
        /\ w2.unit[u].commands = r
    BY <2>1, <2>3, <2>4, <2>6, <2>7, SetCommandsEffect
  <2>9. AsBefore(w, w2, u)
    BY <2>2, <2>8, AsBeforeTwice
  <2> QED BY <2>2, <2>5, <2>8, <2>9
<1> QED BY <1>2, <1>3

LEMMA FinishCommandEffect ==
  ASSUME NEW w, NEW u \in Unit, Steady(w, u), NEW w2, w2 = FinishCommand(w, u)
  PROVE  AsBefore(w, w2, u) /\ w2.unit[u].skill = w.unit[u].skill
<1> DEFINE q == w.unit[u].commands
<1>1. Good(w)
  BY DEF Steady
<1>2. /\ q \in Seq(Command) /\ \A i \in 1 .. Len(q) - 1 : q[i].order.kind # "morph"
      /\ OnMap(w.unit[u]) => \A i \in 1 .. Len(q) : q[i].order \in Can[w.unit[u].type]
  BY <1>1, QueueFacts
<1>3. CASE q = << >>
  BY <1>3, LocalSame DEF FinishCommand
<1>4. CASE q # << >>
  <2> DEFINE r == Tail(q)
  <2>1. w2 = SetCommands(w, u, r)
    BY <1>4 DEF FinishCommand
  <2>2. r \in Seq(Command) /\ Len(r) = Len(q) - 1 /\ \A i \in 1 .. Len(r) : r[i] = q[i + 1]
    BY <1>2, <1>4, TailFacts
  <2>3. Len(q) \in Nat
    BY <1>2
  <2> HIDE DEF r, q
  <2>4. \A i \in 1 .. Len(r) - 1 : i + 1 \in 1 .. Len(q) - 1 /\ r[i] = q[i + 1]
    BY <2>2, <2>3
  <2>5. \A i \in 1 .. Len(r) - 1 : r[i].order.kind # "morph"
    BY <1>2, <2>4
  <2>6. \A i \in 1 .. Len(r) : i + 1 \in 1 .. Len(q) /\ r[i] = q[i + 1]
    BY <2>2, <2>3
  <2>7. OnMap(w.unit[u]) => \A i \in 1 .. Len(r) : r[i].order \in Can[w.unit[u].type]
    BY <1>2, <2>6
  <2> QED BY <2>1, <2>2, <2>5, <2>7, SetCommandsEffect
<1> QED BY <1>3, <1>4

LEMMA RoomEffect ==
  ASSUME NEW w, NEW u \in Unit, NEW order, NEW tryQueue, Good(w),
         NEW w2, w2 = MakeRoom(w, u, order, tryQueue)
  PROVE  /\ AsBefore(w, w2, u) /\ w2.unit[u].skill = w.unit[u].skill
         /\ \A i \in 1 .. Len(w2.unit[u].commands) :
              w2.unit[u].commands[i].order.kind # "morph"
<1> DEFINE q == w.unit[u].commands
<1>1. CASE ~Queuable(order, tryQueue)
  <2>1. w2 = ClearCommands(w, u)
    BY <1>1 DEF MakeRoom
  <2>2. /\ AsBefore(w, w2, u) /\ w2.unit[u].skill = w.unit[u].skill
        /\ w2.unit[u].commands = << >>
    BY <2>1, ClearCommandsEffect
  <2> QED BY <2>2
<1>2. CASE Queuable(order, tryQueue) /\ q # << >> /\ ~Appendable(q[Len(q)].order)
  <2>1. w2 = CancelCommand(w, u)
    BY <1>2 DEF MakeRoom
  <2> QED BY <2>1, CancelCommandEffect
<1>3. CASE Queuable(order, tryQueue) /\ ~(q # << >> /\ ~Appendable(q[Len(q)].order))
  <2>1. w2 = w
    BY <1>3 DEF MakeRoom
  <2>2. q \in Seq(Command) /\ \A i \in 1 .. Len(q) - 1 : q[i].order.kind # "morph"
    BY QueueFacts
  <2>3. q # << >> => q[Len(q)].order.kind # "morph"
    BY <1>3 DEF Appendable
  <2>4. \A i \in 1 .. Len(q) : q[i].order.kind # "morph"
    BY <2>2, <2>3
  <2>5. ~Reserving(w.unit[u])
    <3>1. q # << >> => Head(q) = q[1] /\ 1 \in 1 .. Len(q)
      BY <2>2
    <3> QED BY <2>4, <3>1 DEF Reserving, Current
  <2>6. AsBefore(w, w, u)
    BY <2>5, SteadyUnless, LocalSame
  <2> QED BY <2>1, <2>4, <2>6
<1> QED BY <1>1, <1>2, <1>3

LEMMA LongerFacts ==
  ASSUME NEW q \in Seq(Command), NEW e \in Command, NEW r, r = Append(q, e)
  PROVE  /\ r \in Seq(Command) /\ Len(r) = Len(q) + 1 /\ Len(q) \in Nat
         /\ r[Len(r)] = e /\ \A i \in 1 .. Len(r) - 1 : i \in 1 .. Len(q) /\ r[i] = q[i]
OBVIOUS

LEMMA GiveCommandEffect ==
  ASSUME NEW w, NEW u \in Unit, NEW order, NEW tryQueue, Good(w),
         NEW w2, w2 = GiveCommand(w, u, order, tryQueue)
  PROVE  AsBefore(w, w2, u) /\ w2.unit[u].skill = w.unit[u].skill
<1> DEFINE w1 == MakeRoom(w, u, order, tryQueue)
           q == w1.unit[u].commands
           e == [order |-> order, site |-> None]
<1>1. /\ AsBefore(w, w1, u) /\ w1.unit[u].skill = w.unit[u].skill
      /\ \A i \in 1 .. Len(q) : q[i].order.kind # "morph"
  BY RoomEffect
<1>2. Steady(w1, u) /\ Good(w1)
  BY <1>1 DEF AsBefore, Steady
<1>3. q \in Seq(Command) /\ (OnMap(w1.unit[u]) => \A i \in 1 .. Len(q) : q[i].order \in Can[w1.unit[u].type])
  BY <1>2, QueueFacts
<1>4. CASE Operative(w1, u) /\ order \in Can[w1.unit[u].type]
  <2> DEFINE r == Append(q, e)
  <2>1. w2 = SetCommands(w1, u, r)
    BY <1>4 DEF GiveCommand
  <2>2. OnMap(w1.unit[u]) /\ w1.unit[u].type \in Type
    BY <1>2, <1>4 DEF Operative, Good, Rooted
  <2>3. order \in Order
    BY <1>4, <2>2, TypeAssumption
  <2>4. e \in Command /\ e.order = order
    BY <2>3 DEF Command
  <2> HIDE DEF e
  <2>5. /\ r \in Seq(Command) /\ Len(r) = Len(q) + 1 /\ Len(q) \in Nat
        /\ r[Len(r)] = e /\ \A i \in 1 .. Len(r) - 1 : i \in 1 .. Len(q) /\ r[i] = q[i]
    BY <1>3, <2>4, LongerFacts
  <2> HIDE DEF r, q, w1
  <2>6. \A i \in 1 .. Len(r) - 1 : r[i].order.kind # "morph"
    BY <1>1, <2>5
  <2>7. \A i \in 1 .. Len(r) - 1 : r[i].order \in Can[w1.unit[u].type]
    BY <1>3, <2>2, <2>5
  <2>8. r[Len(r)].order \in Can[w1.unit[u].type]
    BY <1>4, <2>4, <2>5
  <2>9. \A i \in 1 .. Len(r) : i = Len(r) \/ i \in 1 .. Len(r) - 1
    BY <2>5
  <2>10. OnMap(w1.unit[u]) => \A i \in 1 .. Len(r) : r[i].order \in Can[w1.unit[u].type]
    BY <2>7, <2>8, <2>9
  <2>11. AsBefore(w1, w2, u) /\ w2.unit[u].skill = w1.unit[u].skill
    <3>1. r \in Seq(Command)
      BY <2>5
    <3> QED BY <1>2, <2>1, <2>6, <2>10, <3>1, SetCommandsEffect
  <2> QED BY <1>1, <2>11, AsBeforeTwice
<1>5. CASE ~(Operative(w1, u) /\ order \in Can[w1.unit[u].type])
  <2>1. w2 = w1
    BY <1>5 DEF GiveCommand
  <2> QED BY <1>1, <2>1
<1> QED BY <1>4, <1>5

-----------------------------------------------------------------------------
(* Morphs.                                                                 *)

(* What a step of a unit gives.                                            *)
Stepped(w, w2, u) ==
  Local(w, w2, u) /\ Good(w2) /\ OnMap(w2.unit[u]) /\ w2.alive = w.alive /\ Rests(w2, u)

LEMMA StartMorphEffect ==
  ASSUME NEW w, NEW u \in Unit, NEW m, Good(w), OnMap(w.unit[u]), Rests(w, u),
         w.unit[u].skill # "morph", Current(w.unit[u], "morph"),
         m = Head(w.unit[u].commands).order.of,
         IsFreeCellsOrHasUnit(w, w.unit[u].pos, Size[m], FieldOf[m], u),
         NEW w2, w2 = PutUnitCells(SetSkill(w, u, "morph"), u, w.unit[u].pos)
  PROVE  Stepped(w, w2, u) \/ Thrown(w2)
<1> DEFINE w1 == SetSkill(w, u, "morph")
           p == w.unit[u].pos
<1>1. Steady(w, u)
  BY SteadyUnless DEF Reserving
<1>2. /\ AsBefore(w, w1, u) /\ OnMap(w1.unit[u]) /\ w1.unit[u].skill = "morph"
      /\ w1.unit[u].commands = w.unit[u].commands /\ w1.cell = w.cell
  BY <1>1, SetSkillEffect DEF Skill
<1>3. w2 = PutUnitCells(w1, u, p)
  OBVIOUS
<1> HIDE DEF w1
<1>4. Turning(w1.unit[u], m)
  BY <1>2 DEF Turning, Reserving, Current
<1>5. /\ Local(w, w1, u) /\ Steady(w1, u) /\ Good(w1) /\ w1.alive = w.alive
      /\ w1.unit[u].pos = p /\ w1.unit[u].type = w.unit[u].type
  BY <1>2 DEF AsBefore, Steady
<1>6. /\ w1 \in World /\ ~w1.threw /\ Rooted(w1, u) /\ Queued(w1.unit[u]) /\ Tight(w1, u)
      /\ w1.unit[u] \in UnitRecord
  BY <1>5 DEF Steady, Good, World
<1>7. w \in World /\ m \in Type /\ p \in Place /\ w1.unit[u].type \in Type
  BY <1>4, <1>5, TurningFacts DEF Steady, Good
<1>9. Fits(w1, u, w1.unit[u].type, p)
  BY <1>2, <1>5, <1>6, <1>7 DEF Rooted, Fits
<1>8. SUFFICES ASSUME Fits(w1, u, m, p) PROVE Stepped(w, w2, u)
  <2>1. Orderly => Fits(w, u, m, p)
    BY <1>1, <1>7, RoomForUnit, LocalSame DEF AsBefore
  <2>2. Orderly => Fits(w1, u, m, p)
    BY <1>2, <2>1 DEF Fits
  <2>3. ASSUME ~Fits(w1, u, m, p) PROVE Thrown(PutUnitCells(w1, u, p))
    BY <1>4, <1>6, <1>7, <1>9, <2>2, <2>3, ReserveThrows
  <2> QED BY <1>3, <2>3
<1>10. IsPutBoth(w1, w2, u, p, m)
  <2> DEFINE w3 == PutUnitCells(w1, u, p)
  <2>1. IsPutBoth(w1, w3, u, p, m)
    BY <1>4, <1>6, <1>8, <1>9, ReserveEffect
  <2> QED BY <1>3, <2>1
<1>11. /\ Local(w1, w2, u) /\ w2.threw = w1.threw /\ u \in w2.blocked
       /\ w2.alive = w1.alive /\ w2.unit[u] = w1.unit[u]
       /\ \A f \in Field, c \in Cell :
            w2.cell[f][c] =
              IF \/ f = FieldOf[w1.unit[u].type] /\ c \in Taken(w1.unit[u].type, p)
                 \/ f = FieldOf[m] /\ c \in Taken(m, p)
              THEN u ELSE w1.cell[f][c]
  <2>1. [w1.unit[u] EXCEPT !.pos = p] = w1.unit[u]
    BY <1>5, <1>6 DEF UnitRecord
  <2> QED BY <1>10, <2>1 DEF IsPutBoth
<1>12. Rooted(w2, u)
  <2>1. /\ Square(p, Size[w1.unit[u].type]) \subseteq Cell
        /\ Taken(w1.unit[u].type, p) \subseteq Cell /\ FieldOf[w1.unit[u].type] \in Field
    BY <1>7, <1>9, TakenInSquare, TypeAssumption DEF Fits
  <2> QED BY <1>5, <1>7, <1>11, <2>1 DEF Rooted
<1>13. Cleared(w2, u)
  <2>1. ASSUME Orderly, NEW f \in Field, NEW c \in Cell, w2.cell[f][c] = u
        PROVE  Standing(w2, u, f, c) \/ Reserved(w2, u, f, c)
    <3>1. CASE f = FieldOf[w1.unit[u].type] /\ c \in Taken(w1.unit[u].type, p)
      BY <1>5, <1>11, <3>1 DEF Standing
    <3>2. CASE f = FieldOf[m] /\ c \in Taken(m, p)
      BY <1>4, <1>5, <1>11, <3>2 DEF Reserved, Turning
    <3>3. CASE /\ ~(f = FieldOf[w1.unit[u].type] /\ c \in Taken(w1.unit[u].type, p))
               /\ ~(f = FieldOf[m] /\ c \in Taken(m, p))
      <4>1. w1.cell[f][c] = u
        BY <1>11, <2>1, <3>3
      <4> QED BY <1>6, <1>11, <2>1, <4>1 DEF Tight, Standing
    <3> QED BY <3>1, <3>2, <3>3
  <2> QED BY <1>2, <1>11, <2>1 DEF Cleared
<1>14. Good(w2)
  <2>1. Queued(w2.unit[u]) /\ ~w2.threw
    BY <1>6, <1>11
  <2> QED BY <1>5, <1>11, <1>12, <1>13, <2>1, LocalOthers
<1>15. Local(w, w2, u)
  BY <1>5, <1>11, LocalTwice
<1> QED BY <1>2, <1>5, <1>11, <1>14, <1>15 DEF Stepped, Rests

LEMMA TailOfOne ==
  ASSUME NEW q \in Seq(Command), Len(q) = 1
  PROVE  q # << >> /\ Tail(q) = << >>
<1>1. q # << >>
  OBVIOUS
<1>2. Tail(q) \in Seq(Command) /\ Len(Tail(q)) = 0
  BY <1>1, TailFacts
<1> QED BY <1>1, <1>2, EmptySeq

(* Unit::morph and the end of the order.                                   *)
Morphed(w, w2, u) ==
  Local(w, w2, u) /\ Steady(w2, u) /\ OnMap(w2.unit[u]) /\ w2.alive = w.alive

LEMMA MorphEffect ==
  ASSUME NEW w, NEW u \in Unit, NEW m, Good(w), Turning(w.unit[u], m),
         NEW w1, IsCleared(w, w1, u), Orderly => Fits(w1, u, m, w.unit[u].pos),
         NEW w2, w2 = FinishCommand(Morph(w1, u, m), u)
  PROVE  Morphed(w, w2, u) \/ Thrown(w2)
<1> DEFINE p == w.unit[u].pos
           own == ClearOwnCells(w1, u)
           r == [own.unit[u] EXCEPT !.type = m]
           new == WithRecord(own, u, r)
           put == PutUnitCells(new, u, p)
<1>1. /\ w \in World /\ ~w.threw /\ OnMap(w.unit[u]) /\ m \in Type /\ p \in Place
      /\ w.unit[u].type \in Type /\ w.unit[u] \in UnitRecord
      /\ w.unit[u].commands \in Seq(Command) /\ Len(w.unit[u].commands) = 1
  BY TurningFacts DEF Good, World
<1>2. /\ Local(w, w1, u) /\ w1.unit = w.unit /\ w1.threw = w.threw /\ w1.alive = w.alive
      /\ w1 \in World
  BY DEF IsCleared, Local
<1>3. /\ Local(w1, own, u) /\ own.unit = w1.unit /\ own.threw = w1.threw /\ own.alive = w1.alive
      /\ \A f \in Field, c \in Cell :
           /\ own.cell[f][c] = u =>
                w1.cell[f][c] = u /\ ~(f = FieldOf[w.unit[u].type] /\ c \in Taken(w.unit[u].type, p))
           /\ w1.cell[f][c] \in {None, u} => own.cell[f][c] \in {None, u}
  <2> DEFINE w3 == ClearType(w1, u, p, w.unit[u].type)
  <2>1. /\ Local(w1, w3, u) /\ w3.unit = w1.unit /\ w3.threw = w1.threw /\ w3.alive = w1.alive
        /\ \A f \in Field, c \in Cell :
             /\ w3.cell[f][c] = u =>
                  w1.cell[f][c] = u /\ ~(f = FieldOf[w.unit[u].type] /\ c \in Taken(w.unit[u].type, p))
             /\ w1.cell[f][c] \in {None, u} => w3.cell[f][c] \in {None, u}
    BY <1>1, <1>2, ClearEffect
  <2>2. own = w3
    BY <1>2 DEF ClearOwnCells
  <2> QED BY <2>1, <2>2
<1>4. own \in World /\ own.unit[u] \in UnitRecord
  BY <1>1, <1>2, <1>3 DEF Local
<1> HIDE DEF own
<1>5. /\ r \in UnitRecord /\ r.type = m /\ r.pos = p /\ r.skill = w.unit[u].skill
      /\ r.commands = w.unit[u].commands
  BY <1>1, <1>2, <1>3, <1>4 DEF UnitRecord
<1> HIDE DEF r
<1>6. /\ Local(own, new, u) /\ new.unit[u] = r /\ new.threw = own.threw
      /\ new.alive = own.alive /\ new.cell = own.cell
  BY <1>4, <1>5, RecordEffect
<1>7. put = Morph(w1, u, m)
  <2>1. new = [own EXCEPT !.unit[u].type = m]
    BY <1>4 DEF r, World, WithRecord
  <2>2. own = ClearOwnCells(w1, u) /\ p = w1.unit[u].pos
    BY <1>2 DEF own
  <2> QED BY <2>1, <2>2 DEF Morph
<1> HIDE DEF new
<1>8. new \in World /\ Turning(new.unit[u], m)
  BY <1>5, <1>6 DEF Local, Turning, Reserving, Current
<1>a. ASSUME Fits(w1, u, m, p) PROVE Fits(new, u, m, p)
  <2>1. /\ Square(p, Size[m]) \subseteq Cell /\ Taken(m, p) \subseteq Cell /\ FieldOf[m] \in Field
        /\ \A c \in Taken(m, p) : w1.cell[FieldOf[m]][c] \in {None, u}
    BY <1>1, <1>a, TakenInSquare, TypeAssumption DEF Fits
  <2>2. \A c \in Taken(m, p) : new.cell[FieldOf[m]][c] \in {None, u}
    BY <1>3, <1>6, <2>1
  <2> QED BY <1>1, <2>1, <2>2 DEF Fits
<1>9. SUFFICES ASSUME Fits(new, u, m, p) PROVE Morphed(w, w2, u)
  <2>1. ASSUME ~Fits(new, u, m, p) PROVE Thrown(put)
    <3>1. new.unit[u].type = m /\ ~Orderly
      BY <1>5, <1>6, <1>a, <2>1
    <3> QED BY <1>1, <1>8, <2>1, <3>1, PutThrows
  <2> HIDE DEF put
  <2>2. Thrown(put) => Thrown(w2)
    BY <1>7, ThrownCommands
  <2> QED BY <2>1, <2>2
<1>10. IsPutBoth(new, put, u, p, m)
  <2>1. Fits(new, u, new.unit[u].type, p)
    BY <1>5, <1>6, <1>9
  <2> QED BY <1>8, <1>9, <2>1, ReserveEffect
<1> HIDE DEF put
<1>11. /\ Local(new, put, u) /\ put.threw = new.threw /\ put.alive = new.alive
       /\ put.unit[u] = r
       /\ \A f \in Field, c \in Cell :
            put.cell[f][c] = IF f = FieldOf[m] /\ c \in Taken(m, p) THEN u ELSE new.cell[f][c]
  <2>1. [new.unit[u] EXCEPT !.pos = p] = r
    BY <1>5, <1>6 DEF UnitRecord
  <2> QED BY <1>5, <1>6, <1>10, <2>1 DEF IsPutBoth
<1> DEFINE last == [r EXCEPT !.commands = << >>]
<1>12. w2 = WithRecord(put, u, last)
  <2>1. put.unit[u].commands = w.unit[u].commands /\ put \in World
    BY <1>5, <1>11 DEF Local
  <2>2. w.unit[u].commands # << >> /\ Tail(w.unit[u].commands) = << >>
    BY <1>1, TailOfOne
  <2>3. w2 = [put EXCEPT !.unit[u].commands = << >>]
    BY <1>7, <2>1, <2>2 DEF FinishCommand, SetCommands
  <2> QED BY <1>11, <2>1, <2>3 DEF World, WithRecord
<1>13. /\ last \in UnitRecord /\ last.type = m /\ last.pos = p /\ last.skill = w.unit[u].skill
       /\ last.commands = << >>
  <2>1. << >> \in Seq(Command)
    OBVIOUS
  <2> QED BY <1>5, <2>1 DEF UnitRecord
<1> HIDE DEF last
<1>14. /\ Local(put, w2, u) /\ w2.unit[u] = last /\ w2.threw = put.threw
       /\ w2.alive = put.alive /\ w2.cell = put.cell
  <2>1. put \in World /\ last \in UnitRecord
    BY <1>11, <1>13 DEF Local
  <2>2. ASSUME NEW w3, w3 = WithRecord(put, u, last)
        PROVE  /\ Local(put, w3, u) /\ w3.unit[u] = last /\ w3.threw = put.threw
               /\ w3.alive = put.alive /\ w3.cell = put.cell
    BY <2>1, <2>2, RecordEffect
  <2> QED BY <1>12, <2>2
<1>15. Local(w, w2, u)
  <2>1. Local(w, own, u)
    BY <1>2, <1>3, LocalTwice
  <2>2. Local(own, put, u)
    BY <1>6, <1>11, LocalTwice
  <2>3. Local(w, put, u)
    BY <2>1, <2>2, LocalTwice
  <2> QED BY <1>14, <2>3, LocalTwice
<1>16. OnMap(w2.unit[u])
  BY <1>1, <1>13, <1>14 DEF OnMap
<1>17. Rooted(w2, u)
  <2>1. /\ Square(p, Size[m]) \subseteq Cell /\ Taken(m, p) \subseteq Cell /\ FieldOf[m] \in Field
    BY <1>1, <1>9, TakenInSquare, TypeAssumption DEF Fits
  <2> QED BY <1>1, <1>11, <1>13, <1>14, <2>1 DEF Rooted
<1>18. Tight(w2, u)
  <2>1. ASSUME Orderly, NEW f \in Field, NEW c \in Cell, w2.cell[f][c] = u
        PROVE  f = FieldOf[m] /\ c \in Taken(m, p)
    <3>1. ASSUME ~(f = FieldOf[m] /\ c \in Taken(m, p)) PROVE FALSE
      <4>1. own.cell[f][c] = u
        BY <1>6, <1>11, <1>14, <2>1, <3>1
      <4>2. w1.cell[f][c] = u /\ ~Standing(w, u, f, c)
        BY <1>3, <4>1 DEF Standing
      <4> QED BY <2>1, <4>2 DEF IsCleared
    <3> QED BY <3>1
  <2> QED BY <1>13, <1>14, <1>16, <2>1 DEF Tight, Standing
<1>19. Good(w2)
  <2>1. Cleared(w2, u)
    BY <1>18 DEF Tight, Cleared
  <2>2. Queued(w2.unit[u])
    <3>1. last.commands = << >> /\ w2.unit[u] = last
      BY <1>13, <1>14
    <3> QED BY <3>1 DEF Queued
  <2>3. ~w2.threw
    BY <1>1, <1>2, <1>3, <1>6, <1>11, <1>14
  <2> QED BY <1>15, <1>17, <2>1, <2>2, <2>3, LocalOthers
<1> QED BY <1>2, <1>3, <1>6, <1>11, <1>14, <1>15, <1>16, <1>18, <1>19 DEF Steady, Morphed

-----------------------------------------------------------------------------
(* One update of a unit.                                                   *)

AllRest(w, u) == \A v \in Unit \ {u} : Rests(w, v)
Settled(w, u) == Good(w) /\ OnMap(w.unit[u]) /\ AllRest(w, u) /\ Rests(w, u)
Calm(w, u) == Settled(w, u) /\ Steady(w, u)
OnWay(w, u) ==
  Good(w) /\ OnMap(w.unit[u]) /\ AllRest(w, u) /\ Goes(w, u) /\ w.unit[u].commands # << >>

LEMMA AllRestAgain ==
  ASSUME NEW w, NEW w2, NEW u \in Unit, AllRest(w, u), Local(w, w2, u)
  PROVE  AllRest(w2, u)
BY DEF AllRest, Local, Rests

LEMMA CalmUnlessMorph ==
  ASSUME NEW w, NEW u \in Unit, Settled(w, u), ~Reserving(w.unit[u])
  PROVE  Calm(w, u)
BY SteadyUnless DEF Settled, Calm

LEMMA CalmAgain ==
  ASSUME NEW w, NEW w2, NEW u \in Unit, Settled(w, u), AsBefore(w, w2, u),
         w2.unit[u].skill = w.unit[u].skill
  PROVE  Calm(w2, u)
<1>1. Good(w) /\ OnMap(w.unit[u]) /\ AllRest(w, u) /\ Rests(w, u)
  BY DEF Settled
<1>2. /\ Local(w, w2, u) /\ Steady(w2, u) /\ Good(w2)
      /\ w2.unit[u].pos = w.unit[u].pos /\ w2.unit[u].target = w.unit[u].target
  BY DEF AsBefore, Steady
<1>3. OnMap(w2.unit[u]) /\ Rests(w2, u)
  BY <1>1, <1>2 DEF OnMap, Rests
<1> QED BY <1>1, <1>2, <1>3, AllRestAgain DEF Calm, Settled

LEMMA HaltedEffect ==
  ASSUME NEW w, NEW u \in Unit, Steady(w, u), OnMap(w.unit[u]), AllRest(w, u),
         NEW w2, w2 = Halted(w, u)
  PROVE  /\ Calm(w2, u) /\ Local(w, w2, u) /\ w2.cell = w.cell
         /\ w2.unit[u].commands = w.unit[u].commands
<1>1. w2 = SetSkill(w, u, "stop") /\ "stop" \in Skill \ {"unborn", "die", "rotten"}
  BY DEF Halted, Skill
<1> DEFINE w3 == SetSkill(w, u, "stop")
<1>2. /\ AsBefore(w, w3, u) /\ OnMap(w3.unit[u]) /\ w3.unit[u].skill = "stop"
      /\ w3.unit[u].commands = w.unit[u].commands /\ w3.cell = w.cell
  BY <1>1, SetSkillEffect
<1>3. w3 = w2
  BY <1>1
<1> HIDE DEF w3
<1>4. Local(w, w2, u) /\ Steady(w2, u) /\ Good(w2)
  BY <1>2, <1>3 DEF AsBefore, Steady
<1>5. Rests(w2, u)
  BY <1>2, <1>3 DEF Rests
<1> QED BY <1>2, <1>3, <1>4, <1>5, AllRestAgain DEF Calm, Settled

LEMMA CalmCancel ==
  ASSUME NEW w, NEW u \in Unit, Settled(w, u), NEW w2, w2 = CancelCommand(w, u)
  PROVE  Calm(w2, u)
<1>1. Good(w)
  BY DEF Settled
<1>2. AsBefore(w, w2, u) /\ w2.unit[u].skill = w.unit[u].skill
  BY <1>1, CancelCommandEffect
<1> QED BY <1>2, CalmAgain

LEMMA CalmFinish ==
  ASSUME NEW w, NEW u \in Unit, Calm(w, u), NEW w2, w2 = FinishCommand(w, u)
  PROVE  Calm(w2, u)
<1>1. Steady(w, u) /\ Settled(w, u)
  BY DEF Calm
<1>2. AsBefore(w, w2, u) /\ w2.unit[u].skill = w.unit[u].skill
  BY <1>1, FinishCommandEffect
<1> QED BY <1>1, <1>2, CalmAgain

LEMMA CalmHalted ==
  ASSUME NEW w, NEW u \in Unit, Calm(w, u), NEW w2, w2 = Halted(w, u)
  PROVE  Calm(w2, u) /\ w2.cell = w.cell /\ w2.unit[u].commands = w.unit[u].commands
BY HaltedEffect DEF Calm, Settled

LEMMA OneLess ==
  ASSUME NEW q \in Seq(Command), Len(q) = 1
  PROVE  SubSeq(q, 1, Len(q) - 1) = << >>
<1>1. q # << >>
  OBVIOUS
<1> DEFINE r == SubSeq(q, 1, Len(q) - 1)
<1>2. r \in Seq(Command) /\ Len(r) = Len(q) - 1
  BY <1>1, Shorter
<1>3. Len(r) = 0
  BY <1>2
<1> HIDE DEF r
<1>4. r = << >>
  BY <1>2, <1>3, EmptySeq
<1> QED BY <1>4 DEF r

(* Clearing twice.                                                         *)
LEMMA ClearAgain ==
  ASSUME NEW w, NEW u \in Unit, NEW m, Good(w), Turning(w.unit[u], m),
         NEW w1, IsCleared(w, w1, u), NEW w2, w2 = ClearUnitCells(w1, u)
  PROVE  IsCleared(w, w2, u)
<1>1. /\ w \in World /\ m \in Type /\ w.unit[u].type \in Type /\ w1 \in World
      /\ w1.unit = w.unit /\ w1.threw = w.threw /\ w1.alive = w.alive /\ Local(w, w1, u)
      /\ Turning(w1.unit[u], m)
  BY TurningFacts DEF Good, IsCleared, Local
<1>2. PICK t \in Type : \E new :
        /\ new = ClearType(w1, u, w.unit[u].pos, t)
        /\ w2 = new \/ w2 = [new EXCEPT !.blocked = @ \ {u}]
  <2>1. CASE ClearsReserved(w1, u)
    <3>1. w2 = [ClearType(w1, u, w.unit[u].pos, m) EXCEPT !.blocked = @ \ {u}]
      BY <1>1, <2>1 DEF ClearUnitCells, Turning
    <3> QED BY <1>1, <3>1
  <2>2. CASE ~ClearsReserved(w1, u)
    <3>1. w2 = ClearType(w1, u, w.unit[u].pos, w.unit[u].type)
      BY <1>1, <2>2 DEF ClearUnitCells, ClearOwnCells
    <3> QED BY <1>1, <3>1
  <2> QED BY <2>1, <2>2
<1>3. PICK new :
        /\ new = ClearType(w1, u, w.unit[u].pos, t)
        /\ w2 = new \/ w2 = [new EXCEPT !.blocked = @ \ {u}]
  BY <1>2
<1>4. /\ Local(w1, new, u) /\ new.unit = w1.unit /\ new.threw = w1.threw
      /\ new.alive = w1.alive
      /\ \A f \in Field, c \in Cell :
           /\ new.cell[f][c] = u => w1.cell[f][c] = u
           /\ w1.cell[f][c] \in {None, u} => new.cell[f][c] \in {None, u}
  BY <1>1, <1>3, ClearEffect
<1>5. new \in World /\ new.blocked \in SUBSET Unit
  BY <1>4 DEF Local, World
<1>6. /\ w2 \in World /\ w2.unit = new.unit /\ w2.threw = new.threw /\ w2.alive = new.alive
      /\ w2.cell = new.cell /\ \A v \in Unit \ {u} : v \in w2.blocked <=> v \in new.blocked
  <2>1. CASE w2 = new
    BY <1>5, <2>1
  <2>2. CASE w2 = [new EXCEPT !.blocked = @ \ {u}]
    <3>1. new.blocked \ {u} \in SUBSET Unit
      BY <1>5
    <3>2. w2 \in World
      BY <1>5, <2>2, <3>1 DEF World
    <3> QED BY <1>5, <2>2, <3>2 DEF World
  <2> QED BY <1>3, <2>1, <2>2
<1>7. Local(new, w2, u)
  BY <1>6 DEF Local
<1>8. Local(w, w2, u)
  BY <1>1, <1>4, <1>7, LocalTwice
<1> QED BY <1>1, <1>4, <1>6, <1>8 DEF IsCleared, Standing

LEMMA EndMorphEffect ==
  ASSUME NEW w, NEW u \in Unit, Settled(w, u), Reserving(w.unit[u]),
         NEW w2, w2 = EndMorph(w, u)
  PROVE  Calm(w2, u) \/ Thrown(w2)
<1> DEFINE m == Head(w.unit[u].commands).order.of
           w1 == ClearUnitCells(w, u)
           p == w.unit[u].pos
           room == IsFreeCellsOrHasUnit(w1, p, Size[m], FieldOf[m], u)
           end == IF room THEN FinishCommand(Morph(w1, u, m), u) ELSE CancelCommand(w1, u)
<1>1. Turning(w.unit[u], m) /\ w2 = Halted(end, u)
  BY DEF Turning, EndMorph
<1> HIDE DEF m
<1>2. Good(w) /\ w \in World /\ AllRest(w, u) /\ m \in Type /\ p \in Place /\ OnMap(w.unit[u])
  BY <1>1, TurningFacts DEF Settled, Good
<1>3. IsCleared(w, w1, u)
  BY <1>1, <1>2, ClearInMorph
<1>4. w1.unit = w.unit /\ w1 \in World /\ Local(w, w1, u) /\ w1.alive = w.alive
  BY <1>3 DEF IsCleared, Local
<1>5. \/ Local(w, end, u) /\ Steady(end, u) /\ OnMap(end.unit[u])
      \/ Thrown(end)
  <2>1. CASE room
    <3> DEFINE done == FinishCommand(Morph(w1, u, m), u)
    <3>1. Orderly => Fits(w1, u, m, p)
      BY <1>2, <1>4, <2>1, RoomForUnit
    <3> HIDE DEF w1
    <3>2. Morphed(w, done, u) \/ Thrown(done)
      BY <1>1, <1>2, <1>3, <3>1, MorphEffect
    <3> QED BY <2>1, <3>2 DEF Morphed
  <2>2. CASE ~room
    <3> DEFINE again == ClearUnitCells(w1, u)
               back == PutOwnCells(again, u, p)
               done == SetCommands(back, u, << >>)
    <3>1. end = CancelCommand(w1, u)
      BY <2>2
    <3> HIDE DEF w1
    <3>2. IsCleared(w, again, u)
      BY <1>1, <1>2, <1>3, ClearAgain
    <3>3. AsBefore(w, back, u) /\ back.unit[u] = w.unit[u]
      <4> HIDE DEF again
      <4> QED BY <1>1, <1>2, <3>2, RestoreEffect
    <3>4. Steady(back, u) /\ Local(w, back, u)
      BY <3>3 DEF AsBefore
    <3>5. end = done
      <4>1. w1.unit[u].commands \in Seq(Command) /\ Len(w1.unit[u].commands) = 1
        BY <1>1, <1>2, <1>4, TurningFacts
      <4>2. w1.unit[u].commands # << >>
        BY <4>1, TailOfOne
      <4>3. SubSeq(w1.unit[u].commands, 1, Len(w1.unit[u].commands) - 1) = << >>
        BY <4>1, OneLess
      <4>4. UndoCurrent(w1, u) = back
        <5>1. Reserving(w1.unit[u]) /\ w1.unit[u].pos = p
          BY <1>4
        <5> QED BY <5>1 DEF UndoCurrent, UndoMorph
      <4> QED BY <3>1, <4>1, <4>2, <4>3, <4>4 DEF CancelCommand
    <3> HIDE DEF back
    <3>6. AsBefore(back, done, u) /\ done.unit[u].skill = back.unit[u].skill
      <4>1. << >> \in Seq(Command)
        OBVIOUS
      <4> DEFINE r == << >>
      <4>2. \A i \in 1 .. Len(r) - 1 : r[i].order.kind # "morph"
        OBVIOUS
      <4>3. OnMap(back.unit[u]) => \A i \in 1 .. Len(r) : r[i].order \in Can[back.unit[u].type]
        OBVIOUS
      <4>4. r \in Seq(Command)
        OBVIOUS
      <4> DEFINE w3 == SetCommands(back, u, r)
      <4> HIDE DEF r
      <4>5. AsBefore(back, w3, u) /\ w3.unit[u].skill = back.unit[u].skill
        BY <3>4, <4>2, <4>3, <4>4, SetCommandsEffect
      <4> QED BY <4>5 DEF r
    <3> HIDE DEF done
    <3>7. Local(back, done, u) /\ Steady(done, u)
      BY <3>6 DEF AsBefore
    <3>8. Local(w, done, u) /\ OnMap(done.unit[u])
      BY <1>2, <3>3, <3>4, <3>6, <3>7, LocalTwice DEF OnMap
    <3> QED BY <3>5, <3>7, <3>8
  <2> QED BY <2>1, <2>2
<1> HIDE DEF end
<1>6. AllRest(end, u) \/ Thrown(end)
  BY <1>2, <1>5, AllRestAgain
<1> DEFINE w3 == Halted(end, u)
<1>7. Calm(w3, u) \/ Thrown(w3)
  BY <1>5, <1>6, HaltedEffect, ThrownSet
<1> QED BY <1>1, <1>7

LEMMA CellsArePlaces == Cell \subseteq Place
BY MapAssumption DEF Cell, Place

LEMMA MovingEffect ==
  ASSUME NEW w, NEW u \in Unit, Calm(w, u), w.unit[u].commands # << >>,
         NEW w2 \in Moving(w, u)
  PROVE  OnWay(w2, u)
<1>1. PICK p \in Beside(w, u) :
        w2 = [w EXCEPT !.unit[u].target = p, !.unit[u].skill = "move"]
  BY DEF Moving
<1>2. p \in Place /\ CanMove(w, u, p)
  BY CellsArePlaces DEF Beside
<1> DEFINE r == [w.unit[u] EXCEPT !.target = p, !.skill = "move"]
<1>3. /\ w \in World /\ ~w.threw /\ Queued(w.unit[u]) /\ w.unit[u] \in UnitRecord
      /\ Steady(w, u) /\ OnMap(w.unit[u]) /\ AllRest(w, u)
  BY DEF Calm, Settled, Good, World
<1>4. /\ r \in UnitRecord /\ r.type = w.unit[u].type /\ r.pos = w.unit[u].pos
      /\ r.target = p /\ r.commands = w.unit[u].commands /\ r.skill = "move"
  BY <1>2, <1>3 DEF UnitRecord, Skill
<1>5. w2 = WithRecord(w, u, r)
  BY <1>1, <1>3 DEF World, WithRecord
<1> HIDE DEF r
<1>6. /\ Local(w, w2, u) /\ w2.unit[u] = r /\ w2.threw = w.threw
      /\ w2.alive = w.alive /\ w2.cell = w.cell
  <2> DEFINE w3 == WithRecord(w, u, r)
  <2>1. /\ Local(w, w3, u) /\ w3.unit[u] = r /\ w3.threw = w.threw
        /\ w3.alive = w.alive /\ w3.cell = w.cell
    BY <1>3, <1>4, RecordEffect
  <2> QED BY <1>5, <2>1
<1>7. OnMap(w2.unit[u]) /\ Queued(w2.unit[u])
  BY <1>3, <1>4, <1>6 DEF OnMap, Queued
<1>8. Steady(w2, u)
  BY <1>3, <1>4, <1>6, <1>7, SteadyAgain
<1>9. CanMove(w2, u, p)
  <2> DEFINE f == FieldOf[w.unit[u].type]
  <2>1. f \in Field
    BY <1>3, TypeAssumption DEF Steady, Good, Rooted
  <2> HIDE DEF f
  <2>2. ASSUME NEW c \in Cell, w.cell[f][c] = u \/ IsFree(w, c, f)
        PROVE  w2.cell[f][c] = u \/ IsFree(w2, c, f)
    <3>1. w.cell[f][c] \in Unit \cup {None}
      BY <1>3, <2>1 DEF World
    <3>2. ASSUME w.cell[f][c] \in Unit \ {u}
          PROVE  w2.unit[w.cell[f][c]] = w.unit[w.cell[f][c]]
      BY <1>6, <3>2 DEF Local
    <3> QED BY <1>6, <2>2, <3>1, <3>2 DEF IsFree
  <2>3. ASSUME NEW c \in Square(p, Size[w.unit[u].type])
        PROVE  IsFreeCellOrHasUnit(w2, c, f, u)
    <3>1. IsFreeCellOrHasUnit(w, c, f, u)
      BY <1>2 DEF CanMove, IsFreeCellsOrHasUnit, f
    <3>2. c \in Cell /\ (w.cell[f][c] = u \/ IsFree(w, c, f))
      BY <3>1 DEF IsFreeCellOrHasUnit, IsFreeCell
    <3>3. w2.cell[f][c] = u \/ IsFree(w2, c, f)
      BY <2>2, <3>2
    <3>4. w2.cell[f][c] = w.cell[f][c]
      BY <1>6
    <3> QED BY <3>1, <3>2, <3>3, <3>4 DEF IsFreeCellOrHasUnit, IsFreeCell
  <2> QED BY <1>4, <1>6, <2>3 DEF CanMove, IsFreeCellsOrHasUnit, f
<1>10. Goes(w2, u)
  BY <1>4, <1>6, <1>9 DEF Goes
<1>11. AllRest(w2, u)
  BY <1>3, <1>6, AllRestAgain
<1> QED BY <1>4, <1>6, <1>7, <1>8, <1>10, <1>11 DEF OnWay, Steady

LEMMA UpdateMoveEffect ==
  ASSUME NEW w, NEW u \in Unit, Calm(w, u), w.unit[u].commands # << >>,
         NEW w2 \in UpdateMove(w, u)
  PROVE  Settled(w2, u) \/ OnWay(w2, u)
<1> DEFINE h == Halted(w, u)
<1>1. Calm(h, u)
  BY CalmHalted
<1>2. CASE w2 \in Moving(w, u)
  BY <1>2, MovingEffect
<1>3. CASE w2 = h
  BY <1>1, <1>3 DEF Calm
<1>4. CASE w2 = FinishCommand(h, u)
  <2> HIDE DEF h
  <2>1. Calm(w2, u)
    BY <1>1, <1>4, CalmFinish
  <2> QED BY <2>1 DEF Calm
<1> QED BY <1>2, <1>3, <1>4 DEF UpdateMove

LEMMA ApproachEffect ==
  ASSUME NEW w, NEW u \in Unit, Calm(w, u), w.unit[u].commands # << >>,
         NEW w2 \in Approach(w, u)
  PROVE  Settled(w2, u) \/ OnWay(w2, u)
<1> DEFINE h == Halted(w, u)
           c == CancelCommand(w, u)
           hc == CancelCommand(h, u)
<1>1. Calm(h, u)
  BY CalmHalted
<1>2. Calm(c, u)
  BY CalmCancel DEF Calm
<1>3. Calm(hc, u)
  <2> HIDE DEF h
  <2> QED BY <1>1, CalmCancel DEF Calm
<1>4. w2 \in Moving(w, u) \/ w2 = w \/ w2 = h \/ w2 = c \/ w2 = hc
  BY DEF Approach
<1>5. CASE w2 \in Moving(w, u)
  BY <1>5, MovingEffect
<1> HIDE DEF h, c, hc
<1>6. CASE w2 = w \/ w2 = h \/ w2 = c \/ w2 = hc
  BY <1>1, <1>2, <1>3, <1>6 DEF Calm
<1> QED BY <1>4, <1>5, <1>6

(* A new unit.                                                             *)
Created(w, w2, v) ==
  Local(w, w2, v) /\ Steady(w2, v) /\ OnMap(w2.unit[v]) /\ Rests(w2, v)

LEMMA CreateEffect ==
  ASSUME NEW w, NEW v \in Unit, NEW t \in Type, NEW p \in Place, NEW skill, Good(w),
         w.unit[v].skill = "unborn", Orderly => Fits(w, v, t, p),
         skill \in {"beBuilt", "stop"}, NEW w2, w2 = Create(w, v, t, p, skill)
  PROVE  Created(w, w2, v) \/ Thrown(w2)
<1> DEFINE new == [type |-> t, pos |-> p, target |-> p, commands |-> << >>, skill |-> "stop"]
           born == [w EXCEPT !.unit[v] = new, !.alive = @ \cup {v}]
           put == PutUnitCells(born, v, p)
<1>1. w \in World /\ ~w.threw /\ Cleared(w, v)
  BY DEF Good
<1>2. << >> \in Seq(Command)
  OBVIOUS
<1>3. /\ new \in UnitRecord /\ new.type = t /\ new.pos = p /\ new.target = p
      /\ new.commands = << >> /\ new.skill = "stop"
  BY <1>2 DEF UnitRecord, Skill
<1>4. w2 = SetSkill(put, v, skill)
  BY DEF Create
<1> HIDE DEF new
<1>5. /\ born.unit = [w.unit EXCEPT ![v] = new] /\ born.cell = w.cell
      /\ born.threw = w.threw /\ born.blocked = w.blocked /\ born.alive = w.alive \cup {v}
  BY <1>1 DEF World
<1>6. born \in World
  <2>1. [w.unit EXCEPT ![v] = new] \in [Unit -> UnitRecord] /\ w.alive \cup {v} \in SUBSET Unit
    BY <1>1, <1>3 DEF World
  <2> QED BY <1>1, <2>1 DEF World
<1>7. born.unit[v] = new /\ \A x \in Unit \ {v} : born.unit[x] = w.unit[x]
  BY <1>1, <1>5 DEF World
<1> HIDE DEF born
<1>8. Local(w, born, v)
  BY <1>5, <1>6, <1>7 DEF Local
<1>9. SUFFICES ASSUME Fits(born, v, born.unit[v].type, p) PROVE Created(w, w2, v)
  <2>1. ASSUME ~Fits(born, v, born.unit[v].type, p) PROVE Thrown(put)
    <3>1. born.unit[v].type = t
      BY <1>3, <1>7
    <3>2. ~Fits(w, v, t, p)
      BY <1>5, <2>1, <3>1 DEF Fits
    <3> QED BY <1>6, <2>1, <3>1, <3>2, PutThrows
  <2> HIDE DEF put
  <2>2. Thrown(put) => Thrown(w2)
    BY <1>4, ThrownSet
  <2> QED BY <2>1, <2>2
<1>a. Fits(w, v, t, p)
  BY <1>3, <1>5, <1>7, <1>9 DEF Fits
<1>10. ~Reserving(born.unit[v])
  BY <1>3, <1>7 DEF Reserving
<1>11. /\ Local(born, put, v) /\ put.threw = born.threw
       /\ put.unit[v] = [born.unit[v] EXCEPT !.pos = p]
       /\ \A f \in Field, c \in Cell :
            put.cell[f][c] =
              IF f = FieldOf[born.unit[v].type] /\ c \in Taken(born.unit[v].type, p)
              THEN v ELSE born.cell[f][c]
  BY <1>6, <1>9, <1>10, PutEffect
<1> HIDE DEF put
<1>12. /\ put.unit[v] = new
       /\ \A f \in Field, c \in Cell :
            put.cell[f][c] = IF f = FieldOf[t] /\ c \in Taken(t, p) THEN v ELSE w.cell[f][c]
  <2>1. [new EXCEPT !.pos = p] = new
    BY <1>3 DEF UnitRecord
  <2> QED BY <1>3, <1>5, <1>7, <1>11, <2>1
<1>13. Local(w, put, v)
  BY <1>8, <1>11, LocalTwice
<1>14. OnMap(put.unit[v])
  BY <1>3, <1>12 DEF OnMap
<1>15. Rooted(put, v)
  <2>1. /\ Square(p, Size[t]) \subseteq Cell /\ Taken(t, p) \subseteq Cell /\ FieldOf[t] \in Field
    BY <1>a, TakenInSquare, TypeAssumption DEF Fits
  <2> QED BY <1>3, <1>12, <2>1 DEF Rooted
<1>16. Tight(put, v)
  <2>1. ASSUME Orderly, NEW f \in Field, NEW c \in Cell, put.cell[f][c] = v
        PROVE  f = FieldOf[t] /\ c \in Taken(t, p)
    BY <1>1, <1>12, <2>1 DEF Cleared, OnMap
  <2> QED BY <1>3, <1>12, <1>14, <2>1 DEF Tight, Standing
<1>17. Steady(put, v)
  <2>1. Cleared(put, v)
    BY <1>16 DEF Tight, Cleared
  <2>2. Queued(put.unit[v])
    <3>1. put.unit[v].commands = << >>
      BY <1>3, <1>12
    <3> QED BY <3>1 DEF Queued
  <2>3. ~put.threw
    BY <1>1, <1>5, <1>11
  <2> QED BY <1>13, <1>15, <1>16, <2>1, <2>2, <2>3, LocalOthers DEF Steady
<1> DEFINE w3 == SetSkill(put, v, skill)
<1>18. AsBefore(put, w3, v) /\ OnMap(w3.unit[v]) /\ w3.unit[v].skill = skill
  <2>1. skill \in Skill \ {"unborn", "die", "rotten"}
    BY DEF Skill
  <2> QED BY <1>14, <1>17, <2>1, SetSkillEffect
<1>19. w3 = w2
  BY <1>4
<1> HIDE DEF w3
<1>20. Local(put, w2, v) /\ Steady(w2, v)
  BY <1>18, <1>19 DEF AsBefore
<1>21. Rests(w2, v)
  BY <1>18, <1>19 DEF Rests
<1> QED BY <1>13, <1>18, <1>19, <1>20, <1>21, LocalTwice DEF Created

(* A new record for the unit, which stands where it stood.                 *)
LEMMA SettleRecord ==
  ASSUME NEW w, NEW u \in Unit, NEW r \in UnitRecord, Steady(w, u), AllRest(w, u),
         OnMap(w.unit[u]), r.type = w.unit[u].type, r.pos = w.unit[u].pos,
         OnMap(r), Queued(r), NEW w2, w2 = WithRecord(w, u, r)
  PROVE  /\ Steady(w2, u) /\ AllRest(w2, u) /\ Local(w, w2, u)
         /\ w2.unit[u] = r /\ w2.cell = w.cell
<1>1. w \in World /\ ~w.threw
  BY DEF Steady, Good
<1>2. /\ Local(w, w2, u) /\ w2.unit[u] = r /\ w2.threw = w.threw
      /\ w2.alive = w.alive /\ w2.cell = w.cell
  BY <1>1, RecordEffect
<1>3. Steady(w2, u)
  BY <1>1, <1>2, SteadyAgain
<1> QED BY <1>2, <1>3, AllRestAgain

WithSite(q, v) == [q EXCEPT ![1].site = v]

LEMMA SiteFacts ==
  ASSUME NEW q \in Seq(Command), q # << >>, NEW v \in Unit, NEW q2, q2 = WithSite(q, v)
  PROVE  /\ q2 \in Seq(Command) /\ Len(q2) = Len(q)
         /\ \A i \in 1 .. Len(q) : q2[i].order = q[i].order
<1> DEFINE e == [q[1] EXCEPT !.site = v]
<1>1. 1 \in 1 .. Len(q) /\ q[1] \in Command
  OBVIOUS
<1>2. e \in Command /\ e.order = q[1].order
  BY <1>1 DEF Command
<1>3. q2 = [q EXCEPT ![1] = e]
  BY DEF WithSite
<1> HIDE DEF e
<1> DEFINE r == [q EXCEPT ![1] = e]
<1>4. /\ r \in Seq(Command) /\ Len(r) = Len(q)
      /\ \A j \in 1 .. Len(q) : r[j] = IF j = 1 THEN e ELSE q[j]
  BY <1>1, <1>2, ExceptSeq
<1>5. r = q2
  BY <1>3
<1> HIDE DEF r
<1> QED BY <1>2, <1>4, <1>5

LEMMA QueuedAgain ==
  ASSUME NEW r, NEW r2, Queued(r), Len(r2.commands) = Len(r.commands), Len(r.commands) \in Nat,
         r2.type = r.type, OnMap(r),
         \A i \in 1 .. Len(r.commands) : r2.commands[i].order = r.commands[i].order
  PROVE  Queued(r2)
<1>1. \A i \in 1 .. Len(r.commands) - 1 : i \in 1 .. Len(r.commands)
  OBVIOUS
<1> QED BY <1>1 DEF Queued

LEMMA CellPosIsCell ==
  ASSUME NEW t \in Type, NEW p \in Cell, Taken(t, p) \subseteq Cell
  PROVE  CellPos(t, p) \in Cell
<1>1. CASE Solid[t] = {}
  BY <1>1 DEF CellPos
<1>2. CASE Solid[t] # {}
  <2>1. PICK d \in Solid[t] : TRUE
    BY <1>2
  <2>2. \E c \in Taken(t, p) : TRUE
    BY <2>1 DEF Taken
  <2>3. (CHOOSE c \in Taken(t, p) : TRUE) \in Taken(t, p)
    BY <2>2
  <2> QED BY <1>2, <2>3 DEF CellPos
<1> QED BY <1>1, <1>2

(* The order that a unit follows, and which it must have.                  *)
LEMMA CurrentFacts ==
  ASSUME NEW w, NEW u \in Unit, Good(w), OnMap(w.unit[u]), w.unit[u].commands # << >>
  PROVE  /\ w.unit[u].type \in Type
         /\ Head(w.unit[u].commands).order \in Can[w.unit[u].type]
         /\ Head(w.unit[u].commands).order \in Order
<1>1. w.unit[u].type \in Type
  BY DEF Good, Rooted
<1>2. Head(w.unit[u].commands) = w.unit[u].commands[1] /\ 1 \in 1 .. Len(w.unit[u].commands)
  BY QueueFacts
<1>3. Head(w.unit[u].commands).order \in Can[w.unit[u].type]
  BY <1>2, QueueFacts
<1> QED BY <1>1, <1>3, TypeAssumption

(* A building is begun next to its builder.                                *)
LEMMA BegunEffect ==
  ASSUME NEW h, NEW u \in Unit, Calm(h, u), h.unit[u].commands # << >>,
         NEW v \in Unit \ {u}, h.unit[v].skill = "unborn",
         NEW t \in Type, NEW p \in Cell, Square(p, Size[t]) \subseteq Cell,
         Orderly => Fits(h, v, t, p),
         NEW w2, w2 = Begun(h, u, v, t, p)
  PROVE  Settled(w2, u) \/ Thrown(w2)
<1> DEFINE c == Create(h, v, t, p, "beBuilt")
           old == h.unit[u]
           q == WithSite(old.commands, v)
           r == [old EXCEPT !.skill = "build", !.target = CellPos(t, p), !.commands = q]
<1>2. Good(h) /\ AllRest(h, u) /\ Steady(h, u) /\ OnMap(old) /\ Tight(h, u)
  BY DEF Calm, Settled, Steady
<1>3. p \in Place /\ h \in World /\ old \in UnitRecord
  BY <1>2, CellsArePlaces DEF Good, World
<1>a. Created(h, c, v) \/ Thrown(c)
  BY <1>2, <1>3, CreateEffect
<1>b. ASSUME Thrown(c) PROVE Thrown(w2)
  <2> HIDE DEF c
  <2>1. w2 = [c EXCEPT !.unit[u] = [@ EXCEPT !.skill = "build", !.target = CellPos(t, p),
                                             !.commands[1].site = v]]
    BY DEF c, Begun
  <2> QED BY <1>b, <2>1 DEF Thrown, IsWorld
<1> HIDE DEF c
<1>4. SUFFICES ASSUME Local(h, c, v) /\ Steady(c, v) /\ OnMap(c.unit[v]) /\ Rests(c, v)
               PROVE  Settled(w2, u)
  BY <1>a, <1>b DEF Created
<1>5. /\ c.unit[u] = old /\ Good(c) /\ c \in World
      /\ \A f \in Field, d \in Cell : c.cell[f][d] = u <=> h.cell[f][d] = u
  BY <1>4 DEF Local, Steady, Good
<1>6. Steady(c, u)
  BY <1>2, <1>5 DEF Steady, Tight, Standing
<1>7. AllRest(c, u)
  <2>1. ASSUME NEW x \in Unit \ {u} PROVE Rests(c, x)
    <3>1. CASE x = v
      BY <1>4, <3>1
    <3>2. CASE x # v
      <4>1. c.unit[x] = h.unit[x]
        BY <1>4, <3>2 DEF Local
      <4> QED BY <1>2, <4>1 DEF AllRest, Rests
    <3> QED BY <3>1, <3>2
  <2> QED BY <2>1 DEF AllRest
<1>8. /\ old.commands \in Seq(Command) /\ Queued(old)
  BY <1>2, <1>3 DEF Good, UnitRecord
<1>9. /\ q \in Seq(Command) /\ Len(q) = Len(old.commands)
      /\ \A i \in 1 .. Len(old.commands) : q[i].order = old.commands[i].order
  <2> DEFINE s == old.commands
             e == WithSite(s, v)
  <2>1. s \in Seq(Command) /\ s # << >>
    BY <1>8
  <2> HIDE DEF s
  <2>2. /\ e \in Seq(Command) /\ Len(e) = Len(s)
        /\ \A i \in 1 .. Len(s) : e[i].order = s[i].order
    BY <2>1, SiteFacts
  <2> QED BY <2>2 DEF s
<1>10. CellPos(t, p) \in Cell
  <2>1. Taken(t, p) \subseteq Cell
    BY <1>3, TakenInSquare
  <2> QED BY <2>1, CellPosIsCell
<1>11. CellPos(t, p) \in Place
  BY <1>10, CellsArePlaces
<1>12. w2 = WithRecord(c, u, r)
  <2>1. w2 = [c EXCEPT !.unit[u] = [@ EXCEPT !.skill = "build", !.target = CellPos(t, p),
                                             !.commands[1].site = v]]
    BY DEF c, Begun
  <2>2. w2 = [c EXCEPT !.unit[u] = [c.unit[u] EXCEPT !.skill = "build", !.target = CellPos(t, p),
                                                     !.commands[1].site = v]]
    BY <1>5, <2>1
  <2>3. [old EXCEPT !.skill = "build", !.target = CellPos(t, p), !.commands[1].site = v] = r
    BY <1>3 DEF UnitRecord, WithSite
  <2> QED BY <1>5, <2>2, <2>3 DEF WithRecord
<1> HIDE DEF q
<1>13. /\ r \in UnitRecord /\ r.type = old.type /\ r.pos = old.pos /\ r.commands = q
       /\ r.skill = "build" /\ r.target = CellPos(t, p)
  BY <1>3, <1>9, <1>11 DEF UnitRecord, Skill
<1> HIDE DEF r
<1>14. OnMap(r)
  BY <1>13 DEF OnMap
<1>15. Queued(r)
  <2>1. Len(old.commands) \in Nat
    BY <1>8
  <2> QED BY <1>2, <1>8, <1>9, <1>13, <2>1, QueuedAgain
<1> DEFINE w3 == WithRecord(c, u, r)
<1>16. Steady(w3, u) /\ AllRest(w3, u) /\ w3.unit[u] = r
  BY <1>2, <1>5, <1>6, <1>7, <1>13, <1>14, <1>15, SettleRecord
<1>17. w3 = w2
  BY <1>12
<1> HIDE DEF w3
<1>18. Rests(w2, u)
  BY <1>10, <1>13, <1>16, <1>17 DEF Rests
<1> QED BY <1>14, <1>16, <1>17, <1>18 DEF Settled, Steady

LEMMA BeginBuildingEffect ==
  ASSUME NEW w, NEW u \in Unit, Calm(w, u), Current(w.unit[u], "build"),
         NEW w2 \in BeginBuilding(w, u)
  PROVE  Settled(w2, u) \/ Thrown(w2)
<1> DEFINE h == Halted(w, u)
           t == Head(w.unit[u].commands).order.of
<1>1. Calm(h, u) /\ h.cell = w.cell /\ h.unit[u].commands = w.unit[u].commands
  BY CalmHalted
<1>2. Good(w) /\ OnMap(w.unit[u]) /\ w.unit[u].commands # << >> /\ Steady(w, u) /\ AllRest(w, u)
  BY DEF Calm, Settled, Current
<1>3. Local(w, h, u)
  BY <1>2, HaltedEffect
<1>4. t \in Type /\ FieldOf[t] = "land"
  <2>1. /\ Head(w.unit[u].commands).order \in Can[w.unit[u].type] /\ w.unit[u].type \in Type
        /\ Head(w.unit[u].commands).order \in Order
        /\ Head(w.unit[u].commands).order.kind = "build"
    BY <1>2, CurrentFacts DEF Current
  <2> QED BY <2>1, BuildAssumption DEF Order
<1>5. ASSUME NEW v \in Unit, w.unit[v].skill = "unborn", NEW p \in Sites(w, t), w2 = Begun(h, u, v, t, p)
      PROVE  Settled(w2, u) \/ Thrown(w2)
  <2>1. v # u /\ h.unit[v] = w.unit[v]
    BY <1>2, <1>3, <1>5 DEF OnMap, Local
  <2>2. p \in Cell /\ p \in Place /\ IsFreeCells(w, p, Size[t], FieldOf[t])
    BY <1>4, <1>5, CellsArePlaces DEF Sites
  <2>3. Orderly => Fits(w, v, t, p)
    BY <1>2, <1>4, <2>2, RoomForNewUnit
  <2>4. Orderly => Fits(h, v, t, p)
    BY <1>1, <2>3 DEF Fits
  <2>5. h.unit[u].commands # << >> /\ h.unit[v].skill = "unborn"
    BY <1>1, <1>2, <1>5, <2>1
  <2>a. Square(p, Size[t]) \subseteq Cell
    BY <2>2 DEF IsFreeCells, IsFreeCell
  <2> HIDE DEF h, t
  <2> DEFINE w3 == Begun(h, u, v, t, p)
  <2>6. Settled(w3, u) \/ Thrown(w3)
    BY <1>1, <1>4, <2>1, <2>2, <2>4, <2>5, <2>a, BegunEffect
  <2> QED BY <1>5, <2>6
<1>6. CASE w2 = Halted(CancelCommand(h, u), u)
  <2> DEFINE c == CancelCommand(h, u)
             e == Halted(c, u)
  <2> HIDE DEF h
  <2>1. Calm(c, u)
    BY <1>1, CalmCancel DEF Calm
  <2> HIDE DEF c
  <2>2. Calm(e, u)
    BY <2>1, CalmHalted
  <2>3. e = w2
    BY <1>6 DEF c
  <2> QED BY <2>2, <2>3 DEF Calm
<1>7. \/ \E v \in Unit, p \in Sites(w, t) :
            w.unit[v].skill = "unborn" /\ w2 = Begun(h, u, v, t, p)
      \/ w2 = Halted(CancelCommand(h, u), u)
  BY DEF BeginBuilding
<1> HIDE DEF h, t
<1> QED BY <1>5, <1>6, <1>7

(* A building that is done is told to stand.                               *)
LEMMA OtherStops ==
  ASSUME NEW w, NEW u \in Unit, Calm(w, u), NEW b \in Unit \ {u}, w.unit[b].skill = "beBuilt",
         NEW w2, w2 = SetSkill(w, b, "stop")
  PROVE  Settled(w2, u)
<1>1. Good(w) /\ OnMap(w.unit[u]) /\ AllRest(w, u) /\ Rests(w, u)
  BY DEF Calm, Settled
<1>2. Steady(w, b) /\ OnMap(w.unit[b])
  BY <1>1, SteadyUnless DEF Reserving, OnMap
<1> DEFINE w3 == SetSkill(w, b, "stop")
<1>3. AsBefore(w, w3, b) /\ w3.unit[b].skill = "stop"
  <2>1. "stop" \in Skill \ {"unborn", "die", "rotten"}
    BY DEF Skill
  <2> QED BY <1>2, <2>1, SetSkillEffect
<1>4. w3 = w2
  OBVIOUS
<1> HIDE DEF w3
<1>5. Local(w, w2, b) /\ Good(w2)
  BY <1>3, <1>4 DEF AsBefore, Steady
<1>6. w2.unit[u] = w.unit[u] /\ \A x \in Unit \ {b} : w2.unit[x] = w.unit[x]
  BY <1>5 DEF Local
<1>7. Rests(w2, b)
  BY <1>3, <1>4 DEF Rests
<1>8. AllRest(w2, u) /\ Rests(w2, u)
  BY <1>1, <1>6, <1>7 DEF AllRest, Rests
<1> QED BY <1>1, <1>5, <1>6, <1>8 DEF Settled

LEMMA BuildingEffect ==
  ASSUME NEW w, NEW u \in Unit, Calm(w, u), w.unit[u].skill = "build",
         w.unit[u].commands # << >>, NEW w2 \in Building(w, u)
  PROVE  Settled(w2, u)
<1> DEFINE b == w.cell["land"][w.unit[u].target]
           h == Halted(w, u)
           f == FinishCommand(w, u)
           done == Halted(f, u)
<1>1. Calm(h, u)
  BY CalmHalted
<1>2. Calm(f, u)
  BY CalmFinish
<1>3. Local(w, done, u) /\ Calm(done, u)
  <2>1. Steady(w, u)
    BY DEF Calm
  <2>2. AsBefore(w, f, u)
    BY <2>1, FinishCommandEffect
  <2> HIDE DEF f
  <2>3. Steady(f, u) /\ OnMap(f.unit[u]) /\ AllRest(f, u)
    BY <1>2 DEF Calm, Settled
  <2>4. Calm(done, u) /\ Local(f, done, u)
    BY <2>3, HaltedEffect
  <2> QED BY <2>2, <2>4, LocalTwice DEF AsBefore
<1>4. b \in Unit \cup {None}
  <2>1. w \in World /\ w.unit[u].target \in Cell /\ "land" \in Field
    BY DEF Calm, Settled, Good, Rests, Field
  <2> QED BY <2>1 DEF World
<1>5. CASE w2 = h \/ w2 = done \/ w2 = w
  <2> HIDE DEF h, done
  <2> QED BY <1>1, <1>3, <1>5 DEF Calm
<1>6. CASE b \in Unit /\ w.unit[b].skill = "beBuilt" /\ w2 = SetSkill(done, b, "stop")
  <2>1. b \in Unit \ {u} /\ done.unit[b] = w.unit[b]
    BY <1>3, <1>6 DEF Local
  <2> HIDE DEF done, b
  <2> DEFINE w3 == SetSkill(done, b, "stop")
  <2>2. Settled(w3, u)
    BY <1>3, <1>6, <2>1, OtherStops
  <2> QED BY <1>6, <2>2
<1>7. \/ w2 = h \/ w2 = done \/ w2 = w
      \/ b # None /\ w.unit[b].skill = "beBuilt" /\ w2 = SetSkill(done, b, "stop")
  BY DEF Building
<1> QED BY <1>4, <1>5, <1>6, <1>7

(* updateUnitCommand.                                                      *)
Updated(w, u) == Settled(w, u) \/ OnWay(w, u) \/ Thrown(w)

LEMMA UpdateBuildEffect ==
  ASSUME NEW w, NEW u \in Unit, Calm(w, u), Current(w.unit[u], "build"),
         NEW w2 \in UpdateBuild(w, u)
  PROVE  Updated(w2, u)
<1>1. w.unit[u].commands # << >>
  BY DEF Current
<1>2. CASE w.unit[u].skill = "build"
  BY <1>1, <1>2, BuildingEffect DEF UpdateBuild, Updated
<1>3. CASE w.unit[u].skill # "build"
  BY <1>1, <1>3, ApproachEffect, BeginBuildingEffect DEF UpdateBuild, Updated
<1> QED BY <1>2, <1>3

LEMMA UpdateMorphEffect ==
  ASSUME NEW w, NEW u \in Unit, Settled(w, u), Current(w.unit[u], "morph"),
         NEW w2 \in UpdateMorph(w, u)
  PROVE  Settled(w2, u) \/ Thrown(w2)
<1>1. CASE w.unit[u].skill = "morph"
  <2> DEFINE e == EndMorph(w, u)
  <2>1. Reserving(w.unit[u])
    BY <1>1 DEF Reserving
  <2>2. Calm(e, u) \/ Thrown(e)
    BY <2>1, EndMorphEffect
  <2>3. w2 = w \/ w2 = e
    BY <1>1 DEF UpdateMorph
  <2> HIDE DEF e
  <2> QED BY <2>2, <2>3 DEF Calm
<1>2. CASE w.unit[u].skill # "morph"
  <2> DEFINE m == Head(w.unit[u].commands).order.of
             room == IsFreeCellsOrHasUnit(w, w.unit[u].pos, Size[m], FieldOf[m], u)
             s == PutUnitCells(SetSkill(w, u, "morph"), u, w.unit[u].pos)
             c == CancelCommand(w, u)
  <2>1. w2 = IF room THEN s ELSE c
    BY <1>2 DEF UpdateMorph, StartMorph
  <2>2. Good(w) /\ OnMap(w.unit[u]) /\ Rests(w, u) /\ AllRest(w, u)
    BY DEF Settled
  <2>3. CASE room
    <3>1. Stepped(w, s, u) \/ Thrown(s)
      <4> HIDE DEF m
      <4>0. m = Head(w.unit[u].commands).order.of
        BY DEF m
      <4> QED BY <1>2, <2>2, <2>3, <4>0, StartMorphEffect
    <3>2. w2 = s
      BY <2>1, <2>3
    <3> HIDE DEF s
    <3> QED BY <2>2, <3>1, <3>2, AllRestAgain DEF Stepped, Settled
  <2>4. CASE ~room
    <3>1. Calm(c, u)
      BY CalmCancel
    <3>2. w2 = c
      BY <2>1, <2>4
    <3> QED BY <3>1, <3>2 DEF Calm
  <2> QED BY <2>3, <2>4
<1> QED BY <1>1, <1>2

LEMMA UpdateCommandEffect ==
  ASSUME NEW w, NEW u \in Unit, Settled(w, u), NEW w2 \in UpdateCommand(w, u)
  PROVE  Updated(w2, u)
<1> DEFINE r == w.unit[u]
<1>1. CASE r.commands = << >>
  BY <1>1 DEF UpdateCommand, Current, Updated
<1>2. CASE Current(r, "morph")
  <2>1. w2 \in UpdateMorph(w, u)
    BY <1>2 DEF UpdateCommand, Current
  <2> QED BY <1>2, <2>1, UpdateMorphEffect DEF Updated
<1>3. CASE r.commands # << >> /\ ~Current(r, "morph")
  <2>1. Calm(w, u)
    BY <1>3, CalmUnlessMorph DEF Reserving
  <2>2. Head(r.commands).order.kind \in {"stop", "move", "build", "morph"}
    <3>1. Head(r.commands).order \in Order
      BY <1>3, CurrentFacts DEF Settled
    <3> QED BY <3>1 DEF Order
  <2>3. CASE Current(r, "stop")
    <3> DEFINE h == Halted(w, u)
    <3>1. w2 = h
      BY <1>3, <2>3 DEF UpdateCommand, Current, UpdateStop, Halted
    <3>2. Calm(h, u)
      BY <2>1, CalmHalted
    <3> HIDE DEF h
    <3> QED BY <3>1, <3>2 DEF Calm, Updated
  <2>4. CASE Current(r, "move")
    <3>1. w2 \in UpdateMove(w, u)
      BY <1>3, <2>4 DEF UpdateCommand, Current
    <3> QED BY <1>3, <2>1, <3>1, UpdateMoveEffect DEF Updated
  <2>5. CASE Current(r, "build")
    <3>1. w2 \in UpdateBuild(w, u)
      BY <1>3, <2>5 DEF UpdateCommand, Current
    <3> QED BY <2>1, <2>5, <3>1, UpdateBuildEffect
  <2> QED BY <1>3, <2>2, <2>3, <2>4, <2>5 DEF Current
<1> QED BY <1>1, <1>2, <1>3

-----------------------------------------------------------------------------
(* The rest of updateUnit.                                                 *)

LEMMA IdleEffect ==
  ASSUME NEW w, NEW u \in Unit, Updated(w, u), NEW w2, w2 = Idle(w, u)
  PROVE  Updated(w2, u)
<1>a. SUFFICES ASSUME Settled(w, u) \/ OnWay(w, u) PROVE Updated(w2, u)
  BY ThrownUpdate DEF Updated
<1>1. CASE w.unit[u].commands = << >> /\ Operative(w, u)
  <2> DEFINE h == Halted(w, u)
             o == [kind |-> "stop", of |-> None]
             never == FALSE
             g == GiveCommand(h, u, o, never)
  <2>1. Calm(w, u)
    <3>1. Settled(w, u) /\ ~Reserving(w.unit[u])
      BY <1>1, <1>a DEF OnWay, Reserving, Current
    <3> QED BY <3>1, CalmUnlessMorph
  <2>2. Calm(h, u)
    BY <2>1, CalmHalted
  <2>3. w2 = g
    BY <1>1 DEF Idle
  <2> HIDE DEF h, o, never
  <2>a. Good(h)
    BY <2>2 DEF Calm, Settled
  <2>4. AsBefore(h, g, u) /\ g.unit[u].skill = h.unit[u].skill
    BY <2>a, GiveCommandEffect
  <2> HIDE DEF g
  <2>5. Calm(g, u)
    BY <2>2, <2>4, CalmAgain DEF Calm
  <2> QED BY <2>3, <2>5 DEF Calm, Updated
<1>2. CASE ~(w.unit[u].commands = << >> /\ Operative(w, u))
  BY <1>2 DEF Idle
<1> QED BY <1>1, <1>2

LEMMA TireEffect ==
  ASSUME NEW w, NEW u \in Unit, Updated(w, u), NEW tired \in BOOLEAN,
         tired => w.unit[u].skill \in Tiring, NEW w2, w2 = Tire(w, u, tired)
  PROVE  Updated(w2, u)
<1>a. SUFFICES ASSUME Settled(w, u) \/ OnWay(w, u) PROVE Updated(w2, u)
  BY ThrownUpdate DEF Updated
<1>1. CASE tired
  <2> DEFINE h == Halted(w, u)
             c == CancelCommand(h, u)
  <2>1. Good(w) /\ OnMap(w.unit[u]) /\ AllRest(w, u)
    BY <1>a DEF Settled, OnWay
  <2>2. Orderly => ~Reserving(w.unit[u])
    BY <1>1 DEF Orderly, Reserving
  <2>3. Steady(w, u)
    BY <2>1, <2>2, SteadyUnless
  <2>4. Calm(h, u)
    BY <2>1, <2>3, HaltedEffect
  <2>5. w2 = c
    BY <1>1 DEF Tire
  <2> HIDE DEF h
  <2>6. Calm(c, u)
    BY <2>4, CalmCancel DEF Calm
  <2> HIDE DEF c
  <2> QED BY <2>5, <2>6 DEF Calm, Updated
<1>2. CASE ~tired
  BY <1>2 DEF Tire
<1> QED BY <1>1, <1>2

(* A unit gives up its cells and takes those where it goes.                *)
LEMMA MoveUnitCellsEffect ==
  ASSUME NEW w, NEW u \in Unit, Updated(w, u), NEW w2, w2 = MoveUnitCells(w, u)
  PROVE  Settled(w2, u) \/ Thrown(w2)
<1>a. SUFFICES ASSUME Settled(w, u) \/ OnWay(w, u) PROVE Settled(w2, u) \/ Thrown(w2)
  BY ThrownUpdate DEF Updated
<1>1. CASE ~(w.unit[u].skill = "move" /\ w.unit[u].target # w.unit[u].pos)
  BY <1>1, <1>a DEF MoveUnitCells, OnWay, Settled, Goes, Rests
<1>2. CASE w.unit[u].skill = "move" /\ w.unit[u].target # w.unit[u].pos
  <2> DEFINE t == w.unit[u].type
             p == w.unit[u].target
             c == ClearType(w, u, w.unit[u].pos, t)
             m == PutUnitCells(c, u, p)
  <2>1. /\ Good(w) /\ OnMap(w.unit[u]) /\ AllRest(w, u) /\ CanMove(w, u, p)
    BY <1>2, <1>a DEF Settled, OnWay, Goes, Rests
  <2>2. ~Reserving(w.unit[u])
    BY <1>2 DEF Reserving
  <2>3. /\ w \in World /\ ~w.threw /\ Queued(w.unit[u]) /\ w.unit[u] \in UnitRecord
        /\ p \in Place /\ t \in Type
    BY <2>1 DEF Good, Rooted, World, UnitRecord
  <2>4. Tight(w, u)
    BY <2>1, <2>2, SteadyUnless DEF Steady
  <2>5. w2 = m
    BY <1>2, <2>2 DEF MoveUnitCells, ClearUnitCells, ClearsReserved, ClearOwnCells
  <2>6. /\ Local(w, c, u) /\ c.unit = w.unit /\ c.threw = w.threw
        /\ \A f \in Field, d \in Cell :
             /\ c.cell[f][d] = u =>
                  w.cell[f][d] = u /\ ~(f = FieldOf[t] /\ d \in Taken(t, w.unit[u].pos))
             /\ w.cell[f][d] \in {None, u} => c.cell[f][d] \in {None, u}
    BY <2>3, ClearEffect
  <2> HIDE DEF c
  <2>7. SUFFICES ASSUME Fits(c, u, t, p) PROVE Settled(m, u)
    <3>1. Orderly => Fits(w, u, t, p)
      <4>1. Local(w, w, u)
        BY <2>3 DEF Local
      <4> QED BY <2>1, <2>3, <4>1, RoomForUnit DEF CanMove
    <3>2. ASSUME Fits(w, u, t, p) PROVE Fits(c, u, t, p)
      <4>1. Taken(t, p) \subseteq Cell /\ FieldOf[t] \in Field
        BY <2>3, <3>2, TakenInSquare, TypeAssumption DEF Fits
      <4> QED BY <2>6, <3>2, <4>1 DEF Fits
    <3>3. ASSUME ~Fits(c, u, t, p) PROVE Thrown(m)
      BY <2>3, <2>6, <3>1, <3>2, <3>3, PutThrows DEF Local
    <3> QED BY <2>5, <3>3
  <2>8. /\ Square(p, Size[t]) \subseteq Cell /\ Taken(t, p) \subseteq Cell /\ FieldOf[t] \in Field
    BY <2>3, <2>7, TakenInSquare, TypeAssumption DEF Fits
  <2>9. Fits(c, u, c.unit[u].type, p)
    BY <2>6, <2>7
  <2>10. /\ Local(c, m, u) /\ m.threw = c.threw
         /\ m.unit[u] = [c.unit[u] EXCEPT !.pos = p]
         /\ \A f \in Field, d \in Cell :
              m.cell[f][d] = IF f = FieldOf[c.unit[u].type] /\ d \in Taken(c.unit[u].type, p)
                             THEN u ELSE c.cell[f][d]
    <3>1. c \in World /\ ~Reserving(c.unit[u])
      BY <2>2, <2>6 DEF Local
    <3> QED BY <2>9, <3>1, PutEffect
  <2> HIDE DEF m
  <2>11. /\ m.unit[u] \in UnitRecord /\ m.unit[u].type = t /\ m.unit[u].pos = p
         /\ m.unit[u].target = p /\ m.unit[u].commands = w.unit[u].commands
         /\ m.unit[u].skill = w.unit[u].skill
         /\ \A f \in Field, d \in Cell :
              m.cell[f][d] = IF f = FieldOf[t] /\ d \in Taken(t, p) THEN u ELSE c.cell[f][d]
    BY <2>3, <2>6, <2>10 DEF UnitRecord
  <2>12. Local(w, m, u)
    BY <2>6, <2>10, LocalTwice
  <2>13. OnMap(m.unit[u]) /\ Queued(m.unit[u])
    BY <2>1, <2>3, <2>11 DEF OnMap, Queued
  <2>14. Rooted(m, u)
    BY <2>3, <2>8, <2>11 DEF Rooted
  <2>15. Cleared(m, u)
    <3>1. ASSUME Orderly, NEW f \in Field, NEW d \in Cell, m.cell[f][d] = u
          PROVE  f = FieldOf[t] /\ d \in Taken(t, p)
      <4>1. ASSUME ~(f = FieldOf[t] /\ d \in Taken(t, p)) PROVE FALSE
        <5>1. c.cell[f][d] = u
          BY <2>11, <3>1, <4>1
        <5> QED BY <2>4, <2>6, <3>1, <5>1 DEF Tight, Standing
      <4> QED BY <4>1
    <3> QED BY <2>11, <2>13, <3>1 DEF Cleared, Standing
  <2>16. Good(m)
    <3>1. ~m.threw
      BY <2>3, <2>6, <2>10
    <3> QED BY <2>1, <2>12, <2>13, <2>14, <2>15, <3>1, LocalOthers
  <2>17. Rests(m, u)
    BY <1>2, <2>11 DEF Rests
  <2>18. AllRest(m, u)
    BY <2>1, <2>12, AllRestAgain
  <2> QED BY <2>5, <2>13, <2>16, <2>17, <2>18 DEF Settled
<1> QED BY <1>1, <1>2

(* Everything between two updates.                                         *)
Quiet(w) == Good(w) /\ \A u \in Unit : Rests(w, u)

LEMMA SettledIsQuiet ==
  ASSUME NEW w, NEW u \in Unit, Settled(w, u)
  PROVE  Quiet(w)
BY DEF Settled, Quiet, AllRest

LEMMA QuietIsSettled ==
  ASSUME NEW w, NEW u \in Unit, Quiet(w), OnMap(w.unit[u])
  PROVE  Settled(w, u)
BY DEF Settled, Quiet, AllRest

LEMMA KillEffect ==
  ASSUME NEW w, NEW u \in Unit, Settled(w, u), NEW w2, w2 = Kill(w, u)
  PROVE  Quiet(w2)
<1> DEFINE c == ClearCommands(w, u)
           d == ClearOwnCells(c, u)
           k == WithRecord(d, u, Dead)
<1>1. Good(w) /\ OnMap(w.unit[u]) /\ AllRest(w, u) /\ w.unit[u].type \in Type /\ w \in World
  BY DEF Settled, Good, Rooted
<1>2. AsBefore(w, c, u) /\ c.unit[u].skill = w.unit[u].skill /\ c.unit[u].commands = << >>
  BY <1>1, ClearCommandsEffect
<1>3. w2 = k
  BY DEF Kill, WithRecord
<1> HIDE DEF c
<1>4. /\ Steady(c, u) /\ Tight(c, u) /\ Good(c) /\ Local(w, c, u) /\ ~c.threw /\ c \in World
      /\ c.unit[u].type = w.unit[u].type
  BY <1>2 DEF AsBefore, Steady, Good
<1>5. /\ Local(c, d, u) /\ d.unit = c.unit /\ d.threw = c.threw
      /\ \A f \in Field, x \in Cell :
           d.cell[f][x] = u =>
             c.cell[f][x] = u /\ ~(f = FieldOf[c.unit[u].type] /\ x \in Taken(c.unit[u].type, c.unit[u].pos))
  BY <1>1, <1>4, ClearEffect DEF ClearOwnCells
<1> HIDE DEF d
<1>6. Dead \in UnitRecord /\ Dead.skill = "die" /\ Dead.commands = << >>
  <2>1. << >> \in Seq(Command)
    OBVIOUS
  <2>2. <<0, 0>> \in Place /\ "die" \in Skill
    BY DEF Place, Skill
  <2>3. Dead = [type |-> None, pos |-> <<0, 0>>, target |-> <<0, 0>>, commands |-> << >>,
                skill |-> "die"]
    BY DEF Dead, Unborn
  <2>4. \A z \in Place, q \in Seq(Command), s \in Skill :
          [type |-> None, pos |-> z, target |-> z, commands |-> q, skill |-> s] \in UnitRecord
    BY DEF UnitRecord
  <2> QED BY <2>1, <2>2, <2>3, <2>4
<1>7. /\ Local(d, k, u) /\ k.unit[u] = Dead /\ k.threw = d.threw /\ k.cell = d.cell
  <2>1. d \in World
    BY <1>5 DEF Local
  <2> QED BY <1>6, <2>1, RecordEffect
<1> HIDE DEF k
<1>8. Local(w, k, u)
  <2>1. Local(w, d, u)
    BY <1>4, <1>5, LocalTwice
  <2> QED BY <1>7, <2>1, LocalTwice
<1>9. ~OnMap(k.unit[u]) /\ Queued(k.unit[u])
  <2>1. k.unit[u].skill = "die" /\ k.unit[u].commands = << >>
    BY <1>6, <1>7
  <2> QED BY <2>1 DEF OnMap, Queued
<1>10. Cleared(k, u)
  <2>1. ASSUME Orderly, NEW f \in Field, NEW x \in Cell, k.cell[f][x] = u PROVE FALSE
    BY <1>4, <1>5, <1>7, <2>1 DEF Tight, Standing
  <2> QED BY <2>1 DEF Cleared
<1>11. Good(k)
  <2>1. ~k.threw /\ Rooted(k, u)
    BY <1>4, <1>5, <1>7, <1>9 DEF Rooted
  <2> QED BY <1>1, <1>8, <1>9, <1>10, <2>1, LocalOthers
<1>12. Rests(k, u)
  BY <1>6, <1>7 DEF Rests
<1>13. AllRest(k, u)
  BY <1>1, <1>8, AllRestAgain
<1> QED BY <1>3, <1>11, <1>12, <1>13 DEF Quiet, AllRest

-----------------------------------------------------------------------------
(* The game.                                                               *)

(* The world as it is, or as the update found it that ended the game.      *)
Safe == [unit |-> unit, alive |-> alive, blocked |-> blocked, cell |-> cell, threw |-> FALSE]
Inv == Quiet(Safe) /\ threw \in BOOLEAN /\ (threw => ~Orderly)

LEMMA SafeIsWorld ==
  ASSUME Inv, ~threw
  PROVE  W = Safe
BY DEF Inv, W, Safe

LEMMA BecomesInv ==
  ASSUME Inv, NEW w, Quiet(w) \/ Thrown(w), Becomes(w)
  PROVE  Inv'
<1>1. CASE Thrown(w)
  <2>1. threw' = TRUE /\ UNCHANGED <<unit, alive, blocked, cell>> /\ ~Orderly
    BY <1>1 DEF Becomes, Thrown
  <2>2. Safe' = Safe
    BY <2>1 DEF Safe
  <2>3. Quiet(Safe)'
    BY <2>2 DEF Inv
  <2> QED BY <2>1, <2>3 DEF Inv
<1>2. CASE Quiet(w)
  <2>1. w \in World /\ w.threw = FALSE
    BY <1>2 DEF Quiet, Good, World
  <2>2. /\ threw' = FALSE /\ unit' = w.unit /\ alive' = w.alive /\ blocked' = w.blocked
        /\ cell' = w.cell
    BY <2>1 DEF Becomes
  <2>3. Safe' = w
    BY <2>1, <2>2 DEF Safe, World
  <2>4. Quiet(Safe)'
    BY <1>2, <2>3
  <2> QED BY <2>2, <2>4 DEF Inv
<1> QED BY <1>1, <1>2

LEMMA QuietAgain ==
  ASSUME NEW w, NEW u \in Unit, Quiet(w), NEW w2, AsBefore(w, w2, u),
         w2.unit[u].skill = w.unit[u].skill
  PROVE  Quiet(w2) /\ w2 \in World
<1>1. Local(w, w2, u) /\ Good(w2)
  BY DEF AsBefore, Steady
<1>2. \A x \in Unit : Rests(w2, x)
  <2>1. ASSUME NEW x \in Unit PROVE Rests(w2, x)
    <3>1. CASE x = u
      BY <3>1 DEF AsBefore, Quiet, Rests
    <3>2. CASE x # u
      BY <1>1, <3>2 DEF Local, Quiet, Rests
    <3> QED BY <3>1, <3>2
  <2> QED BY <2>1
<1> QED BY <1>1, <1>2 DEF Quiet, Local

LEMMA InitInv == Init => Inv
<1> SUFFICES ASSUME Init PROVE Inv
  OBVIOUS
<1>1. << >> \in Seq(Command)
  OBVIOUS
<1>2. /\ Unborn \in UnitRecord /\ Unborn.commands = << >> /\ Unborn.skill = "unborn"
  BY <1>1 DEF Unborn, UnitRecord, Place, Skill
<1>3. /\ Safe.unit = [u \in Unit |-> Unborn] /\ Safe.alive = {} /\ Safe.blocked = {} /\ Safe.threw = FALSE
      /\ Safe.cell = [f \in Field |-> [c \in Cell |-> None]]
  BY DEF Init, Safe
<1>4. Safe \in World
  <2>1. Safe.unit \in [Unit -> UnitRecord] /\ Safe.cell \in [Field -> [Cell -> Unit \cup {None}]]
    BY <1>2, <1>3
  <2> QED BY <1>3, <2>1 DEF Safe, World
<1>5. ASSUME NEW u \in Unit
      PROVE  /\ ~OnMap(Safe.unit[u]) /\ Safe.unit[u].commands = << >> /\ Safe.unit[u].skill = "unborn"
             /\ \A f \in Field, c \in Cell : Safe.cell[f][c] # u
  BY <1>2, <1>3, UnitAssumption DEF OnMap
<1>6. ASSUME NEW u \in Unit
      PROVE  Rooted(Safe, u) /\ Queued(Safe.unit[u]) /\ Cleared(Safe, u) /\ Rests(Safe, u)
  <2>1. Rooted(Safe, u) /\ Cleared(Safe, u) /\ Rests(Safe, u)
    BY <1>5 DEF Rooted, Cleared, Rests
  <2>2. Queued(Safe.unit[u])
    BY <1>5 DEF Queued
  <2> QED BY <2>1, <2>2
<1>7. Quiet(Safe)
  BY <1>3, <1>4, <1>6 DEF Quiet, Good
<1> QED BY <1>7 DEF Inv, Init

LEMMA UpdateInv ==
  ASSUME Inv, NEW u \in Unit, Update(u)
  PROVE  Inv'
<1>1. PICK w1 \in UpdateCommand(W, u), tired \in BOOLEAN :
        LET w2 == Idle(w1, u) IN
        /\ tired => w2.unit[u].skill \in Tiring
        /\ Becomes(Bury(MoveUnitCells(Tire(w2, u, tired), u), u))
  BY DEF Update
<1> DEFINE w2 == Idle(w1, u)
           w3 == Tire(w2, u, tired)
           w4 == MoveUnitCells(w3, u)
           w5 == Bury(w4, u)
           k == Kill(w4, u)
<1>2. /\ tired => w2.unit[u].skill \in Tiring
      /\ Becomes(w5)
  BY <1>1
<1>3. Settled(W, u)
  BY SafeIsWorld, QuietIsSettled DEF Update, W, Inv
<1>4. Updated(w1, u)
  BY <1>3, UpdateCommandEffect
<1>5. Updated(w2, u)
  BY <1>4, IdleEffect
<1> HIDE DEF w2
<1>6. Updated(w3, u)
  BY <1>2, <1>5, TireEffect
<1> HIDE DEF w3
<1>7. Settled(w4, u) \/ Thrown(w4)
  BY <1>6, MoveUnitCellsEffect
<1> HIDE DEF w4
<1>8. Quiet(w4) \/ Thrown(w4)
  BY <1>7, SettledIsQuiet
<1>9. Quiet(k) \/ Thrown(w4)
  BY <1>7, KillEffect
<1>10. Thrown(w4) => Thrown(w5)
  BY ThrownUpdate
<1>11. w5 = w4 \/ w5 = k
  BY DEF Bury
<1> HIDE DEF w5, k
<1>12. Quiet(w5) \/ Thrown(w5)
  BY <1>8, <1>9, <1>10, <1>11
<1> QED BY <1>2, <1>12, BecomesInv

LEMMA DieInv ==
  ASSUME Inv, NEW u \in Unit, Die(u)
  PROVE  Inv'
<1> DEFINE k == Kill(W, u)
<1>1. Settled(W, u) /\ Becomes(k)
  BY SafeIsWorld, QuietIsSettled DEF Die, W, Inv
<1>2. Quiet(k)
  BY <1>1, KillEffect
<1> HIDE DEF k
<1> QED BY <1>1, <1>2, BecomesInv

(* A dead unit has no cells, and neither an order nor a goal.              *)
LEMMA DecayInv ==
  ASSUME Inv, NEW u \in Unit, Decay(u)
  PROVE  Inv'
<1> DEFINE s == IF unit[u].skill = "die" THEN "rotten" ELSE "die"
           r == [unit[u] EXCEPT !.skill = s]
           d == WithRecord(Safe, u, r)
<1>1. /\ Quiet(Safe) /\ Good(Safe) /\ Safe \in World /\ Safe.unit = unit /\ ~Safe.threw
      /\ unit \in [Unit -> UnitRecord] /\ unit[u].skill \in {"die", "rotten"}
  BY DEF Inv, Quiet, Good, World, Safe, Decay
<1>2. /\ r \in UnitRecord /\ r.commands = unit[u].commands /\ r.type = unit[u].type
      /\ r.skill \in {"die", "rotten"}
  BY <1>1 DEF UnitRecord, Skill
<1>3. unit' = [unit EXCEPT ![u] = r]
  BY <1>1 DEF Decay
<1> HIDE DEF r
<1>4. /\ Local(Safe, d, u) /\ d.unit[u] = r /\ d.threw = Safe.threw
      /\ d.alive = Safe.alive /\ d.blocked = Safe.blocked /\ d.cell = Safe.cell
  BY <1>1, <1>2, RecordEffect
<1>5. /\ d.unit = unit' /\ d.alive = alive /\ d.blocked = blocked /\ d.cell = cell
      /\ d.threw = FALSE
  <2>1. d.unit = [unit EXCEPT ![u] = r]
    BY <1>1 DEF WithRecord, World
  <2> QED BY <1>3, <1>4, <2>1 DEF Safe
<1> HIDE DEF d
<1>6. ~OnMap(r) /\ ~OnMap(unit[u])
  BY <1>1, <1>2 DEF OnMap
<1>7. Queued(unit[u]) /\ Cleared(Safe, u)
  BY <1>1 DEF Good
<1>8. Rooted(d, u) /\ Queued(d.unit[u]) /\ Cleared(d, u) /\ Rests(d, u)
  <2>1. Rooted(d, u)
    BY <1>4, <1>6 DEF Rooted
  <2>2. Queued(d.unit[u])
    BY <1>2, <1>4, <1>6, <1>7 DEF Queued
  <2>3. Cleared(d, u)
    BY <1>1, <1>4, <1>6, <1>7 DEF Cleared
  <2>4. Rests(d, u)
    BY <1>2, <1>4 DEF Rests
  <2> QED BY <2>1, <2>2, <2>3, <2>4
<1>9. Good(d)
  BY <1>1, <1>4, <1>8, LocalOthers
<1>10. Quiet(d)
  <2>1. \A x \in Unit \ {u} : Rests(d, x)
    BY <1>1, <1>4 DEF Local, Quiet, Rests
  <2> QED BY <1>8, <1>9, <2>1 DEF Quiet
<1>11. threw' = FALSE /\ UNCHANGED <<alive, blocked, cell>>
  BY DEF Decay, Inv
<1>12. Becomes(d)
  BY <1>5, <1>11 DEF Becomes
<1> QED BY <1>10, <1>12, BecomesInv

LEMMA PlaceUnitInv ==
  ASSUME Inv, NEW v \in Unit, NEW t \in Placed, PlaceUnit(v, t)
  PROVE  Inv'
<1>1. PICK p \in Cell : /\ IsFreeCells(W, p, Size[t], FieldOf[t])
                        /\ Becomes(Create(W, v, t, p, "stop"))
  BY DEF PlaceUnit
<1> DEFINE c == Create(W, v, t, p, "stop")
<1>2. /\ Good(W) /\ W \in World /\ W.unit[v].skill = "unborn" /\ t \in Type /\ p \in Place
      /\ \A x \in Unit : Rests(W, x)
  BY SafeIsWorld, TypeAssumption, CellsArePlaces DEF PlaceUnit, W, Inv, Quiet, Good
<1>3. Orderly => Fits(W, v, t, p)
  BY <1>1, <1>2, RoomForNewUnit
<1>4. Created(W, c, v) \/ Thrown(c)
  BY <1>2, <1>3, CreateEffect
<1>5. Becomes(c)
  BY <1>1
<1> HIDE DEF c
<1>6. ASSUME Created(W, c, v) PROVE Quiet(c)
  <2>1. \A x \in Unit \ {v} : c.unit[x] = W.unit[x]
    BY <1>6 DEF Local, Created
  <2>2. \A x \in Unit \ {v} : Rests(c, x)
    BY <1>2, <2>1 DEF Rests
  <2> QED BY <1>6, <2>2 DEF Quiet, Steady, Created
<1> QED BY <1>4, <1>5, <1>6, BecomesInv

LEMMA GiveInv ==
  ASSUME Inv, NEW u \in Unit, NEW order, NEW tryQueue, Give(u, order, tryQueue)
  PROVE  Inv'
<1> DEFINE g == GiveCommand(W, u, order, tryQueue)
<1>1. Quiet(W) /\ Good(W) /\ Becomes(g)
  BY SafeIsWorld DEF Give, Inv, Quiet
<1>2. AsBefore(W, g, u) /\ g.unit[u].skill = W.unit[u].skill
  BY <1>1, GiveCommandEffect
<1> HIDE DEF g
<1>3. Quiet(g)
  BY <1>1, <1>2, QuietAgain
<1> QED BY <1>1, <1>3, BecomesInv

LEMMA CancelInv ==
  ASSUME Inv, NEW u \in Unit, Cancel(u)
  PROVE  Inv'
<1> DEFINE c == CancelCommand(W, u)
<1>1. Quiet(W) /\ Good(W) /\ Becomes(c)
  BY SafeIsWorld DEF Cancel, Inv, Quiet
<1>2. AsBefore(W, c, u) /\ c.unit[u].skill = W.unit[u].skill
  BY <1>1, CancelCommandEffect
<1> HIDE DEF c
<1>3. Quiet(c)
  BY <1>1, <1>2, QuietAgain
<1> QED BY <1>1, <1>3, BecomesInv

LEMMA HitInv ==
  ASSUME Inv, NEW u \in Unit, Hit(u)
  PROVE  Inv'
<1>1. /\ Safe'.unit = Safe.unit /\ Safe'.cell = Safe.cell /\ Safe'.blocked = Safe.blocked /\ Safe'.threw = Safe.threw
      /\ Safe \in World /\ Safe' \in World
  BY DEF Hit, Safe, Inv, Quiet, Good, World
<1>2. ASSUME NEW x \in Unit
      PROVE  Rooted(Safe', x) /\ Queued(Safe'.unit[x]) /\ Cleared(Safe', x) /\ Rests(Safe', x)
  <2>1. Rooted(Safe, x) /\ Queued(Safe.unit[x]) /\ Cleared(Safe, x) /\ Rests(Safe, x)
    BY DEF Inv, Quiet, Good
  <2> QED BY <1>1, <2>1 DEF Rooted, Cleared, Standing, Reserved, Rests
<1>3. ~Safe'.threw
  BY <1>1 DEF Inv, Quiet, Good
<1>4. Quiet(Safe')
  BY <1>1, <1>2, <1>3 DEF Quiet, Good
<1>5. Quiet(Safe)'
  BY <1>4
<1> QED BY <1>5 DEF Inv, Hit

LEMMA NextInv == Inv /\ [Next]_vars => Inv'
<1> SUFFICES ASSUME Inv, [Next]_vars PROVE Inv'
  OBVIOUS
<1>1. CASE UNCHANGED vars
  <2>1. Safe' = Safe /\ threw' = threw
    BY <1>1 DEF vars, Safe
  <2>2. Quiet(Safe)'
    BY <2>1 DEF Inv
  <2> QED BY <2>1, <2>2 DEF Inv
<1>2. ASSUME NEW u \in Unit, Update(u) PROVE Inv'
  BY <1>2, UpdateInv
<1>3. ASSUME NEW u \in Unit, Die(u) PROVE Inv'
  BY <1>3, DieInv
<1>4. ASSUME NEW u \in Unit, Hit(u) PROVE Inv'
  BY <1>4, HitInv
<1>5. ASSUME NEW u \in Unit, Cancel(u) PROVE Inv'
  BY <1>5, CancelInv
<1>6. ASSUME NEW u \in Unit, NEW t \in Placed, PlaceUnit(u, t) PROVE Inv'
  BY <1>6, PlaceUnitInv
<1>7. ASSUME NEW u \in Unit, NEW order, NEW tryQueue, Give(u, order, tryQueue) PROVE Inv'
  BY <1>7, GiveInv
<1>8. ASSUME NEW u \in Unit, Decay(u) PROVE Inv'
  BY <1>8, DecayInv
<1> QED BY <1>1, <1>2, <1>3, <1>4, <1>5, <1>6, <1>7, <1>8 DEF Next

LEMMA SpecInv == Spec => []Inv
BY InitInv, NextInv, PTL DEF Spec

(* Every variable has its type: of the units on the map each has one, and  *)
(* no order waits behind a morph, which would be an order of another type. *)
THEOREM CellsTypes == Spec => []TypeOK
<1>1. Inv => TypeOK
  <2> SUFFICES ASSUME Inv PROVE TypeOK
    OBVIOUS
  <2>1. Safe \in World /\ \A u \in Unit : Rooted(Safe, u) /\ Queued(Safe.unit[u])
    BY DEF Inv, Quiet, Good
  <2>2. Safe.unit = unit
    BY DEF Safe
  <2>3. \A u \in Unit : OnMap(unit[u]) => unit[u].type \in Type
    BY <2>1, <2>2 DEF Rooted
  <2>4. \A u \in Unit : \A i \in 1 .. Len(unit[u].commands) - 1 :
          unit[u].commands[i].order.kind # "morph"
    BY <2>1, <2>2 DEF Queued
  <2>5. W \in World
    BY <2>1 DEF Inv, Safe, W, World
  <2> QED BY <2>3, <2>4, <2>5 DEF TypeOK
<1> QED BY <1>1, SpecInv, PTL

(* A unit holds the cells on which it stands, whatever is ordered and      *)
(* cancelled, and however the updates of the units follow one another.     *)
THEOREM OwnCellsHolds == Spec => []OwnCells
<1>1. Inv => OwnCells
  <2> SUFFICES ASSUME Inv, NEW u \in Unit, OnMap(unit[u]),
                      NEW c \in Taken(unit[u].type, unit[u].pos)
               PROVE  c \in Cell /\ cell[FieldOf[unit[u].type]][c] = u
    BY DEF OwnCells
  <2>1. Safe \in World /\ Rooted(Safe, u) /\ Safe.unit = unit /\ Safe.cell = cell
    BY DEF Inv, Quiet, Good, Safe
  <2>2. /\ unit[u].type \in Type /\ Square(unit[u].pos, Size[unit[u].type]) \subseteq Cell
        /\ cell[FieldOf[unit[u].type]][c] = u
    BY <2>1 DEF Rooted
  <2>3. unit[u].pos \in Place
    BY <2>1 DEF World, UnitRecord
  <2> QED BY <2>2, <2>3, TakenInSquare
<1> QED BY <1>1, SpecInv, PTL

(* With types that do not shrink into another field, and morphs that cost  *)
(* no energy, no unit is put where another one stands, or off the map: the *)
(* cells that are free by the rot of a unit are empty.                     *)
THEOREM NoThrowHolds ==
  ASSUME Orderly
  PROVE  Spec => []NoThrow
<1>1. Inv => NoThrow
  BY DEF Inv, NoThrow
<1> QED BY <1>1, SpecInv, PTL

(* With types that do not shrink into another field, and morphs that cost  *)
(* no energy, no cell names a unit that is neither there nor coming.       *)
THEOREM NoGhostHolds ==
  ASSUME Orderly
  PROVE  Spec => []NoGhost
<1>1. Inv => NoGhost
  <2> SUFFICES ASSUME Inv, NEW f \in Field, NEW c \in Cell, cell[f][c] # None
               PROVE  /\ OnMap(unit[cell[f][c]])
                      /\ Stands(cell[f][c], f, c) \/ Reserves(cell[f][c], f, c)
    BY DEF NoGhost
  <2> DEFINE u == cell[f][c]
  <2>1. Safe \in World /\ Safe.unit = unit /\ Safe.cell = cell
    BY DEF Inv, Quiet, Good, Safe
  <2>2. u \in Unit
    BY <2>1 DEF World
  <2>3. Cleared(Safe, u)
    BY <2>2 DEF Inv, Quiet, Good
  <2>4. OnMap(unit[u]) /\ (Standing(Safe, u, f, c) \/ Reserved(Safe, u, f, c))
    BY <2>1, <2>2, <2>3 DEF Cleared
  <2> QED BY <2>1, <2>4 DEF Standing, Reserved, Stands, Reserves, Reserving
<1>2. Inv => NoGhost
  BY <1>1
<1> QED BY <1>2, SpecInv, PTL
=============================================================================
