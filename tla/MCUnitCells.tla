----------------------------- MODULE MCUnitCells -----------------------------
(* Instances of UnitCells for TLC.                                         *)
EXTENDS UnitCells, TLC

CONSTANTS walker, giant, bird, hut

Stop == [kind |-> "stop", of |-> None]
Move == [kind |-> "move", of |-> None]
Build(t) == [kind |-> "build", of |-> t]
MorphTo(t) == [kind |-> "morph", of |-> t]

Sizes == [t \in Type |-> IF t \in {walker, bird} THEN 1 ELSE 2]
(* The hut has a passage.                                                  *)
Cells ==
  [t \in Type |-> CASE t \in {walker, bird} -> {<<0, 0>>}
                    [] t = giant -> {0, 1} \X {0, 1}
                    [] OTHER -> {<<0, 0>>, <<1, 0>>, <<0, 1>>}]
Fields == [t \in Type |-> IF t = bird THEN "air" ELSE "land"]
Pond == {<<2, 1>>}
Symmetry == Permutations(Unit)

(* The walker goes and builds, and grows; the giant moves and shrinks; the *)
(* bird lands as a giant.                                                  *)
Skills ==
  [t \in Type |-> CASE t = walker -> {Build(hut), MorphTo(giant)}
                    [] t = giant -> {Move, MorphTo(walker)}
                    [] t = bird -> {MorphTo(giant)}
                    [] OTHER -> {}]

(* The giant takes off.                                                    *)
GiantFlies == [t \in Type |-> IF t = giant THEN {Stop, Move, MorphTo(bird)} ELSE {Move}]
=============================================================================
