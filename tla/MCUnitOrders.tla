---------------------------- MODULE MCUnitOrders ----------------------------
(* Instances of UnitOrders for TLC.                                        *)
EXTENDS UnitOrders

CONSTANTS worker, factory, armor, blades, soldier, house

Stop == [kind |-> "stop", of |-> None]
Move == [kind |-> "move", of |-> None]
Produce(p) == [kind |-> "produce", of |-> p]
Upgrading(t) == [kind |-> "upgrade", of |-> t]
Build(p) == [kind |-> "build", of |-> p]

(* A worker that walks, builds houses, trains soldiers and develops armor, *)
(* and a factory that trains soldiers and develops armor and blades.       *)
TownCan ==
  (worker :> {Move, Build(house), Produce(soldier), Upgrading(armor)})
    @@ (factory :> {Stop, Produce(soldier), Upgrading(armor), Upgrading(blades)})

AllCostOne == [p \in {armor, blades, soldier, house} |-> 1]
SoldiersNeedArmor == [p \in {armor, blades, soldier, house} |-> IF p = soldier THEN {armor} ELSE {}]
OneSoldier == [p \in {soldier, house} |-> IF p = soldier THEN 1 ELSE 0]
=============================================================================
