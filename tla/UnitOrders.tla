----------------------------- MODULE UnitOrders -----------------------------
(***************************************************************************)
(* The command queues of the units of one faction, what their commands     *)
(* cost and give back, and the upgrades they start.  Orders come from the  *)
(* command lists (module Lockstep), one at a time; the world's update      *)
(* advances the first command of a unit; a unit may be killed in between.  *)
(* Every queue draws on the same stock of resources, the same upgrades and *)
(* the same limits on the number of units.                                 *)
(*                                                                         *)
(* One resource stands for all those that are neither static nor           *)
(* consumable: each is charged and returned in the same way.               *)
(***************************************************************************)
EXTENDS Integers, Sequences, FiniteSets, SequencesExt

CONSTANTS
  Unit,           \* the units that take orders
  Upgrade,        \* the upgrade types of the faction
  Product,        \* the unit types that are produced or built
  Can,            \* Can[u]: the orders that the type of u has
  Cost,           \* Cost[p]: price of a product or an upgrade
  Requires,       \* Requires[p]: the upgrades that p needs
  MaxUnitCount,   \* MaxUnitCount[p]: limit of a product, 0 for none
  ProductionTime, \* updates that a product or an upgrade takes
  Store,          \* Faction::getStoreAmount
  StartAmount,    \* the resources at the start
  None,           \* no product, no building
  MaxQueue,       \* bound: the length of a command queue
  MaxStock        \* bound: the units of a product without a limit

Order ==
  [kind : {"stop", "move"}, of : {None}]
    \cup [kind : {"produce", "build"}, of : Product]
    \cup [kind : {"upgrade"}, of : Upgrade]

ASSUME UnitAssumption == IsFiniteSet(Unit)
ASSUME OrderAssumption == Can \in [Unit -> SUBSET Order]
ASSUME NoneAssumption == None \notin Product \cup Upgrade
ASSUME PriceAssumption ==
  /\ Cost \in [Product \cup Upgrade -> Nat]
  /\ Requires \in [Product \cup Upgrade -> SUBSET Upgrade]
  /\ MaxUnitCount \in [Product -> Nat]
  /\ ProductionTime \in Nat
ASSUME AmountAssumption == Store \in Nat /\ StartAmount \in 0 .. Store
ASSUME BoundAssumption == MaxQueue \in Nat /\ MaxStock \in Nat

(* A Command in a queue: its order, and whether Command::unitRef is the    *)
(* building that it started.                                               *)
Command == [order : Order, begun : BOOLEAN]

Building == [of : Product \cup {None}, state : {"none", "being", "built", "gone"}]

Skill == {"stop", "move", "produce", "upgrade", "build", "die"}

VARIABLES
  commands,       \* Unit::commands
  skill,          \* the class of Unit::currSkill
  progress2,      \* Unit::progress2
  alive,          \* Unit::alive
  target,         \* the building at Unit::targetPos, the last one that the
                  \* unit started: its type and what became of it
  purse,          \* [resources, manager, owed] of the faction; owed is a
                  \* history: how often each order for a unit or an upgrade was
                  \* paid for and neither delivered nor returned
  stock,          \* stock[p]: the operative units of type p
  done            \* history: the upgrades that a unit has completed

vars == <<commands, skill, progress2, alive, target, purse, stock, done>>

M == INSTANCE UpgradeManager WITH manager <- purse.manager

Paid == {"produce", "upgrade"}   \* the command has a ProducibleType
PaidOrder == {order \in Order : order.kind \in Paid}

(* Queueability, and CommandType::getTypePriority.                         *)
Queuable(order, tryQueue) ==
  \/ order.kind \in Paid
  \/ order.kind # "stop" /\ tryQueue
(* Mutant: an order may wait behind a stop.                                *)
AppendableAlways(order) == TRUE
Appendable(order) == order.kind # "stop"
Priority(order) ==
  CASE order.kind \in Paid -> 15
    [] order.kind = "stop" -> 100000
    [] OTHER -> 10

(* Every variable has its type, and the faction has no debts: the price of *)
(* an order is checked when it is given and not when it is executed.       *)
TypeOK ==
  /\ commands \in [Unit -> Seq(Command)]
  /\ skill \in [Unit -> Skill]
  /\ progress2 \in [Unit -> 0 .. ProductionTime]
  /\ alive \in [Unit -> BOOLEAN]
  /\ target \in [Unit -> Building]
  /\ purse.resources \in 0 .. Store
  /\ purse.owed \in [PaidOrder -> Int]
  /\ M!TypeOK
  /\ stock \in [Product -> Nat]

Init ==
  /\ commands = [u \in Unit |-> << >>]
  /\ skill = [u \in Unit |-> "stop"]
  /\ progress2 = [u \in Unit |-> 0]
  /\ alive = [u \in Unit |-> TRUE]
  /\ target = [u \in Unit |-> [of |-> None, state |-> "none"]]
  /\ purse = [resources |-> StartAmount, manager |-> M!Empty,
              owed |-> [order \in PaidOrder |-> 0]]
  /\ stock = [p \in Product |-> 0]
  /\ done = {}

-----------------------------------------------------------------------------
(* Resources.                                                              *)

IncResourceAmount(f, amount) ==
  [f EXCEPT !.resources = LET sum == @ + amount IN IF sum > Store THEN Store ELSE sum]

Owe(f, order, n) ==
  IF order.kind \in Paid THEN [f EXCEPT !.owed[order] = @ + n] ELSE f

Charge(f, order) == Owe(IncResourceAmount(f, -Cost[order.of]), order, 1)
Return(f, order) == Owe(IncResourceAmount(f, Cost[order.of]), order, -1)
Deliver(f, order) == Owe(f, order, -1)

(* Unit::applyCommand, and Unit::undoCommand by a unit whose skill is sk.  *)
ApplyCommand(f, order) ==
  IF order.kind \in {"stop", "move"} THEN f
  ELSE LET charged == Charge(f, order) IN
       IF order.kind = "upgrade"
       THEN [charged EXCEPT !.manager = M!StartUpgrade(@, order.of)]
       ELSE charged

(* Mutant: nothing is returned for what is under way, as for buildings.    *)
UndoCommandUnlessBusy(f, sk, cmd) ==
  LET order == cmd.order
      returned == IF order.kind # "stop" /\ order.kind # "move" /\ sk # order.kind
                  THEN Return(f, order) ELSE f
  IN  IF order.kind = "upgrade"
      THEN [returned EXCEPT !.manager = M!CancelUpgrade(@, order.of)]
      ELSE returned

UndoCommand(f, sk, cmd) ==
  LET order == cmd.order
      returned == IF \/ order.kind \in Paid
                     \/ order.kind = "build" /\ sk \notin {"build", "die"}
                  THEN Return(f, order) ELSE f
  IN  IF order.kind = "upgrade"
      THEN [returned EXCEPT !.manager = M!CancelUpgrade(@, order.of)]
      ELSE returned

-----------------------------------------------------------------------------
(* Queues.  Each operation on the queue q of a unit gives the queue and    *)
(* the purse that it leaves: [q |-> ..., f |-> ...].                       *)

(* The command at place i is undone and deleted.                           *)
Erase(q, f, i, sk) == [q |-> RemoveAt(q, i), f |-> UndoCommand(f, sk, q[i])]

CancelCommand(q, f, sk) ==
  IF q = << >> THEN [q |-> q, f |-> f] ELSE Erase(q, f, Len(q), sk)

(* Mutant: the commands are deleted and not undone.                        *)
ClearCommandsOnly(q, f, sk) == [q |-> << >>, f |-> f]

(* From the last command to the first.                                     *)
ClearCommands(q, f, sk) ==
  LET loop[n \in 0 .. Len(q)] ==
        IF n = 0 THEN [q |-> q, f |-> f]
        ELSE CancelCommand(loop[n - 1].q, loop[n - 1].f, sk)
  IN  loop[Len(q)]

(* The commands of lower priority than the new one, from the first on: the *)
(* iterator is at a command that is erased, or passes it.                  *)
EraseLower(q, f, at, sk, order) ==
  IF at <= Len(q) /\ Priority(q[at].order) < Priority(order)
  THEN [left |-> Erase(q, f, at, sk), at |-> at]
  ELSE [left |-> [q |-> q, f |-> f], at |-> at + 1]
DeleteLower(q, f, sk, order) ==
  LET loop[n \in 0 .. Len(q)] ==
        IF n = 0 THEN [left |-> [q |-> q, f |-> f], at |-> 1]
        ELSE EraseLower(loop[n - 1].left.q, loop[n - 1].left.f, loop[n - 1].at, sk, order)
  IN  loop[Len(q)].left

(* Room for a new command: what Unit::giveCommand removes first.           *)
MakeRoom(q, f, sk, order, tryQueue) ==
  IF ~Queuable(order, tryQueue) THEN ClearCommands(q, f, sk)
  ELSE LET r == IF order.kind \in Paid /\ tryQueue THEN [q |-> q, f |-> f]
                ELSE DeleteLower(q, f, sk, order)
       IN  IF r.q # << >> /\ ~Appendable(Last(r.q).order)
           THEN CancelCommand(r.q, r.f, sk)
           ELSE r

(* Where an order is queued.                                               *)
Places(order, queues) ==
  UNION {{<<u, i>> : i \in {j \in DOMAIN queues[u] : queues[u][j].order = order}} : u \in Unit}
Count(order, queues) == Cardinality(Places(order, queues))

(* Mutant: only the units that exist are counted.                          *)
CountOperative(p, queues) == stock[p]

(* Faction::getCountForMaxUnitCount: the operative units of type p, and    *)
(* the commands that will make one.                                        *)
CountForMaxUnitCount(p, queues) ==
  stock[p] + Count([kind |-> "produce", of |-> p], queues)
           + Count([kind |-> "build", of |-> p], queues)

(* Faction::reqsOk.                                                        *)
ReqsOk(f, p, queues) ==
  /\ \A t \in Requires[p] : M!IsUpgraded(f.manager, t)
  /\ p \in Product /\ MaxUnitCount[p] > 0 =>
       CountForMaxUnitCount(p, queues) < MaxUnitCount[p]
(* Mutant: the costs are not checked again once the order is executed.     *)
CheckCommandUnpaid(u, f, order, queues) ==
  /\ alive[u]
  /\ order.of # None => ReqsOk(f, order.of, queues)
  /\ order.kind = "upgrade" => ~M!IsUpgradingOrUpgraded(f.manager, order.of)

(* Unit::checkCommand, in the state that MakeRoom leaves.                  *)
CheckCommand(u, f, order, queues) ==
  /\ alive[u]
  /\ order.of # None => ReqsOk(f, order.of, queues) /\ Cost[order.of] <= f.resources
  /\ order.kind = "upgrade" => ~M!IsUpgradingOrUpgraded(f.manager, order.of)

(* Unit::giveCommand.                                                      *)
GiveTo(u, q, f, sk, order, tryQueue) ==
  LET r == MakeRoom(q, f, sk, order, tryQueue)
  IN  IF CheckCommand(u, r.f, order, [commands EXCEPT ![u] = r.q])
      THEN [q |-> Append(r.q, [order |-> order, begun |-> FALSE]),
            f |-> ApplyCommand(r.f, order)]
      ELSE r

-----------------------------------------------------------------------------
(* Commander::giveNetworkCommand: an order, or the end of the last one.    *)

GiveCommand(u, order, tryQueue) ==
  /\ Len(commands[u]) < MaxQueue
  /\ order.of \in Product /\ MaxUnitCount[order.of] = 0 =>
       CountForMaxUnitCount(order.of, commands) < MaxStock
  /\ LET r == GiveTo(u, commands[u], purse, skill[u], order, tryQueue)
     IN  commands' = [commands EXCEPT ![u] = r.q] /\ purse' = r.f
  /\ UNCHANGED <<skill, progress2, alive, target, stock, done>>

CancelOrder(u) ==
  /\ LET r == CancelCommand(commands[u], purse, skill[u])
     IN  commands' = [commands EXCEPT ![u] = r.q] /\ purse' = r.f
  /\ UNCHANGED <<skill, progress2, alive, target, stock, done>>

-----------------------------------------------------------------------------
(* UnitUpdater::updateUnitCommand.  The first command's update leaves the  *)
(* queue q, the purse f, the skill sk and the progress pr; End does the    *)
(* rest: a unit without commands stops, a dead one is killed.  Giving the  *)
(* stop to an operative unit without commands removes nothing, costs       *)
(* nothing and is never refused, so the order is appended as it stands.    *)

StopOrder == [kind |-> "stop", of |-> None]
MoveOrder == [kind |-> "move", of |-> None]

End(u, q, f, sk, pr) ==
  LET idle == q = << >> /\ alive[u]
      stopping == IF StopOrder \in Can[u] THEN <<[order |-> StopOrder, begun |-> FALSE]>> ELSE q
      killed == ClearCommands(q, f, sk)
  IN  /\ commands' = [commands EXCEPT ![u] =
                        IF ~alive[u] THEN killed.q ELSE IF idle THEN stopping ELSE q]
      /\ purse' = IF alive[u] THEN f ELSE killed.f
      /\ skill' = [skill EXCEPT ![u] = IF ~alive[u] THEN "die" ELSE IF idle THEN "stop" ELSE sk]
      /\ progress2' = [progress2 EXCEPT ![u] = IF alive[u] /\ ~idle THEN pr ELSE 0]

(* A unit that cannot fight runs away from an attacker.                    *)
UpdateStop(u) ==
  /\ \/ End(u, commands[u], purse, "stop", 0)
     \/ /\ MoveOrder \in Can[u]
        /\ LET r == GiveTo(u, commands[u], purse, "stop", MoveOrder, FALSE)
           IN  End(u, r.q, r.f, "stop", 0)
  /\ UNCHANGED <<target, stock, done>>

(* On the way, held up, blocked for good or arrived.                       *)
UpdateMove(u) ==
  /\ \/ End(u, commands[u], purse, "move", 0)
     \/ End(u, commands[u], purse, "stop", 0)
     \/ End(u, Tail(commands[u]), purse, "stop", 0)
     \/ End(u, Tail(commands[u]), purse, skill[u], progress2[u])
  /\ UNCHANGED <<target, stock, done>>

(* The builder walks to the place, and starts the building if it is free.  *)
(* Otherwise, or when the way is blocked, cancelCommand takes the last     *)
(* command of the queue.                                                   *)
ApproachSite(u) ==
  LET q == commands[u]
      first == Head(q)
      cancelled == CancelCommand(q, purse, skill[u])
  IN  /\ skill[u] # "build"
      /\ \/ /\ End(u, q, purse, "move", 0)
            /\ UNCHANGED target
         \/ /\ End(u, [q EXCEPT ![1].begun = TRUE], purse, "build", 0)
            /\ target' = [target EXCEPT ![u] = [of |-> first.order.of, state |-> "being"]]
         \/ /\ End(u, cancelled.q, cancelled.f, "stop", 0)
            /\ UNCHANGED target
         \/ /\ End(u, cancelled.q, cancelled.f, skill[u], progress2[u])
            /\ UNCHANGED target
         \/ /\ End(u, q, purse, skill[u], progress2[u])
            /\ UNCHANGED target
      /\ UNCHANGED stock

(* The builder works on the building at its target, unless that is not the *)
(* one of its command.                                                     *)
WorkOnSite(u) ==
  LET q == commands[u]
      first == Head(q)
  IN  /\ skill[u] = "build"
      /\ \/ /\ IF first.begun THEN target[u].state = "gone" ELSE TRUE
            /\ End(u, q, purse, "stop", 0)
            /\ UNCHANGED <<target, stock>>
         \/ /\ \/ target[u].state = "gone"
               \/ first.begun /\ target[u].state = "built"
            /\ End(u, Tail(q), purse, "stop", 0)
            /\ UNCHANGED <<target, stock>>
         \/ /\ first.begun /\ target[u].state = "being"
            /\ \/ /\ End(u, q, purse, skill[u], progress2[u])
                  /\ UNCHANGED <<target, stock>>
               \/ /\ End(u, Tail(q), purse, "stop", 0)
                  /\ target' = [target EXCEPT ![u].state = "built"]
                  /\ stock' = [stock EXCEPT ![first.order.of] = @ + 1]

UpdateBuild(u) ==
  /\ ApproachSite(u) \/ WorkOnSite(u)
  /\ UNCHANGED done

(* Production takes ProductionTime updates with the skill, whatever the    *)
(* order was under which the unit took it up.                              *)
Ready(u, sk) == skill[u] = sk /\ progress2[u] + 1 > ProductionTime
Produces(u, sk) ==
  /\ ~Ready(u, sk)
  /\ End(u, commands[u], purse, sk, IF skill[u] = sk THEN progress2[u] + 1 ELSE 0)
  /\ UNCHANGED <<target, stock, done>>

(* The new unit appears if there is a place for it.                        *)
UpdateProduce(u) ==
  \/ Produces(u, "produce")
  \/ /\ Ready(u, "produce")
     /\ LET order == Head(commands[u]).order
        IN  /\ End(u, Tail(commands[u]), Deliver(purse, order), "stop", 0)
            /\ \E n \in {0, 1} : stock' = [stock EXCEPT ![order.of] = @ + n]
     /\ UNCHANGED <<target, done>>

UpdateUpgrade(u) ==
  \/ Produces(u, "upgrade")
  \/ /\ Ready(u, "upgrade")
     /\ LET order == Head(commands[u]).order
        IN  /\ End(u, Tail(commands[u]),
                   [Deliver(purse, order) EXCEPT !.manager = M!FinishUpgrade(@, order.of)],
                   "stop", 0)
            /\ done' = done \cup {order.of}
     /\ UNCHANGED <<target, stock>>

UpdateCommand(u) ==
  LET kind == Head(commands[u]).order.kind IN
    \/ kind = "stop" /\ UpdateStop(u)
    \/ kind = "move" /\ UpdateMove(u)
    \/ kind = "build" /\ UpdateBuild(u)
    \/ kind = "produce" /\ UpdateProduce(u)
    \/ kind = "upgrade" /\ UpdateUpgrade(u)

(* Unit::update answers true at the end of each cycle of the skill, and    *)
(* never again once the unit has the skill scDie.                          *)
UpdateUnit(u) ==
  /\ skill[u] # "die"
  /\ \/ commands[u] # << >> /\ UpdateCommand(u)
     \/ /\ commands[u] = << >>
        /\ End(u, << >>, purse, skill[u], progress2[u])
        /\ UNCHANGED <<target, stock, done>>
  /\ UNCHANGED alive

(* updateUnit in the middle of a cycle: only a death matters.              *)
Kill(u) ==
  /\ ~alive[u] /\ skill[u] # "die"
  /\ End(u, commands[u], purse, skill[u], progress2[u])
  /\ UNCHANGED <<alive, target, stock, done>>

-----------------------------------------------------------------------------
(* What the rest of the world does to the faction.                         *)

(* Unit::decHp takes the last hit point.                                   *)
Hit(u) ==
  /\ alive[u]
  /\ alive' = [alive EXCEPT ![u] = FALSE]
  /\ UNCHANGED <<commands, skill, progress2, target, purse, stock, done>>

(* A load is delivered to a store.                                         *)
Harvest ==
  /\ purse.resources < Store
  /\ purse' = IncResourceAmount(purse, 1)
  /\ UNCHANGED <<commands, skill, progress2, alive, target, stock, done>>

(* A building: another worker completes it, or it is destroyed.  One that  *)
(* its builder has left for another is not followed any more.              *)
Repaired(u) ==
  /\ target[u].state = "being"
  /\ target' = [target EXCEPT ![u].state = "built"]
  /\ stock' = [stock EXCEPT ![target[u].of] = @ + 1]
  /\ UNCHANGED <<commands, skill, progress2, alive, purse, done>>

Destroyed(u) ==
  /\ target[u].state \in {"being", "built"}
  /\ target' = [target EXCEPT ![u].state = "gone"]
  /\ stock' = IF target[u].state = "built" THEN [stock EXCEPT ![target[u].of] = @ - 1] ELSE stock
  /\ UNCHANGED <<commands, skill, progress2, alive, purse, done>>

(* A produced unit dies.                                                   *)
Lost(p) ==
  /\ stock[p] > Cardinality({u \in Unit : target[u] = [of |-> p, state |-> "built"]})
  /\ stock' = [stock EXCEPT ![p] = @ - 1]
  /\ UNCHANGED <<commands, skill, progress2, alive, target, purse, done>>

Next ==
  \/ \E u \in Unit :
       \/ \E order \in Can[u], tryQueue \in BOOLEAN : GiveCommand(u, order, tryQueue)
       \/ CancelOrder(u)
       \/ UpdateUnit(u)
       \/ Kill(u)
       \/ Hit(u)
       \/ Destroyed(u)
       \/ Repaired(u)
  \/ Harvest
  \/ \E p \in Product : Lost(p)

Spec == Init /\ [][Next]_vars

(* World::updateAllFactionUnits updates every unit in every frame.         *)
FairSpec == Spec /\ \A u \in Unit : WF_vars(UpdateUnit(u) \/ Kill(u))

-----------------------------------------------------------------------------

(* However orders are queued, replaced, cancelled, finished or lost with   *)
(* their unit, the price of every order to produce a unit or an upgrade    *)
(* is delivered or returned exactly once, and never both: what is owed is  *)
(* what is queued.                                                         *)
ProductionLedger == \A order \in PaidOrder : purse.owed[order] = Count(order, commands)

(* No more units of a product than its limit, which Faction::reqsOk checks *)
(* only when an order is given, while earlier orders are still queued with *)
(* this unit and others.  Of a product that is built, a site that its      *)
(* builder has left is not counted, so it may exceed its limit.            *)
Built == {p \in Product : \E u \in Unit : [kind |-> "build", of |-> p] \in Can[u]}
WithinLimit ==
  \A p \in Product \ Built : MaxUnitCount[p] > 0 => stock[p] <= MaxUnitCount[p]

(* An upgrade is started and not completed exactly while one unit has the  *)
(* one order for it: no two units do the same one, and none is left        *)
(* "upgrading" that nobody works on, which could never be ordered again.   *)
UpgradeOrdered ==
  \A t \in Upgrade :
    Count([kind |-> "upgrade", of |-> t], commands) = IF M!Pending(t) THEN 1 ELSE 0

(* The upgrade manager never throws, and with two types of upgrade it      *)
(* agrees with what the units have completed.                              *)
NoThrow == M!NoThrow
UpgradedAsDone == M!UpgradedAsDone

(* An upgrade that is ordered from a unit without orders that depend on    *)
(* the map, such as a building, leaves its queue in the end: completed,    *)
(* cancelled or lost with the unit, but never kept waiting.                *)
UpgradeServed ==
  \A u \in Unit : (\A order \in Can[u] : order.kind \notin {"move", "build"}) =>
    \A t \in Upgrade :
      LET Queued == \E i \in DOMAIN commands[u] :
                      commands[u][i].order = [kind |-> "upgrade", of |-> t]
      IN  []<>~Queued
=============================================================================
