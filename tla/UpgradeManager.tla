--------------------------- MODULE UpgradeManager ---------------------------
(***************************************************************************)
(* The upgrades of a faction: the vector UpgradeManager::upgrades and the  *)
(* map upgradesLookup from an upgrade type to its place in the vector.     *)
(* The three member functions that change them are operators on a record,  *)
(* so that a component that calls them several times in one step can       *)
(* compose them.  The specification below calls them one at a time, in     *)
(* every order the command queues allow (module UnitOrders).  Places count *)
(* from 1, in the code from 0.                                             *)
(***************************************************************************)
EXTENDS Naturals, Sequences, FiniteSets, SequencesExt

CONSTANT Upgrade  \* the upgrade types of the faction

VARIABLES
  manager,        \* the vector and the map
  done            \* history: the upgrades that a unit has completed

vars == <<manager, done>>

(* An entry is an Upgrade: its type and whether its state is usUpgraded.   *)
Entry == [type : Upgrade, upgraded : BOOLEAN]
Empty == [upgrades |-> << >>, lookup |-> [t \in {} |-> 0]]

IsUpgradingOrUpgraded(m, t) == t \in DOMAIN m.lookup
IsUpgraded(m, t) ==
  /\ t \in DOMAIN m.lookup
  /\ m.upgrades[m.lookup[t]].upgraded

StartUpgrade(m, t) ==
  LET ups == Append(m.upgrades, [type |-> t, upgraded |-> FALSE])
  IN  [upgrades |-> ups,
       lookup |-> [s \in DOMAIN m.lookup \cup {t} |-> IF s = t THEN Len(ups) ELSE m.lookup[s]]]

(* Mutant: the map is not adapted to the shorter vector.                   *)
CancelUpgradeUnmoved(m, t) ==
  [upgrades |-> RemoveAt(m.upgrades, m.lookup[t]),
   lookup |-> [s \in DOMAIN m.lookup \ {t} |-> m.lookup[s]]]

(* The places that the erased entry leaves: only one that now lies past    *)
(* the end of the vector moves down.  An entry that would get a place      *)
(* before the first one is dropped.                                        *)
Moved(place, size) == IF place > size THEN place - 1 ELSE place
CancelUpgrade(m, t) ==
  LET ups == RemoveAt(m.upgrades, m.lookup[t])
      kept == {s \in DOMAIN m.lookup \ {t} : Moved(m.lookup[s], Len(ups)) > 0}
  IN  [upgrades |-> ups,
       lookup |-> [s \in kept |-> Moved(m.lookup[s], Len(ups))]]

(* Mutant: the upgrade that was started last is the one that is finished.  *)
FinishLast(m, t) == [m EXCEPT !.upgrades[Len(m.upgrades)].upgraded = TRUE]
FinishUpgrade(m, t) ==
  [m EXCEPT !.upgrades[m.lookup[t]] = [type |-> @.type, upgraded |-> TRUE]]

-----------------------------------------------------------------------------

Init == manager = Empty /\ done = {}

(* Unit::checkCommand lets an upgrade start only once.                     *)
Start(t) ==
  /\ ~IsUpgradingOrUpgraded(manager, t)
  /\ manager' = StartUpgrade(manager, t)
  /\ UNCHANGED done

(* An upgrade is cancelled, or finished, while its command is queued.      *)
Pending(t) == t \in DOMAIN manager.lookup \ done
Cancel(t) ==
  /\ Pending(t)
  /\ manager' = CancelUpgrade(manager, t)
  /\ UNCHANGED done
Finish(t) ==
  /\ Pending(t)
  /\ manager' = FinishUpgrade(manager, t)
  /\ done' = done \cup {t}

Next == \E t \in Upgrade : Start(t) \/ Cancel(t) \/ Finish(t)

Spec == Init /\ [][Next]_vars

-----------------------------------------------------------------------------

(* The vector holds entries, and the map places of upgrades of the faction.*)
TypeOK ==
  /\ manager = [upgrades |-> manager.upgrades, lookup |-> manager.lookup]
  /\ manager.upgrades \in Seq(Entry)
  /\ manager.lookup \in [DOMAIN manager.lookup -> Nat]
  /\ DOMAIN manager.lookup \subseteq Upgrade
  /\ done \subseteq Upgrade

(* Every place in the map exists, and there are as many entries as types   *)
(* in the map: cancelUpgrade and finishUpgrade, which throw and end the    *)
(* game when a place does not exist, never do, and no entry is dropped     *)
(* from the map while it is iterated.                                      *)
NoThrow ==
  /\ \A t \in DOMAIN manager.lookup : manager.lookup[t] \in 1 .. Len(manager.upgrades)
  /\ Cardinality(DOMAIN manager.lookup) = Len(manager.upgrades)
  /\ done \subseteq DOMAIN manager.lookup

(* A faction has an upgrade exactly when one of its units completed it:    *)
(* what isUpgraded says, and so what may be produced, follows the commands *)
(* and not the order in which others were cancelled.                       *)
UpgradedAsDone == \A t \in Upgrade : IsUpgraded(manager, t) <=> t \in done
=============================================================================
