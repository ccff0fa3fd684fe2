SPECIFICATION FairSpec
CONSTANTS
  worker = worker
  factory = factory
  armor = armor
  blades = blades
  soldier = soldier
  house = house
  None = None
  Unit = {worker, factory}
  Upgrade = {armor, blades}
  Product = {soldier, house}
  Can <- TownCan
  Cost <- AllCostOne
  Requires <- SoldiersNeedArmor
  MaxUnitCount <- OneSoldier
  ProductionTime = 0
  Store = 1
  StartAmount = 1
  MaxQueue = 2
  MaxStock = 1
INVARIANTS
  TypeOK
  ProductionLedger
  WithinLimit
  UpgradeOrdered
  NoThrow
  UpgradedAsDone
PROPERTIES
  UpgradeServed
CHECK_DEADLOCK FALSE
