SPECIFICATION Spec
CONSTANTS
  FullHealth = 2
  BulletDamage = 1
  LighterDamage = 2
  HeavierDamage = 1
  EqualDamage = 1
  RamPenalty = 1
  RamReward = 1
  HitReward = 1
  KillReward = 2
  MaxScore = 2
  MaxFrags = 1
  ShipMass = 4
  WorldSize = 8
  MaxDoublings = 3
  MaxLeaderboardSize = 1
  Identifier = Identifier
  Malformed = Malformed
  MaxShips = 2
  MaxSlots = 3
  Nullopt = Nullopt
  AsteroidsWeight = 3
  MinWeight = 1
  MaxWeight = 3
  Words = {0}
  MaxId = 6
INVARIANTS
  RewardedOnce
  GrowthIsBounded
  AsteroidBudgetKept
  ClientSeesWorld
  DamagedPacketsRejected
