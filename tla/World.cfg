SPECIFICATION FairSpec
CONSTANTS
  Sessions = {"s1", "s2"}
  Angles = {0}
  Nullopt = Nullopt
  MaxActions = 4
  MaxAsteroids = 1
INVARIANTS
  NoSilentDeath
  ShipsAndSessionsAgree
  BindingsResolve
PROPERTIES
  PoolSpec
  JoinLeadsToShip
