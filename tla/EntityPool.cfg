SPECIFICATION Spec
CONSTANTS
  EntityType = {"Ship"}
  Nullopt = Nullopt
  MaxId = 6
INVARIANTS
  PoolInv
  ActiveCountExact
PROPERTIES
  StaleIdNeverResolves
  ImplementsMap
