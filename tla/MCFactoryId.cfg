SPECIFICATION Spec
CONSTANTS
  Factory = {0, 1}
  GarbageIds = {0}
  MayServe = {0, 1}
  MayCrash = {}
  Customers = {1, 2}
  MaxOrders = 1
  MaxPrograms = 3
INVARIANTS LeaderHasCommitted
