SPECIFICATION Spec
CONSTANTS
  Factory = {1, 2}
  GarbageIds = {0}
  MayServe = {1, 2}
  MayCrash = {1}
  Customers = {1, 2}
  MaxOrders = 1
  MaxPrograms = 2
INVARIANTS MadeIsRecorded
