SPECIFICATION Spec
CONSTANTS
  Factory = {1, 2, 3}
  GarbageIds <- MinusOneOrZero
  MayServe = {1, 2}
  MayCrash = {1, 2}
  Customers = {1}
  MaxOrders = 2
  MaxPrograms = 2
INVARIANTS IndexInLog
PROPERTIES OrdersAnswered
