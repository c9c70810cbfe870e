SPECIFICATION Spec
CONSTANTS
  Factory = {1, 2, 3}
  GarbageIds = {0}
  MayServe = {1, 2}
  MayCrash = {3}
  Customers = {1, 2}
  MaxOrders = 1
  MaxPrograms = 3
INVARIANTS TypeOK LogsAgree AppliedIsReplicated RecordIsReplay OneBehind MadeIsRecorded
PROPERTIES ImplementsOneLog CommitsAdvance
