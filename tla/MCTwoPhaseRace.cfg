SPECIFICATION Spec
CONSTANTS
  C1 = C1
  C2 = C2
  Clients = {C1, C2}
  RM1 = RM1
  RM2 = RM2
  RMs <- TwoRMs
  KvBase <- NarrowBase
  KvTblSize <- NarrowSize
  RangeStart = 4
  RangeEnd = 5
  MaybeDown <- NoneDown
  NumReqs <- FourAndOne
  TxSize = 1
INVARIANTS TypeOK ReplicaIsPrefix OnlyThirdsAbort HeardWord LagBound UnreadWords NobodyWaitsInVain
