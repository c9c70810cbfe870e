SPECIFICATION ProgramSpec
CONSTANTS
  RM1 = RM1
  RM2 = RM2
  Clients = {0, 1, 2}
  RMs <- TwoRMs
  KvBase <- WideBase
  KvTblSize <- WideSize
  RangeStart = 2
  RangeEnd = 3
  MaybeDown <- SecondMayBeDown
  NumReqs <- OneEachOrNone
  TxSize = 2
  ReportStart = 1
  ReportReqs = 3
INVARIANT TotalsAreDecisions
PROPERTIES RowsAreFresh AllApplied
