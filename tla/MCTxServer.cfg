SPECIFICATION ProgramSpec
CONSTANTS
  Clients = {0, 1, 2}
  KvTblSize = 3
  RangeStart = 1
  RangeEnd = 2
  NumReqs <- TwoEachOrNone
  TxSize = 3
  ReportStart = 0
  ReportEnd = 2
  ReportReqs = 4
INVARIANTS TypeOK NoLostUpdate DecisionJustified StatsMatchTable ReportIsFinal
PROPERTIES AbortedByAnother EntriesAdvance ServesAtomicBids AllServed
