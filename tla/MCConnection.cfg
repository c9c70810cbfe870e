SPECIFICATION Spec
CONSTANTS
  Links <- AllLinks
  CallsOn <- CallsOfLink
  MaxCalls = 2
  Ids <- SomeIds
INVARIANTS TypeOK NothingLeftOver ServerSurvives
PROPERTIES ImplementsCalls ThreadEnds
