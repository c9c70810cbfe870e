SPECIFICATION Spec
CONSTANTS
  Links <- FactoryLinks
  CallsOn <- CallsOfLink
  MaxCalls = 2
  Ids <- SomeIds
INVARIANT CallerSurvives
