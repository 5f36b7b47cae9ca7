SPECIFICATION Spec
CONSTANTS
  Cases <- MCCases
  Offerings = {o1, o2}
  NoOffering = NoOffering
  MaxReplans = 4
  MaxToolRetries = 2
  MaxTotalSteps = 20
  RecursionLimit = 100
  ModelReview = TRUE
INVARIANT HandoffMeansUnresolved
CHECK_DEADLOCK FALSE
