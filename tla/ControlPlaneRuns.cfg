SPECIFICATION FairSpec
CONSTANTS
  Cases <- MCCases
  Offerings = {o1, o2}
  NoOffering = NoOffering
  MaxReplans = 4
  MaxToolRetries = 2
  MaxTotalSteps = 20
  RecursionLimit = 100
  ModelReview = TRUE
INVARIANTS
  TypeOK
  BackstopUnneeded
  NodePreconditions
  VerdictCoversCandidate
  ProtectedWritesAreApproved
  NoKeyReused
  NoOfferingTriedTwice
  DoneIsEarned
  InterruptIsResumable
PROPERTY RunEnds
CHECK_DEADLOCK FALSE
