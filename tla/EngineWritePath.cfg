SPECIFICATION Spec
CONSTANTS
  Offerings <- MCOfferings
  NoOffering = NoOffering
  Courses <- MCCourses
  NoCourse = NoCourse
  CourseOf <- MCCourseOf
  Aus <- MCAus
  WorkloadLimit = 20
  WorkloadAt = 17
  SeatsAt <- MCSeatsAt
  RegisteredAt = {}
  SeedVersion = 1
  Keys = {k1, k2, k3}
  Scenarios <- MCScenarios
  Requests <- MCRequests
INVARIANTS
  TypeOK
  ReceiptsFollowScript
  OneReceiptPerKey
  EffectOnlyWhenApproved
  EffectSawTheDecision
  SeatsConserved
  RegistrationSound
  VersionCopiesAgree
  ResolvedIffEffect
  NextStepReachable
PROPERTIES
  ChangesRaiseVersions
  CommitsOnlyCurrentViews
  LedgerSpec
