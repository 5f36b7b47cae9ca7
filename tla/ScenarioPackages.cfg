SPECIFICATION CampaignSpec
CONSTANTS
  Families = {"S1", "S2", "S3", "S4", "S5", "S6", "S7"}
  MaxEdits = 2
  MaxReplans = 4
  MaxToolRetries = 2
  MaxTotalSteps = 20
INVARIANTS
  BuiltPackagesAccepted
  BuiltRunsMeetContracts
  RegistrationsAreFeasible
  VersionsAsPredicted
CHECK_DEADLOCK FALSE
