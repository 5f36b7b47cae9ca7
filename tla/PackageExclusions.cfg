SPECIFICATION CampaignSpec
CONSTANTS
  Families = {"S1"}
  MaxEdits = 1
  MaxReplans = 4
  MaxToolRetries = 2
  MaxTotalSteps = 20
INVARIANT AcceptedExclusionsHold
CHECK_DEADLOCK FALSE
