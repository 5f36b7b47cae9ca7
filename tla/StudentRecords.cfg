SPECIFICATION Spec
CONSTANTS
  Catalogue <- MCCatalogue
  Classes <- MCClasses
  Curricula <- MCCurricula
  WorkloadLimit = 6
  Judgement <- MCJudgement
  MaxCredits = 1
  MaxEdits = 1
INVARIANTS
  BuiltRecordsAccepted
  ReadyIsEarned
  ToolsJudgeAsValidator
CHECK_DEADLOCK FALSE
