SPECIFICATION Spec
CONSTANTS
  Threads = {t1, t2}
  Clients = {c1, c2}
  Readers = {r1}
  Modes = {"NORMAL", "STEP"}
  Answers = {"MEANINGFUL", "BLANK", "PENDING", "APPROVED", "REJECTED_WITHOUT_REASON", "APPROVED_WITH_REASON"}
  MaxNodes = 2
  MaxPauses = 2
  Patient = FALSE
SYMMETRY Interchangeable
INVARIANTS
  TypeOK
  StepwiseExecution
  AnswersNeverExceedPauses
  OneWorker
  EndedReadersSawTerminalEvent
CHECK_DEADLOCK FALSE
