SPECIFICATION Spec
CONSTANTS
  Threads = {t1, t2}
  Clients = {c1, c2}
  Readers = {r1}
  Modes = {"NORMAL"}
  Answers = {"MEANINGFUL", "PENDING", "APPROVED"}
  MaxNodes = 1
  MaxPauses = 2
  Patient = FALSE
INVARIANTS
  RunningHasWorker
CHECK_DEADLOCK FALSE
