SPECIFICATION Spec
CONSTANTS
  Threads = {t1, t2}
  Clients = {c1, c2}
  Readers = {r1}
  Modes = {"NORMAL"}
  Answers = {"PENDING", "APPROVED", "APPROVED_WITH_REASON"}
  MaxNodes = 1
  MaxPauses = 2
  Patient = TRUE
INVARIANTS
  ShownApprovalIsPending
CHECK_DEADLOCK FALSE
