SPECIFICATION Spec
CONSTANTS
  c1 = c1  c2 = c2
  p1 = p1  p2 = p2  p3 = p3
  r1 = r1  r2 = r2
  t1 = t1  t2 = t2
  Callers = {c1, c2}
  Planes = {p1, p2, p3}
  Runtimes = {r1, r2}
  RuntimeOf <- MCRuntimeOf
  Threads = {t1, t2}
  NoCaller = NoCaller  NoPlane = NoPlane  NoThread = NoThread
  MaxPlans = 1
  MaxPauses = 1
INVARIANTS
  OneDriver
  CheckpointsRestOnSession
  DoneIsRemembered
SYMMETRY MCSymmetry
CHECK_DEADLOCK FALSE
