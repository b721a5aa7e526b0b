SPECIFICATION Spec
CONSTANTS
  None = None
  p1 = p1
  p2 = p2
  u1 = u1
  u2 = u2
  Procs = {p1, p2}
  Threads = {u1, u2}
  ProcOf <- TwoProcesses
  Ids = {"a", "b"}
  MaxOps = 4
INVARIANT DecisionsDurable
CHECK_DEADLOCK FALSE
