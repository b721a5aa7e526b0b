SPECIFICATION FairSpec
CONSTANTS
  None = None
  p1 = p1
  p2 = p2
  u1 = u1
  u2 = u2
  Procs = {p1}
  Threads = {u1, u2}
  ProcOf <- OneProcess
  Ids = {"a", "b"}
  MaxOps = 3
INVARIANTS
  TypeOK
  OneOpenPerId
  EverySignalCounted
  DecisionsDurable
  NeverSilentlyAbsorbed
PROPERTIES
  ImplementsLedger
  EveryOperationEnds
CHECK_DEADLOCK FALSE
