SPECIFICATION Spec
CONSTANTS
  None = None
  Missing = Missing
  Empty = Empty
  Torn = Torn
  c1 = c1
  c2 = c2
  Commands = {c1, c2}
  NSteps = 3
  MaxGens = 2
  MaxRuns = 2
  Faults = TRUE
INVARIANTS
  TypeOK
  ApprovedBeforeExecuted
  OrderedExecution
  DoneIsBacked
  FileTellsAll
PROPERTIES
  ImplementsPlan
CHECK_DEADLOCK FALSE
