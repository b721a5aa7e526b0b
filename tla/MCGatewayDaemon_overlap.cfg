SPECIFICATION Spec
CONSTANTS
  d = d
  w1 = w1
  None = None
  Daemon = d
  Writers = {w1}
  Skew <- WideSkew
  Floor = 2
  MinTtl <- LongerThanTtl
  Ttl <- LeastTtl
  MaxRefresh = 1
  Horizon = 12
INVARIANTS
  TypeOK
  FileKeptFresh
  OthersKept
CHECK_DEADLOCK FALSE
