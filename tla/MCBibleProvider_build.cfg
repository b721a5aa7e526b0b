CONSTANTS
  Ids <- SmallIds
  Inside <- SmallInside
  Words <- SmallWords
  Long <- SmallLong
  Paths <- SmallPaths
  MaxClaims = 1
  MaxCited = 2
  Ledgers <- SmallLedgers
  Requests <- SmallRequests
  None = None
SPECIFICATION Spec
INVARIANTS TypeOK ReadyIsProven StopsHold
