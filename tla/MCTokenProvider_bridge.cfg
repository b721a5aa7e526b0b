SPECIFICATION FairSpec
CONSTANTS
  c1 = c1
  c2 = c2
  None = None
  Calls = {c1, c2}
  Forbidden = {c2}
  Skew = 2
  MinTtl = 1
  Lifetimes <- ShortestLifetime
  MaxMint = 1
  MaxPost = 2
  Horizon = 6
  MaxSignOuts = 2
INVARIANTS
  TypeOK
  NoExpiryInFlight
  RetryIsFresher
  OneSignOutIsTransparent
PROPERTIES
  EveryInvocationEnds
CHECK_DEADLOCK FALSE
