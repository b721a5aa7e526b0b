SPECIFICATION Spec
CONSTANTS
  NotMeasured = NotMeasured
  Unset = Unset
  NoPacket = NoPacket
  Nothing = Nothing
  Bar = 95
  Calls <- MCCalls
  Ids = {"i", "j"}
  Window = 2
  GroundingBar = 50
  DeclineCeiling = 40
  CoverageBroad = 2
  CoverageGrowing = 1
  MinAnswers = 1
  MaxEvents = 3
  MaxPromoted = 1
  MaxFiles = 2
INVARIANTS
  TypeOK
  MisuseBarsReadiness
  ReadyIsEarned
PROPERTY GrowthNeverDemotes
