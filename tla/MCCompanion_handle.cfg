SPECIFICATION FairSpec
CONSTANTS
  Bar = 95
  NotMeasured = NotMeasured
  Unset = Unset
  NoPacket = NoPacket
  None = None
  r1 = r1
  r2 = r2
  h1 = h1
  t1 = t1
  t2 = t2
  Texts = {t1, t2}
  Keys = {"k1"}
  Order <- MCOrder
  Hits <- MCHits
  LLM <- MCLLM
  Scores = {94, 95}
  Requests = {r1, r2}
  Hosts = {h1}
  Configs <- ParsedConfigs
  Packets <- AllPackets
  Contents <- PairedContents
CONSTRAINT Bounded
INVARIANTS
  TypeOK
  EvidenceBeforeDispatch
  AnswersAreFit
  TrailAccounts
PROPERTIES
  ImplementsDelivery
  EveryRequestEnds
