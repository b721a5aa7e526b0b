SPECIFICATION Spec
CONSTANTS
  Bar = 95
  NotMeasured = NotMeasured
  Unset = Unset
  NoPacket = NoPacket
  None = None
  Agent = "security"
  LLM = TRUE
  Terms = {"identity", "token", "scope", "expiry", "evidence", "digest"}
  Knowledge <- MCKnowledge
  Packets <- MCPackets
  Stems = {}
  Basis = {"evidence", "digest"}
CHECK_DEADLOCK FALSE
INVARIANT EvidenceOnlyTightens
