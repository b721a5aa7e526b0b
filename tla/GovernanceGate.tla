--------------------------- MODULE GovernanceGate ---------------------------
(* The governance gate of agents/governance_gate.py and the packet check it *)
(* shares with the orchestrator (agents/evidence_gateway.py).               *)
(*                                                                          *)
(* Response text is abstracted to the set of marks the detectors' patterns  *)
(* find in it; a confidence is a percentage; a source list is a set of      *)
(* knowledge keys.  Everything here is a pure operator: the state machine   *)
(* that calls the gate is Companion.tla.                                    *)
EXTENDS Naturals

CONSTANTS
  Bar,           \* CONFIDENCE_FACT_THRESHOLD, in percent
  NotMeasured,   \* a confidence that is None
  Unset,         \* a keyword argument the caller left at None
  NoPacket       \* no evidence packet was supplied

ASSUME BarAssumption == Bar \in 1..100
ASSUME SentinelAssumption ==
  NotMeasured \notin Nat /\ Unset \notin BOOLEAN

----------------------------------------------------------------------------
\* What the patterns of the detectors can find in a response.
\* "fetch_directive" and "fetch_described": how _t11_is_directive judges the
\* first fetch-and-execute match; the detector never looks at a second one.
Marks == {"done_claim", "deploy_command", "sor_write", "secret",
          "fetch_directive", "fetch_described", "egress", "runaway"}

Statuses == {"READY", "INSUFFICIENT_EVIDENCE", "STOP", "LIVE_CHECK_REQUIRED"}

\* The codes whose findings carry Severity.BLOCK; all others are INFO.
BlockCodes ==
  {"T1_DEPLOY_CLAIM", "T3_SOR_WRITE", "T4_UNGROUNDED", "T6_SECRET_LEAK",
   "T11_FETCH_EXECUTE", "EV_INVALID_DIGEST", "EV_REQUEST_MISMATCH",
   "EV_ROUTE_MISMATCH", "EV_NOT_READY"}

InfoCodes == {"T1_DEPLOY_COMMAND", "T11_FETCH_EXECUTE_DESC", "T11_EGRESS",
              "T12_RUNAWAY"}

----------------------------------------------------------------------------
\* The detectors.  Each returns the set of codes it reports.
Reported(code, present) == IF present THEN {code} ELSE {}

DetectTenet1(marks) ==
  Reported("T1_DEPLOY_CLAIM", "done_claim" \in marks)
    \cup Reported("T1_DEPLOY_COMMAND", "deploy_command" \in marks)

DetectTenet3(marks) == Reported("T3_SOR_WRITE", "sor_write" \in marks)

DetectTenet6(marks) == Reported("T6_SECRET_LEAK", "secret" \in marks)

DetectTenet11(marks) ==
  Reported("T11_FETCH_EXECUTE", "fetch_directive" \in marks)
    \cup Reported("T11_FETCH_EXECUTE_DESC", "fetch_described" \in marks)
    \cup Reported("T11_EGRESS", "egress" \in marks)

DetectTenet12(marks) == Reported("T12_RUNAWAY", "runaway" \in marks)

\* Mutant: an answer nobody could score passes.
UnmeasuredPasses(confidence) == confidence # NotMeasured /\ confidence < Bar

\* A confidence that was never measured is below the bar too.
BelowBar(confidence) == confidence = NotMeasured \/ confidence < Bar

DetectTenet4(confidence, zone) ==
  Reported("T4_UNGROUNDED", zone = "exploration" /\ BelowBar(confidence))

----------------------------------------------------------------------------
\* An evidence packet is [request, route, status]: the digest of the request it
\* was built for, the specialists it authorizes and its status.  A digest is
\* modelled by the value it is taken of, so equal digests are equal values.
ToDict(packet) == [body |-> packet, packet_hash |-> packet]

VerifyPacket(dict) == dict.packet_hash = dict.body

\* packet_validity_reason: the first check that fails, "" when none does.
PacketReason(packet, request, specialist) ==
  IF ~ VerifyPacket(ToDict(packet)) THEN "invalid_digest"
  ELSE IF packet.request # request  THEN "request_mismatch"
  ELSE IF specialist \notin packet.route THEN "route_mismatch"
  ELSE IF packet.status # "READY" THEN "not_ready"
  ELSE ""

EvidenceCode ==
  [invalid_digest   |-> "EV_INVALID_DIGEST",
   request_mismatch |-> "EV_REQUEST_MISMATCH",
   route_mismatch   |-> "EV_ROUTE_MISMATCH",
   not_ready        |-> "EV_NOT_READY"]

DetectEvidence(packet, agent, request) ==
  IF packet = NoPacket THEN {}
  ELSE LET reason == PacketReason(packet, request, agent)
       IN  IF reason = "" THEN {} ELSE {EvidenceCode[reason]}

----------------------------------------------------------------------------
\* GovernanceGate.enforce on a call
\*   [marks, agent, request, confidence, used_llm, sources, evidence].
TrustZone(used_llm) == IF used_llm = TRUE THEN "exploration" ELSE "verified"

Findings(call) ==
  DetectTenet1(call.marks) \cup DetectTenet3(call.marks)
    \cup DetectTenet6(call.marks)
    \cup DetectTenet4(call.confidence, TrustZone(call.used_llm))
    \cup DetectTenet11(call.marks) \cup DetectTenet12(call.marks)
    \cup DetectEvidence(call.evidence, call.agent, call.request)

Enforce(call) ==
  [agent      |-> call.agent,
   request    |-> call.request,
   zone       |-> TrustZone(call.used_llm),
   confidence |-> call.confidence,
   sources    |-> IF call.sources = Unset THEN {} ELSE call.sources,
   findings   |-> Findings(call),
   blocked    |-> Findings(call) \cap BlockCodes # {}]

\* gate_output: what the caller left unset is asked of the agent, whose
\* assess_confidence_detail returned measure = [confidence, sources]
\* (confidence = NotMeasured and sources = Unset when it raised).
Resolved(call, llm_available, measure) ==
  LET scored == call.confidence = NotMeasured
  IN  [call EXCEPT
        !.used_llm   = IF @ = Unset THEN llm_available ELSE @,
        !.confidence = IF scored THEN measure.confidence ELSE @,
        !.sources    = IF scored /\ @ = Unset THEN measure.sources ELSE @]

GateOutput(call, llm_available, measure) ==
  Enforce(Resolved(call, llm_available, measure))

\* FeedbackLoop.record_work: the work item is a learning gap.
IsGap(result) ==
  LET grounded == result.sources # {} /\
                  (result.confidence = NotMeasured \/ result.confidence >= Bar)
  IN  ~ (result.blocked \/ grounded)
=============================================================================
