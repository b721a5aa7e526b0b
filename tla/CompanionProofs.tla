--------------------------- MODULE CompanionProofs ---------------------------
(* The safety of Companion for any requests, hosts, texts, specialists,      *)
(* contents, scores, configurations and packets.  First the pure parts: the  *)
(* router always finds a specialist, and the gate blocks exactly what is     *)
(* unfit; then an invariant that follows each request through its stages.    *)
EXTENDS Companion, SequenceTheorems, WellFoundedInduction, FiniteSetTheorems, TLAPS

PacketType == [request : Texts, route : SUBSET Agents, status : Statuses]

\* An assignment of "what beats i" on a finite set leaves someone unbeaten.
LEMMA Unbeaten ==
  ASSUME NEW D, IsFiniteSet(D), D # {}, NEW B \in [D -> SUBSET D],
         \A i \in D : i \notin B[i],
         \A i, j \in D : j \in B[i] => B[j] \subseteq B[i]
  PROVE  \E i \in D : B[i] = {}
<1> DEFINE R == StrictSubsetOrdering(D)
           S == FiniteSubsetsOf(D)
           T == {B[i] : i \in D}
<1>1. IsWellFoundedOn(R, S)
  BY FS_StrictSubsetOrderingWellFounded
<1>2. T \subseteq S /\ T # {}
  BY FS_Subset DEF FiniteSubsetsOf
<1> HIDE DEF R, S, T
<1>3. \E x \in T : \A y \in T : ~ (<<y, x>> \in R)
  BY <1>1, <1>2, WFMin
<1>4. PICK i \in D : \A j \in D : ~ (<<B[j], B[i]>> \in R)
  BY <1>3 DEF T
<1>5. \A j \in D : B[j] \subseteq B[i] => B[j] = B[i]
  BY <1>4 DEF R, StrictSubsetOrdering
<1> QED
  BY <1>5

\* route: some specialist beats or ties with every other, so one is chosen.
LEMMA RouteIsTotal == ASSUME NEW t \in Texts PROVE Route(t) \in Agents
<1> DEFINE D == DOMAIN Order
           hits(i) == Hits[t][Order[i]]
           beats == [i \in D |-> {j \in D : hits(j) > hits(i)}]
           top == {i \in D : \A j \in D : hits(j) <= hits(i)}
           before == [i \in top |-> {j \in top : j < i}]
<1>1. D = 1..Len(Order) /\ Len(Order) \in Nat /\ D # {}
  <2>1. Order \in Seq(Agents) /\ Order # <<>>
    BY CompanionAssumption
  <2>2. D = 1..Len(Order) /\ Len(Order) \in Nat \ {0}
    BY <2>1, EmptySeq, LenProperties
  <2> QED
    BY <2>2
<1>2. \A i \in D : hits(i) \in Nat /\ Order[i] \in Agents
  BY CompanionAssumption DEF Agents
<1>3. IsFiniteSet(D)
  BY <1>1, FS_Interval
<1>4. top # {}
  <2>1. /\ beats \in [D -> SUBSET D]
        /\ \A i \in D : i \notin beats[i]
        /\ \A i, j \in D : j \in beats[i] => beats[j] \subseteq beats[i]
    BY <1>2
  <2> HIDE DEF D, hits
  <2>2. PICK i \in D : beats[i] = {}
    <3> HIDE DEF beats
    <3> QED
      BY <1>1, <1>3, <2>1, Unbeaten
  <2> QED
    BY <1>2, <2>2
<1>5. \E i \in top : \A j \in top : i <= j
  <2>1. IsFiniteSet(top) /\ top \subseteq Nat
    BY <1>1, <1>3, FS_Subset
  <2> HIDE DEF top
  <2>2. /\ before \in [top -> SUBSET top]
        /\ \A i \in top : before[i] = {j \in top : j < i}
    OBVIOUS
  <2>3. /\ \A i \in top : i \notin before[i]
        /\ \A i, j \in top : j \in before[i] => before[j] \subseteq before[i]
    <3>1. \A i, j, k \in top : k < j /\ j < i => k < i
      BY <2>1
    <3>2. \A i \in top : ~ (i < i)
      BY <2>1
    <3> HIDE DEF before
    <3> QED
      BY <2>2, <3>1, <3>2
  <2> HIDE DEF before
  <2>4. PICK i \in top : before[i] = {}
    BY <1>4, <2>1, <2>2, <2>3, Unbeaten
  <2>5. \A j \in top : ~ (j < i) /\ j \in Nat /\ i \in Nat
    BY <2>1, <2>2, <2>4
  <2> QED
    BY <2>4, <2>5
<1>6. Route(t) = Order[CHOOSE i \in top : \A j \in top : i <= j]
  BY DEF Route
<1> QED
  BY <1>2, <1>5, <1>6

----------------------------------------------------------------------------
\* Which findings of each detector block.
LEMMA DetectorsBlock ==
  /\ \A m : DetectTenet1(m) \cap BlockCodes # {} <=> "done_claim" \in m
  /\ \A m : DetectTenet3(m) \cap BlockCodes # {} <=> "sor_write" \in m
  /\ \A m : DetectTenet6(m) \cap BlockCodes # {} <=> "secret" \in m
  /\ \A m : DetectTenet11(m) \cap BlockCodes # {} <=> "fetch_directive" \in m
  /\ \A m : DetectTenet12(m) \cap BlockCodes = {}
  /\ \A c, z : DetectTenet4(c, z) \cap BlockCodes # {}
                 <=> z = "exploration" /\ BelowBar(c)
BY DEF DetectTenet1, DetectTenet3, DetectTenet6, DetectTenet11, DetectTenet12,
       DetectTenet4, Reported, BlockCodes

\* A packet proves a request for a specialist.
Proves(p, t, a) == p.request = t /\ a \in p.route /\ p.status = "READY"

\* packet_validity_reason finds nothing wrong exactly with a proving packet.
LEMMA PacketReasonIsEmpty ==
  ASSUME NEW p, NEW t, NEW a
  PROVE  PacketReason(p, t, a) = "" <=> Proves(p, t, a)
BY DEF PacketReason, VerifyPacket, ToDict, Proves

\* The gate's own look at the packet blocks exactly when it proves nothing.
LEMMA EvidenceBlocks ==
  ASSUME NEW p, NEW t, NEW a
  PROVE  DetectEvidence(p, a, t) \cap BlockCodes # {}
           <=> p # NoPacket /\ ~ Proves(p, t, a)
<1>1. PacketReason(p, t, a) \in
        {"", "invalid_digest", "request_mismatch", "route_mismatch", "not_ready"}
  BY DEF PacketReason
<1>2. \A reason \in {"invalid_digest", "request_mismatch", "route_mismatch", "not_ready"} :
        EvidenceCode[reason] \in BlockCodes
  BY DEF EvidenceCode, BlockCodes
<1> QED
  BY <1>1, <1>2, PacketReasonIsEmpty DEF DetectEvidence

\* The gate blocks a call exactly when a mark, the confidence or the packet does.
LEMMA EnforceBlocks ==
  ASSUME NEW call
  PROVE  Enforce(call).blocked <=>
           \/ call.marks \cap BlockingMarks # {}
           \/ TrustZone(call.used_llm) = "exploration" /\ BelowBar(call.confidence)
           \/ call.evidence # NoPacket /\ ~ Proves(call.evidence, call.request, call.agent)
<1> DEFINE Blocks(S) == S \cap BlockCodes # {}
           m == call.marks
           z == TrustZone(call.used_llm)
<1>1. Enforce(call).blocked <=>
        \/ Blocks(DetectTenet1(m)) \/ Blocks(DetectTenet3(m)) \/ Blocks(DetectTenet6(m))
        \/ Blocks(DetectTenet4(call.confidence, z))
        \/ Blocks(DetectTenet11(m)) \/ Blocks(DetectTenet12(m))
        \/ Blocks(DetectEvidence(call.evidence, call.agent, call.request))
  BY DEF Enforce, Findings
<1>2. call.marks \cap BlockingMarks # {} <=>
        "done_claim" \in m \/ "sor_write" \in m \/ "secret" \in m
          \/ "fetch_directive" \in m
  BY DEF BlockingMarks
<1> QED
  BY <1>1, <1>2, DetectorsBlock, EvidenceBlocks

\* gate_output on a specialist's answer, at the end of handle.
LEMMA AnswerBlocks ==
  ASSUME NEW marks, NEW a, NEW t, NEW p, NEW l \in BOOLEAN, NEW m
  PROVE  GateOutput(AnswerCall(marks, a, t, p), l, m).blocked <=>
           \/ marks \cap BlockingMarks # {}
           \/ l /\ BelowBar(m.confidence)
           \/ p # NoPacket /\ ~ Proves(p, t, a)
<1> DEFINE call == Resolved(AnswerCall(marks, a, t, p), l, m)
<1>1. GateOutput(AnswerCall(marks, a, t, p), l, m) = Enforce(call)
  BY DEF GateOutput
<1>2. /\ call.marks = marks /\ call.agent = a /\ call.request = t
      /\ call.confidence = m.confidence /\ call.used_llm = l /\ call.evidence = p
  BY DEF Resolved, AnswerCall
<1>3. TrustZone(l) = "exploration" <=> l
  BY DEF TrustZone
<1> HIDE DEF call
<1> QED
  BY <1>1, <1>2, <1>3, EnforceBlocks

\* The detectors report known codes only.
LEMMA FindingCodes ==
  ASSUME NEW call PROVE Findings(call) \subseteq BlockCodes \cup InfoCodes
<1>1. \A m : DetectTenet1(m) \cup DetectTenet3(m) \cup DetectTenet6(m)
               \cup DetectTenet11(m) \cup DetectTenet12(m)
             \subseteq BlockCodes \cup InfoCodes
  BY DEF DetectTenet1, DetectTenet3, DetectTenet6, DetectTenet11, DetectTenet12,
         Reported, BlockCodes, InfoCodes
<1>2. \A c, z : DetectTenet4(c, z) \subseteq BlockCodes
  BY DEF DetectTenet4, Reported, BlockCodes
<1>3. ASSUME NEW p, NEW a, NEW t PROVE DetectEvidence(p, a, t) \subseteq BlockCodes
  <2>1. PacketReason(p, t, a) \in
          {"", "invalid_digest", "request_mismatch", "route_mismatch", "not_ready"}
    BY DEF PacketReason
  <2>2. \A reason \in {"invalid_digest", "request_mismatch", "route_mismatch", "not_ready"} :
          EvidenceCode[reason] \in BlockCodes
    BY DEF EvidenceCode, BlockCodes
  <2> QED
    BY <2>1, <2>2 DEF DetectEvidence
<1> QED
  BY <1>1, <1>2, <1>3 DEF Findings

\* Every verdict is a GateResult.
LEMMA EnforceType ==
  ASSUME NEW call, call.agent \in Agents, call.request \in Texts,
         call.confidence \in 0..100 \cup {NotMeasured},
         call.sources \in (SUBSET Keys) \cup {Unset}
  PROVE  Enforce(call) \in Results
<1>1. TrustZone(call.used_llm) \in {"exploration", "verified"}
  BY DEF TrustZone
<1>2. Findings(call) \subseteq BlockCodes \cup InfoCodes
  BY FindingCodes
<1> DEFINE blocked == Findings(call) \cap BlockCodes # {}
           sources == IF call.sources = Unset THEN {} ELSE call.sources
<1>3. blocked \in BOOLEAN /\ sources \in SUBSET Keys
  OBVIOUS
<1>4. Enforce(call) =
        [agent |-> call.agent, request |-> call.request,
         zone |-> TrustZone(call.used_llm), confidence |-> call.confidence,
         sources |-> sources, findings |-> Findings(call), blocked |-> blocked]
  BY DEF Enforce
<1> HIDE DEF blocked, sources
<1> QED
  BY <1>1, <1>2, <1>3, <1>4 DEF Results

\* assess_confidence_detail returns a percentage or nothing, and known keys.
LEMMA MeasureType ==
  ASSUME NEW m \in Measures
  PROVE  /\ m.confidence \in 0..100 \cup {NotMeasured}
         /\ m.sources \in (SUBSET Keys) \cup {Unset}
<1>1. \A c \in Scores : c \in 0..100
  BY CompanionAssumption
<1>2. 50 \in 0..100
  OBVIOUS
<1> QED
  BY <1>1, <1>2 DEF Measures

\* The gate's verdict on a specialist's answer is a GateResult.
LEMMA AnswerType ==
  ASSUME NEW marks, NEW a \in Agents, NEW t \in Texts, NEW p, NEW l \in BOOLEAN,
         NEW m \in Measures
  PROVE  GateOutput(AnswerCall(marks, a, t, p), l, m) \in Results
<1> DEFINE call == Resolved(AnswerCall(marks, a, t, p), l, m)
<1>1. GateOutput(AnswerCall(marks, a, t, p), l, m) = Enforce(call)
  BY DEF GateOutput
<1>2. /\ call.agent = a /\ call.request = t
      /\ call.confidence = m.confidence /\ call.sources = m.sources
  BY DEF Resolved, AnswerCall
<1> HIDE DEF call
<1> QED
  BY <1>1, <1>2, MeasureType, EnforceType

\* The gate's verdict on the orchestrator's block text is a GateResult too.
LEMMA RefusalType ==
  ASSUME NEW a \in Agents, NEW t \in Texts, NEW l
  PROVE  GateOutput(RefusalCall(a, t), l,
                    [confidence |-> NotMeasured, sources |-> Unset]) \in Results
<1> DEFINE call == Resolved(RefusalCall(a, t), l,
                            [confidence |-> NotMeasured, sources |-> Unset])
<1>1. /\ call.agent = a /\ call.request = t
      /\ call.confidence \in {100, NotMeasured} /\ call.sources = Unset
  BY DEF Resolved, RefusalCall
<1> HIDE DEF call
<1>2. Enforce(call) \in Results
  BY <1>1, EnforceType
<1> QED
  BY <1>2 DEF GateOutput, call

----------------------------------------------------------------------------
\* The specialist may be handed r's text: no packet is asked for, or one proves it.
Cleared(r) == packet[r] = NoPacket \/ Proves(packet[r], text[r], agent(r))

Gated == {"gated", "audited", "recorded", "delivered"}

\* How far r came says which of its variables have a value, and what they hold.
Stage(r) ==
  /\ pc[r] # "idle" => host[r] \in Hosts /\ text[r] \in Texts
  /\ pc[r] \in Running => orch[host[r]] # None
  /\ pc[r] \in {"idle", "received", "refused", "dispatched"} => raw[r] = None
  /\ pc[r] \in {"idle", "received", "refused", "dispatched", "answered"}
       => measure[r] = None /\ verdict[r] = None
  /\ pc[r] \in Gated => verdict[r] \in Results
  /\ pc[r] = "dispatched" \/ raw[r] # None => Cleared(r)
  /\ pc[r] \in Running \ {"received"} /\ orch[host[r]] # "disabled"
       => packet[r] # NoPacket
  /\ pc[r] = "answered" => raw[r] # None
  /\ pc[r] \in Gated /\ raw[r] # None => measure[r] # None
  /\ measure[r] # None =>
       /\ measure[r] \in Measures /\ raw[r] # None
       /\ verdict[r] = GateOutput(AnswerCall(raw[r], agent(r), text[r], packet[r]),
                                  LLM[agent(r)], measure[r])
  /\ out[r] # "none" =>
       /\ pc[r] = "delivered"
       /\ out[r] = "answer" <=> ~ verdict[r].blocked /\ raw[r] # None

IInv == TypeOK /\ \A r \in Requests : Stage(r)

----------------------------------------------------------------------------
\* A request that has a text is routed to a specialist.
LEMMA AgentType ==
  ASSUME IInv, NEW r \in Requests, pc[r] # "idle"
  PROVE  agent(r) \in Agents /\ text[r] \in Texts /\ host[r] \in Hosts
BY RouteIsTotal DEF IInv, Stage, agent

\* build_evidence_packet hands back a packet or none.
LEMMA BuiltPacketType ==
  ASSUME NEW provider \in Providers, NEW t \in Texts, NEW a \in Agents,
         NEW p \in BuildEvidencePacket(provider, t, a)
  PROVE  /\ p \in PacketType \cup {NoPacket}
         /\ provider # "disabled" => p # NoPacket
<1>1. Blocking(t, a) \in PacketType
  BY DEF Blocking, PacketType, Statuses
<1>2. Packets \subseteq PacketType /\ NoPacket \notin PacketType
  BY CompanionAssumption DEF PacketType
<1> QED
  BY <1>1, <1>2 DEF BuildEvidencePacket, Providers

\* Type correctness of every step.
LEMMA TypeStep == ASSUME IInv, [Next]_vars PROVE TypeOK'
<1>0. TypeOK
  BY DEF IInv
<1>1. CASE UNCHANGED vars
  BY <1>0, <1>1 DEF vars, TypeOK
<1>2. CASE Reconfigure
  BY <1>0, <1>2 DEF Reconfigure, handlerVars, recordVars, TypeOK
<1>3. ASSUME NEW h \in Hosts, Boot(h) PROVE TypeOK'
  <2>1. GetEvidenceProvider(LoadConfig(config)) \in Providers
    BY DEF GetEvidenceProvider, Providers
  <2> QED
    BY <1>0, <1>3, <2>1 DEF Boot, handlerVars, recordVars, TypeOK
<1>4. ASSUME NEW h \in Hosts, Stop(h) PROVE TypeOK'
  BY <1>0, <1>4 DEF Stop, recordVars, Ended, TypeOK
<1>5. ASSUME NEW r \in Requests, NEW h \in Hosts, NEW t \in Texts, Receive(r, h, t)
      PROVE  TypeOK'
  BY <1>0, <1>5 DEF Receive, recordVars, Running, TypeOK
<1>6. ASSUME NEW r \in Requests, BuildEvidence(r) PROVE TypeOK'
  <2>1. PICK p \in BuildEvidencePacket(orch[host[r]], text[r], agent(r)) :
          packet' = [packet EXCEPT ![r] = p]
    BY <1>6 DEF BuildEvidence
  <2>2. orch[host[r]] \in Providers
    <3>1. host[r] \in Hosts /\ orch[host[r]] # None
      BY <1>6 DEF BuildEvidence, IInv, Stage, Running
    <3>2. orch \in [Hosts -> Providers \cup {None}]
      BY <1>0 DEF TypeOK
    <3> QED
      BY <3>1, <3>2
  <2>3. p \in PacketType \cup {NoPacket}
    BY <1>6, <2>1, <2>2, AgentType, BuiltPacketType DEF BuildEvidence
  <2>4. packet' \in [Requests -> PacketType \cup {NoPacket, None}]
    BY <1>0, <2>1, <2>3 DEF TypeOK, PacketType
  <2>5. pc' \in [Requests -> {"idle"} \cup Running \cup Ended]
    BY <1>0, <1>6 DEF BuildEvidence, Running, TypeOK
  <2>6. UNCHANGED <<config, orch, host, text, raw, measure, verdict, out,
                    trail, torn, unaudited, gaps>>
    BY <1>6 DEF BuildEvidence, recordVars
  <2> QED
    BY <1>0, <2>4, <2>5, <2>6 DEF TypeOK, PacketType
<1>7. ASSUME NEW r \in Requests, HandleRequest(r) PROVE TypeOK'
  BY <1>0, <1>7 DEF HandleRequest, recordVars, Running, Ended, TypeOK
<1>8. ASSUME NEW r \in Requests, GateAnswer(r) PROVE TypeOK'
  <2>1. PICK m \in Measures :
          /\ measure' = [measure EXCEPT ![r] = m]
          /\ verdict' = [verdict EXCEPT ![r] =
               GateOutput(AnswerCall(raw[r], agent(r), text[r], packet[r]),
                          LLM[agent(r)], m)]
    BY <1>8 DEF GateAnswer
  <2>2. GateOutput(AnswerCall(raw[r], agent(r), text[r], packet[r]),
                   LLM[agent(r)], m) \in Results
    BY <1>8, AgentType, AnswerType, CompanionAssumption DEF GateAnswer
  <2>3. /\ measure' \in [Requests -> Measures \cup {None}]
        /\ verdict' \in [Requests -> Results \cup {None}]
    BY <1>0, <2>1, <2>2 DEF TypeOK
  <2> QED
    BY <1>0, <1>8, <2>3 DEF GateAnswer, recordVars, Running, TypeOK
<1>9. ASSUME NEW r \in Requests, GateRefusal(r) PROVE TypeOK'
  <2> DEFINE v == GateOutput(RefusalCall(agent(r), text[r]), LLM[agent(r)],
                             [confidence |-> NotMeasured, sources |-> Unset])
  <2>1. verdict' = [verdict EXCEPT ![r] = v]
    BY <1>9 DEF GateRefusal
  <2>2. v \in Results
    BY <1>9, AgentType, RefusalType DEF GateRefusal
  <2> HIDE DEF v
  <2>3. verdict' \in [Requests -> Results \cup {None}]
    BY <1>0, <2>1, <2>2 DEF TypeOK
  <2> QED
    BY <1>0, <1>9, <2>3 DEF GateRefusal, recordVars, Running, TypeOK
<1>10. ASSUME NEW r \in Requests, RecordGate(r) PROVE TypeOK'
  <2>1. verdict[r] \in Results
    BY <1>10 DEF RecordGate, IInv, Stage, Gated
  <2> DEFINE event == [id |-> r, gate |-> verdict[r]]
             Events == [id : Requests, gate : Results]
  <2>2. event \in Events
    BY <2>1
  <2>3. trail' \in {trail, Append(trail, event)} /\ trail \in Seq(Events)
    BY <1>0, <1>10 DEF RecordGate, TypeOK
  <2>4. trail' \in Seq(Events)
    <3> HIDE DEF event, Events
    <3> QED
      BY <2>2, <2>3, AppendProperties
  <2> QED
    BY <1>0, <1>10, <2>4 DEF RecordGate, Running, TypeOK
<1>11. ASSUME NEW r \in Requests, RecordWork(r) PROVE TypeOK'
  <2>1. gaps' \subseteq Requests
    BY <1>0, <1>11 DEF RecordWork, TypeOK
  <2> QED
    BY <1>0, <1>11, <2>1 DEF RecordWork, Running, TypeOK
<1>12. ASSUME NEW r \in Requests, Respond(r) PROVE TypeOK'
  BY <1>0, <1>12 DEF Respond, recordVars, Ended, TypeOK
<1> QED
  BY <1>1, <1>2, <1>3, <1>4, <1>5, <1>6, <1>7, <1>8, <1>9, <1>10, <1>11, <1>12
     DEF Next, HandlerStep

----------------------------------------------------------------------------
\* The stages: a request advances through its own handler's steps, and the others
\* touch it only by stopping its host.
LEMMA StageStep ==
  ASSUME IInv, [Next]_vars, NEW q \in Requests PROVE Stage(q)'
<1>0. TypeOK /\ Stage(q)
  BY DEF IInv
<1> DEFINE Same == /\ host'[q] = host[q] /\ text'[q] = text[q]
                   /\ packet'[q] = packet[q] /\ raw'[q] = raw[q]
                   /\ measure'[q] = measure[q] /\ verdict'[q] = verdict[q]
                   /\ out'[q] = out[q]
<1>1. ASSUME Same, orch' = orch, pc'[q] = pc[q] PROVE Stage(q)'
  BY <1>0, <1>1 DEF Stage, Cleared, agent
<1>2. CASE UNCHANGED vars
  BY <1>1, <1>2 DEF vars
<1>3. CASE Reconfigure
  BY <1>1, <1>3 DEF Reconfigure, handlerVars
<1>4. ASSUME NEW h \in Hosts, Boot(h) PROVE Stage(q)'
  <2>1. Same /\ pc'[q] = pc[q]
    BY <1>4 DEF Boot, handlerVars
  <2>2. pc[q] \in Running => orch'[host[q]] = orch[host[q]]
    BY <1>0, <1>4 DEF Boot, Stage, TypeOK, Running
  <2> QED
    BY <1>0, <2>1, <2>2 DEF Stage, Cleared, agent, Running
<1>5. ASSUME NEW h \in Hosts, Stop(h) PROVE Stage(q)'
  <2>1. Same
    BY <1>5 DEF Stop
  <2>2. CASE host[q] = h /\ pc[q] \in Running
    <3>1. pc'[q] = "lost"
      BY <1>5, <2>2 DEF Stop
    <3> QED
      BY <1>0, <2>1, <2>2, <3>1 DEF Stage, Cleared, agent, Running, Gated
  <2>3. CASE ~ (host[q] = h /\ pc[q] \in Running)
    <3>1. pc'[q] = pc[q]
      BY <1>5, <2>3 DEF Stop
    <3>2. pc[q] \in Running => orch'[host[q]] = orch[host[q]]
      BY <1>0, <1>5, <2>3 DEF Stop, TypeOK
    <3> QED
      BY <1>0, <2>1, <3>1, <3>2 DEF Stage, Cleared, agent, Running
  <2> QED
    BY <2>2, <2>3
<1>6. ASSUME NEW r \in Requests, r # q,
             HandlerStep(r) \/ \E h \in Hosts, t \in Texts : Receive(r, h, t)
      PROVE  Stage(q)'
  <2>1. Same /\ orch' = orch /\ pc'[q] = pc[q]
    BY <1>0, <1>6 DEF HandlerStep, Receive, BuildEvidence, HandleRequest, GateAnswer,
         GateRefusal, RecordGate, RecordWork, Respond, TypeOK
  <2> QED
    BY <1>1, <2>1
<1>7. ASSUME NEW h \in Hosts, NEW t \in Texts, Receive(q, h, t) PROVE Stage(q)'
  BY <1>0, <1>7, CompanionAssumption
     DEF Receive, Stage, Cleared, Running, Gated, TypeOK
<1>8. CASE BuildEvidence(q)
  <2>1. PICK p \in BuildEvidencePacket(orch[host[q]], text[q], agent(q)) :
          /\ packet' = [packet EXCEPT ![q] = p]
          /\ pc' = [pc EXCEPT ![q] =
               IF p # NoPacket /\ PacketReason(p, text[q], agent(q)) # ""
               THEN "refused" ELSE "dispatched"]
    BY <1>8 DEF BuildEvidence
  <2>2. pc[q] = "received" /\ UNCHANGED <<orch, host, text, raw, measure, verdict, out>>
    BY <1>8 DEF BuildEvidence
  <2>3. orch[host[q]] \in Providers
    BY <1>0, <2>2 DEF Stage, Running, TypeOK
  <2>4. orch[host[q]] # "disabled" => p # NoPacket
    BY <2>2, <2>3, AgentType, BuiltPacketType
  <2>5. /\ packet'[q] = p
        /\ \/ pc'[q] = "refused"
           \/ pc'[q] = "dispatched" /\ (p = NoPacket \/ Proves(p, text[q], agent(q)))
    BY <1>0, <2>1, PacketReasonIsEmpty DEF TypeOK
  <2> QED
    BY <1>0, <2>2, <2>4, <2>5 DEF Stage, Cleared, agent, Running, Gated
<1>9. CASE HandleRequest(q)
  <2>1. pc[q] = "dispatched"
        /\ UNCHANGED <<orch, host, text, packet, measure, verdict, out>>
    BY <1>9 DEF HandleRequest
  <2>2. \/ pc'[q] = "answered" /\ raw'[q] # None
        \/ pc'[q] = "raised" /\ raw'[q] = raw[q]
    BY <1>0, <1>9, CompanionAssumption DEF HandleRequest, TypeOK
  <2> QED
    BY <1>0, <2>1, <2>2 DEF Stage, Cleared, agent, Running, Gated
<1>10. CASE GateAnswer(q)
  <2>1. PICK m \in Measures :
          /\ measure' = [measure EXCEPT ![q] = m]
          /\ verdict' = [verdict EXCEPT ![q] =
               GateOutput(AnswerCall(raw[q], agent(q), text[q], packet[q]),
                          LLM[agent(q)], m)]
    BY <1>10 DEF GateAnswer
  <2>2. pc[q] = "answered" /\ pc' = [pc EXCEPT ![q] = "gated"]
        /\ UNCHANGED <<orch, host, text, packet, raw, out>>
    BY <1>10 DEF GateAnswer
  <2>3. /\ pc'[q] = "gated" /\ measure'[q] = m
        /\ verdict'[q] = GateOutput(AnswerCall(raw[q], agent(q), text[q], packet[q]),
                                    LLM[agent(q)], m)
    BY <1>0, <2>1, <2>2 DEF TypeOK
  <2>4. m # None /\ verdict'[q] \in Results
    BY <2>2, <2>3, AgentType, AnswerType, CompanionAssumption, NoneAssumption
  <2> QED
    BY <1>0, <2>2, <2>3, <2>4 DEF Stage, Cleared, agent, Running, Gated
<1>11. CASE GateRefusal(q)
  <2>1. pc[q] = "refused" /\ pc' = [pc EXCEPT ![q] = "gated"]
        /\ UNCHANGED <<orch, host, text, packet, raw, measure, out>>
    BY <1>11 DEF GateRefusal
  <2>2. pc'[q] = "gated"
    BY <1>0, <2>1 DEF TypeOK
  <2>3. verdict'[q] \in Results
    BY <1>0, <1>11, <2>1, AgentType, RefusalType DEF GateRefusal, TypeOK
  <2> QED
    BY <1>0, <2>1, <2>2, <2>3 DEF Stage, Cleared, agent, Running, Gated
<1>12. ASSUME pc[q] \in Gated \ {"delivered"}, pc'[q] \in Gated \ {"delivered"},
              orch' = orch, Same
       PROVE  Stage(q)'
  BY <1>0, <1>12 DEF Stage, Cleared, agent, Running, Gated
<1>13. CASE RecordGate(q)
  BY <1>0, <1>12, <1>13 DEF RecordGate, Gated, TypeOK
<1>14. CASE RecordWork(q)
  BY <1>0, <1>12, <1>14 DEF RecordWork, Gated, TypeOK
<1>15. CASE Respond(q)
  <2>1. /\ pc[q] = "recorded" /\ pc'[q] = "delivered"
        /\ UNCHANGED <<orch, host, text, packet, raw, measure, verdict>>
        /\ out'[q] = IF verdict[q].blocked \/ raw[q] = None
                     THEN "withheld" ELSE "answer"
    BY <1>0, <1>15 DEF Respond, TypeOK
  <2> QED
    BY <1>0, <2>1 DEF Stage, Cleared, agent, Running, Gated
<1> QED
  BY <1>2, <1>3, <1>4, <1>5, <1>6, <1>7, <1>8, <1>9, <1>10, <1>11, <1>13, <1>14, <1>15
     DEF Next, HandlerStep

\* The invariant holds before any host starts.
LEMMA InitInv == ASSUME Init PROVE IInv
<1>1. TypeOK
  BY EmptySeq DEF Init, TypeOK
<1>2. ASSUME NEW r \in Requests PROVE Stage(r)
  BY DEF Init, Stage, Running, Gated
<1> QED
  BY <1>1, <1>2 DEF IInv

\* The inductive invariant.
THEOREM Invariance == Spec => []IInv
<1>1. IInv /\ [Next]_vars => IInv'
  BY TypeStep, StageStep DEF IInv
<1> QED
  BY InitInv, <1>1, PTL DEF Spec

----------------------------------------------------------------------------
\* Type correctness, for any requests, hosts, specialists and configurations.
THEOREM TypeCorrect == Spec => []TypeOK
BY Invariance, PTL DEF IInv

\* No specialist runs on a request before a packet proves it, where a provider was
\* configured, reachable or not (handle's pre-dispatch check).
THEOREM EvidenceFirst == Spec => []EvidenceBeforeDispatch
<1>1. ASSUME IInv PROVE EvidenceBeforeDispatch
  <2> SUFFICES ASSUME NEW r \in Requests, pc[r] \in Running,
                      pc[r] = "dispatched" \/ raw[r] # None,
                      orch[host[r]] # "disabled"
               PROVE  Proven(r)
    BY DEF EvidenceBeforeDispatch
  <2>1. Stage(r)
    BY <1>1 DEF IInv
  <2>2. pc[r] # "received" /\ Cleared(r)
    BY <2>1 DEF Stage
  <2>3. packet[r] # NoPacket
    BY <2>1, <2>2 DEF Stage
  <2> QED
    BY <2>2, <2>3 DEF Cleared, Proven, Proves
<1> QED
  BY <1>1, Invariance, PTL

\* What the gate lets through is fit, and nothing else is.
LEMMA UnblockedIsFit ==
  ASSUME IInv, NEW r \in Requests, pc[r] \in Gated
  PROVE  Fit(r) <=> ~ verdict[r].blocked /\ raw[r] # None
<1>1. Stage(r) /\ pc[r] # "idle"
  BY DEF IInv, Gated
<1>2. CASE raw[r] = None
  BY <1>2 DEF Fit
<1>3. CASE raw[r] # None
  <2>1. measure[r] \in Measures /\ Cleared(r)
        /\ verdict[r] = GateOutput(AnswerCall(raw[r], agent(r), text[r], packet[r]),
                                   LLM[agent(r)], measure[r])
    BY <1>1, <1>3 DEF Stage, Gated
  <2>2. LLM[agent(r)] \in BOOLEAN
    BY <1>1, AgentType, CompanionAssumption
  <2>3. verdict[r].blocked <=> \/ raw[r] \cap BlockingMarks # {}
                               \/ LLM[agent(r)] /\ BelowBar(measure[r].confidence)
    BY <2>1, <2>2, AnswerBlocks DEF Cleared
  <2>4. ~ BelowBar(measure[r].confidence) <=>
          measure[r].confidence # NotMeasured /\ measure[r].confidence >= Bar
    <3>1. measure[r] \in Measures
      BY <2>1
    <3>2. measure[r].confidence \in 0..100 \cup {NotMeasured}
      BY <3>1, MeasureType
    <3>3. \A c \in 0..100 : ~ (c < Bar) <=> c >= Bar
      BY BarAssumption
    <3> QED
      BY <3>2, <3>3 DEF BelowBar
  <2> QED
    BY <1>3, <2>1, <2>3, <2>4 DEF Fit, Cleared, Proven, Proves
<1> QED
  BY <1>2, <1>3

\* What is answered is fit and what is withheld is not.
THEOREM FitOrWithheld == Spec => []AnswersAreFit
<1>1. ASSUME IInv PROVE AnswersAreFit
  <2> SUFFICES ASSUME NEW r \in Requests, out[r] \in {"answer", "withheld"}
               PROVE  out[r] = "answer" <=> Fit(r)
    BY DEF AnswersAreFit
  <2>1. Stage(r)
    BY <1>1 DEF IInv
  <2>2. pc[r] = "delivered" /\ (out[r] = "answer" <=> ~ verdict[r].blocked /\ raw[r] # None)
    BY <2>1 DEF Stage
  <2> QED
    BY <1>1, <2>2, UnblockedIsFit DEF Gated
<1> QED
  BY <1>1, Invariance, PTL

----------------------------------------------------------------------------
\* The records.  How far a request came says which of them it can be in.
Audited == {"audited", "recorded", "delivered"}
Recorded == {"recorded", "delivered"}

\* What BuildEvidence does to the variables other than packet.
LEMMA BuildFrame ==
  ASSUME NEW r, BuildEvidence(r)
  PROVE  /\ pc[r] = "received"
         /\ \/ pc' = [pc EXCEPT ![r] = "refused"]
            \/ pc' = [pc EXCEPT ![r] = "dispatched"]
         /\ UNCHANGED <<config, orch, host, text, raw, measure, verdict, out,
                        trail, torn, unaudited, gaps>>
BY Zenon DEF BuildEvidence, recordVars

\* Only their own actions touch the two records.
LEMMA OnlyRecordsWrite ==
  ASSUME [Next]_vars
  PROVE  /\ UNCHANGED <<trail, unaudited>> \/ \E r \in Requests : RecordGate(r)
         /\ gaps' = gaps \/ \E r \in Requests : RecordWork(r)
BY BuildFrame DEF Next, vars, HandlerStep, Reconfigure, Boot, Stop, Receive,
   HandleRequest, GateAnswer, GateRefusal, RecordGate, RecordWork, Respond,
   handlerVars, recordVars

\* What is judged keeps its text and its verdict, nobody passes a record by, and
\* what is past a record stays past it.
LEMMA RecordSteps ==
  ASSUME IInv, [Next]_vars, NEW q \in Requests
  PROVE  /\ pc[q] \in Gated \cup {"lost"} => text'[q] = text[q] /\ verdict'[q] = verdict[q]
         /\ pc[q] \in Audited \cup {"lost"} => pc'[q] \in Audited \cup {"lost"}
         /\ pc[q] \in Recorded \cup {"lost"} => pc'[q] \in Recorded \cup {"lost"}
         /\ pc'[q] \in Audited => pc[q] \in Audited \/ RecordGate(q)
         /\ pc'[q] \in Recorded => pc[q] \in Recorded \/ RecordWork(q)
<1>0. TypeOK
  BY DEF IInv
<1> USE DEF Gated, Audited, Recorded
<1>2. CASE \/ UNCHANGED vars \/ Reconfigure \/ \E h \in Hosts : Boot(h)
           \/ \E r \in Requests \ {q} :
                HandlerStep(r) \/ \E h \in Hosts, t \in Texts : Receive(r, h, t)
  <2> DEFINE Same == pc'[q] = pc[q] /\ text'[q] = text[q] /\ verdict'[q] = verdict[q]
  <2>1. ASSUME UNCHANGED vars \/ Reconfigure \/ \E h \in Hosts : Boot(h) PROVE Same
    BY <2>1 DEF vars, Reconfigure, Boot, handlerVars
  <2>2. ASSUME NEW r \in Requests, r # q, HandlerStep(r) PROVE Same
    <3>1. CASE BuildEvidence(r) \/ HandleRequest(r)
      BY <1>0, <2>2, <3>1, BuildFrame DEF HandleRequest, TypeOK
    <3>2. CASE GateAnswer(r) \/ GateRefusal(r)
      <4>1. /\ pc' = [pc EXCEPT ![r] = "gated"] /\ text' = text
            /\ \E v : verdict' = [verdict EXCEPT ![r] = v]
        BY <3>2 DEF GateAnswer, GateRefusal
      <4> QED
        BY <1>0, <2>2, <4>1 DEF TypeOK
    <3>3. CASE RecordGate(r) \/ RecordWork(r) \/ Respond(r)
      BY <1>0, <2>2, <3>3 DEF RecordGate, RecordWork, Respond, TypeOK
    <3> QED
      BY <2>2, <3>1, <3>2, <3>3 DEF HandlerStep
  <2>3. ASSUME NEW r \in Requests, r # q, \E h \in Hosts, t \in Texts : Receive(r, h, t)
        PROVE  Same
    BY <1>0, <2>3 DEF Receive, TypeOK
  <2>4. Same
    BY <1>2, <2>1, <2>2, <2>3
  <2> QED
    BY <2>4
<1>3. CASE \E h \in Hosts : Stop(h)
  <2>1. /\ text' = text /\ verdict' = verdict
        /\ pc'[q] = pc[q] \/ pc'[q] = "lost"
    BY <1>3 DEF Stop
  <2>2. pc[q] = "delivered" => pc'[q] = "delivered"
    BY <1>3 DEF Stop, Running
  <2> QED
    BY <2>1, <2>2
<1>4. CASE \/ \E h \in Hosts, t \in Texts : Receive(q, h, t)
           \/ BuildEvidence(q) \/ HandleRequest(q) \/ GateAnswer(q) \/ GateRefusal(q)
  <2>1. pc[q] \in {"idle", "received", "dispatched", "answered", "refused"}
    BY <1>4, BuildFrame DEF Receive, HandleRequest, GateAnswer, GateRefusal
  <2>2. pc'[q] \in {"received", "refused", "dispatched", "answered", "raised", "gated"}
    BY <1>0, <1>4, BuildFrame DEF Receive, HandleRequest, GateAnswer, GateRefusal, TypeOK
  <2> QED
    BY <2>1, <2>2
<1>5. CASE RecordGate(q) \/ RecordWork(q) \/ Respond(q)
  BY <1>0, <1>5 DEF RecordGate, RecordWork, Respond, TypeOK
<1> QED
  BY <1>2, <1>3, <1>4, <1>5 DEF Next, HandlerStep

\* Who is in the feedback loop's store is past it.
GapsInv == \A r \in gaps : pc[r] \in Recorded \cup {"lost"}

\* Every step keeps that, and whoever joins the store comes from the trail.
LEMMA GapsStep ==
  ASSUME IInv, GapsInv, [Next]_vars
  PROVE  /\ GapsInv'
         /\ \A r \in gaps' : r \in gaps \/ pc[r] = "audited"
<1>0. TypeOK
  BY DEF IInv
<1>1. CASE gaps' = gaps
  BY <1>0, <1>1, RecordSteps DEF GapsInv, TypeOK
<1>2. ASSUME NEW r \in Requests, RecordWork(r)
      PROVE  GapsInv' /\ \A q \in gaps' : q \in gaps \/ pc[q] = "audited"
  <2>1. pc[r] = "audited" /\ pc' = [pc EXCEPT ![r] = "recorded"]
        /\ gaps' \subseteq gaps \cup {r}
    BY <1>2 DEF RecordWork
  <2> QED
    BY <1>0, <2>1 DEF GapsInv, Recorded, TypeOK
<1> QED
  BY <1>1, <1>2, OnlyRecordsWrite

\* Every event is about a request that was judged so, each request has one at most,
\* and a request past the trail, or in the store, is in it unless its write failed.
TrailInv ==
  /\ \A i, j \in DOMAIN trail : trail[i].id = trail[j].id => i = j
  /\ \A i \in DOMAIN trail :
       /\ pc[trail[i].id] \in Audited \cup {"lost"}
       /\ trail[i].gate = verdict[trail[i].id]
  /\ \A r \in Requests :
       (pc[r] \in Audited \/ r \in gaps) /\ r \notin unaudited =>
         \E i \in DOMAIN trail : trail[i] = [id |-> r, gate |-> verdict[r]]

\* Every step keeps the trail's account.
LEMMA TrailStep == ASSUME IInv, GapsInv, TrailInv, [Next]_vars PROVE TrailInv'
<1> DEFINE Event(r) == [id |-> r, gate |-> verdict[r]]
<1>0. TypeOK /\ trail \in Seq([id : Requests, gate : Results])
  BY DEF IInv, TypeOK
<1>1. \A i \in DOMAIN trail : trail[i].id \in Requests
  <2> SUFFICES ASSUME NEW i \in DOMAIN trail PROVE trail[i].id \in Requests
    OBVIOUS
  <2>1. i \in 1..Len(trail)
    BY <1>0, LenProperties
  <2>2. trail[i] \in [id : Requests, gate : Results]
    BY <1>0, <2>1, ElementOfSeq
  <2> QED
    BY <2>2
<1>2. CASE UNCHANGED <<trail, unaudited>> /\ ~ \E r \in Requests : RecordGate(r)
  <2>1. \A i \in DOMAIN trail : /\ pc'[trail[i].id] \in Audited \cup {"lost"}
                                /\ trail[i].gate = verdict'[trail[i].id]
    <3> SUFFICES ASSUME NEW i \in DOMAIN trail
                 PROVE  /\ pc'[trail[i].id] \in Audited \cup {"lost"}
                        /\ trail[i].gate = verdict'[trail[i].id]
      OBVIOUS
    <3>1. PICK q \in Requests : q = trail[i].id
      BY <1>1
    <3>2. pc[q] \in Audited \cup {"lost"} /\ trail[i].gate = verdict[q]
      BY <3>1 DEF TrailInv
    <3>3. pc'[q] \in Audited \cup {"lost"} /\ verdict'[q] = verdict[q]
      BY <3>2, RecordSteps DEF Audited, Gated
    <3> QED
      BY <3>1, <3>2, <3>3
  <2>2. ASSUME NEW r \in Requests, pc'[r] \in Audited \/ r \in gaps', r \notin unaudited
        PROVE  \E i \in DOMAIN trail : trail[i] = [id |-> r, gate |-> verdict'[r]]
    <3>1. pc[r] \in Audited \/ r \in gaps
      BY <1>2, <2>2, GapsStep, RecordSteps DEF Audited
    <3>2. verdict'[r] = verdict[r]
      BY <3>1, RecordSteps DEF GapsInv, Recorded, Audited, Gated
    <3> QED
      BY <2>2, <3>1, <3>2 DEF TrailInv
  <2>3. trail' = trail /\ unaudited' = unaudited
    BY <1>2
  <2> QED
    BY <2>1, <2>2, <2>3 DEF TrailInv
<1>3. ASSUME NEW r \in Requests, RecordGate(r) PROVE TrailInv'
  <2>1. /\ pc[r] = "gated" /\ pc' = [pc EXCEPT ![r] = "audited"] /\ verdict' = verdict
        /\ \/ trail' = Append(trail, Event(r)) /\ unaudited' = unaudited
           \/ unaudited' = unaudited \cup {r} /\ trail' = trail
        /\ gaps' = gaps
    BY <1>3 DEF RecordGate
  <2>2. \A q \in Requests : pc'[q] = IF q = r THEN "audited" ELSE pc[q]
    BY <1>0, <2>1 DEF TypeOK
  <2>3. \A i \in DOMAIN trail : trail[i].id # r
    BY <2>1 DEF TrailInv, Audited
  <2>4. CASE trail' = trail /\ unaudited' = unaudited \cup {r}
    BY <1>1, <2>1, <2>2, <2>3, <2>4 DEF TrailInv, Audited
  <2>5. CASE trail' = Append(trail, Event(r)) /\ unaudited' = unaudited
    <3>1. /\ Len(trail) \in Nat /\ DOMAIN trail = 1..Len(trail)
          /\ DOMAIN trail' = 1..(Len(trail) + 1)
          /\ \A i \in 1..Len(trail) : trail'[i] = trail[i]
          /\ trail'[Len(trail) + 1] = Event(r)
      <4> DEFINE S == [id : Requests, gate : Results]
      <4>1. Event(r) \in S
        <5>1. verdict[r] \in Results
          BY <2>1 DEF IInv, Stage, Gated
        <5> QED
          BY <5>1
      <4> HIDE DEF Event, S
      <4> QED
        BY <1>0, <2>5, <4>1, AppendProperties, LenProperties DEF S
    <3>2. Event(r).id = r /\ Event(r).gate = verdict[r]
      OBVIOUS
    <3>3. \A i, j \in DOMAIN trail' : trail'[i].id = trail'[j].id => i = j
      <4> HIDE DEF Event
      <4> QED
        BY <2>3, <3>1, <3>2 DEF TrailInv
    <3>4. \A i \in DOMAIN trail' : /\ pc'[trail'[i].id] \in Audited \cup {"lost"}
                                   /\ trail'[i].gate = verdict'[trail'[i].id]
      <4> HIDE DEF Event
      <4>1. \A i \in 1..Len(trail) : /\ pc'[trail'[i].id] \in Audited \cup {"lost"}
                                     /\ trail'[i].gate = verdict'[trail'[i].id]
        BY <1>1, <2>1, <2>2, <2>3, <3>1 DEF TrailInv
      <4>2. pc'[r] \in Audited
        BY <2>2 DEF Audited
      <4> QED
        BY <2>1, <3>1, <3>2, <4>1, <4>2
    <3>5. ASSUME NEW q \in Requests, pc'[q] \in Audited \/ q \in gaps', q \notin unaudited'
          PROVE  \E i \in DOMAIN trail' : trail'[i] = [id |-> q, gate |-> verdict'[q]]
      <4>1. CASE q = r
        <5>1. Len(trail) + 1 \in DOMAIN trail'
          BY <3>1
        <5>2. trail'[Len(trail) + 1] = [id |-> q, gate |-> verdict'[q]]
          BY <2>1, <3>1, <4>1
        <5> QED
          BY <5>1, <5>2
      <4>2. CASE q # r
        <5>1. (pc[q] \in Audited \/ q \in gaps) /\ q \notin unaudited
          BY <2>1, <2>2, <2>5, <3>5, <4>2
        <5>2. PICK i \in DOMAIN trail : trail[i] = [id |-> q, gate |-> verdict[q]]
          BY <5>1 DEF TrailInv
        <5>3. i \in DOMAIN trail' /\ trail'[i] = trail[i]
          BY <3>1
        <5> QED
          BY <2>1, <5>2, <5>3
      <4> QED
        BY <4>1, <4>2
    <3> QED
      BY <3>3, <3>4, <3>5 DEF TrailInv
  <2> QED
    BY <2>1, <2>4, <2>5
<1> QED
  BY <1>2, <1>3, OnlyRecordsWrite

\* The account, step by step, with the stages.
THEOREM RecordsInvariance == Spec => [](IInv /\ GapsInv /\ TrailInv)
<1>1. Init => IInv /\ GapsInv /\ TrailInv
  <2> SUFFICES ASSUME Init PROVE IInv /\ GapsInv /\ TrailInv
    OBVIOUS
  <2>1. DOMAIN trail = {} /\ gaps = {} /\ \A r \in Requests : pc[r] = "idle"
    BY DEF Init
  <2> QED
    BY <2>1, InitInv DEF GapsInv, TrailInv, Audited
<1>2. IInv /\ GapsInv /\ TrailInv /\ [Next]_vars => (IInv /\ GapsInv /\ TrailInv)'
  BY TypeStep, StageStep, GapsStep, TrailStep DEF IInv
<1> QED
  BY <1>1, <1>2, PTL DEF Spec

\* The trail accounts for the deliveries and the deliveries for the trail.
THEOREM TrailIsAccount == Spec => []TrailAccounts
<1>1. ASSUME IInv, TrailInv PROVE TrailAccounts
  <2>1. ASSUME NEW i \in DOMAIN trail, trail[i].gate.blocked
        PROVE  out[trail[i].id] # "answer"
    <3>1. PICK r \in Requests : r = trail[i].id
      <4> DEFINE S == [id : Requests, gate : Results]
      <4>1. trail \in Seq(S) /\ i \in 1..Len(trail)
        BY <1>1, <2>1, LenProperties DEF IInv, TypeOK
      <4>2. trail[i] \in S
        BY <4>1, ElementOfSeq
      <4> QED
        BY <4>2
    <3>2. verdict[r].blocked
      BY <1>1, <2>1, <3>1 DEF TrailInv
    <3>3. Stage(r)
      BY <1>1 DEF IInv
    <3> QED
      BY <3>1, <3>2, <3>3 DEF Stage
  <2> QED
    BY <1>1, <2>1 DEF TrailInv, TrailAccounts, Audited
<1> QED
  BY <1>1, RecordsInvariance, PTL

\* Events are appended and never rewritten.
THEOREM TrailOnlyGrows == Spec => TrailAppendOnly
<1>1. ASSUME IInv, [Next]_vars
      PROVE  [Len(trail') >= Len(trail) /\ SubSeq(trail', 1, Len(trail)) = trail]_vars
  <2> DEFINE S == [id : Requests, gate : Results]
  <2>1. trail \in Seq(S) /\ Len(trail) \in Nat
    BY <1>1, LenProperties DEF IInv, TypeOK
  <2>2. CASE trail' = trail
    <3> HIDE DEF S
    <3> QED
      BY <2>1, <2>2, SubSeqFull
  <2>3. ASSUME NEW e \in S, trail' = Append(trail, e)
        PROVE  Len(trail') >= Len(trail) /\ SubSeq(trail', 1, Len(trail)) = trail
    <3> HIDE DEF S
    <3>1. /\ Len(trail') = Len(trail) + 1
          /\ \A i \in 1..Len(trail) : trail'[i] = trail[i] /\ trail[i] \in S
      BY <2>1, <2>3, AppendProperties, ElementOfSeq, LenProperties
    <3> DEFINE sub == SubSeq(trail', 1, Len(trail))
    <3>2. /\ sub \in Seq(S)
          /\ Len(sub) = IF 1 <= Len(trail) THEN Len(trail) - 1 + 1 ELSE 0
          /\ \A i \in 1..(Len(trail) - 1 + 1) : sub[i] = trail'[1 + i - 1]
      <4>1. \A i \in 1..Len(trail) : trail'[i] \in S
        BY <3>1
      <4> QED
        BY <2>1, <4>1, SubSeqProperties
    <3> HIDE DEF sub
    <3>3. Len(sub) = Len(trail) /\ \A i \in 1..Len(trail) : sub[i] = trail[i]
      BY <2>1, <3>1, <3>2
    <3>4. sub = trail
      BY <2>1, <3>2, <3>3, SeqEqual
    <3> QED
      BY <2>1, <3>1, <3>4 DEF sub
  <2>4. \A r \in Requests : RecordGate(r) =>
          trail' = trail \/ \E e \in S : trail' = Append(trail, e)
    <3> SUFFICES ASSUME NEW r \in Requests, RecordGate(r)
                 PROVE  trail' = trail \/ \E e \in S : trail' = Append(trail, e)
      OBVIOUS
    <3>1. verdict[r] \in Results
      BY <1>1 DEF RecordGate, IInv, Stage, Gated
    <3> QED
      BY <3>1 DEF RecordGate
  <2> QED
    BY <1>1, <2>2, <2>3, <2>4, OnlyRecordsWrite
<1> QED
  BY <1>1, Invariance, PTL DEF Spec, TrailAppendOnly

----------------------------------------------------------------------------
\* The refinement: what GatedDelivery knows of a request, in the pipeline's terms.
Judgement(r) == IF verdict[r] = None THEN "open" ELSE IF Fit(r) THEN "fit" ELSE "unfit"
Outcome(r) == IF pc[r] \in {"raised", "lost"} THEN "failed" ELSE out[r]

\* A judgement depends on nothing that changes once it is passed.
LEMMA JudgementKept ==
  ASSUME NEW r, text'[r] = text[r], packet'[r] = packet[r], raw'[r] = raw[r],
         measure'[r] = measure[r], verdict'[r] = verdict[r]
  PROVE  Judgement(r)' = Judgement(r)
BY DEF Judgement, Fit, Proven, agent

\* Nothing is promised yet of a request that is still being handled.
LEMMA RunningIsOpen ==
  ASSUME IInv, NEW r \in Requests, pc[r] \in Running
  PROVE  Outcome(r) = "none"
BY DEF IInv, TypeOK, Stage, Running, Outcome

\* What the promise knows of every request but one stays as it is.
Others(r) == \A q \in Requests \ {r} :
               Judgement(q)' = Judgement(q) /\ Outcome(q)' = Outcome(q)

\* A step of one request's handler changes nothing for the others.
LEMMA StepOfOne ==
  ASSUME IInv, NEW r \in Requests,
         HandlerStep(r) \/ \E h \in Hosts, t \in Texts : Receive(r, h, t)
  PROVE  Others(r)
<1>0. TypeOK
  BY DEF IInv
<1> SUFFICES ASSUME NEW q \in Requests, q # r
             PROVE  Judgement(q)' = Judgement(q) /\ Outcome(q)' = Outcome(q)
  BY DEF Others
<1>1. /\ text'[q] = text[q] /\ packet'[q] = packet[q] /\ raw'[q] = raw[q]
      /\ measure'[q] = measure[q] /\ verdict'[q] = verdict[q]
      /\ pc'[q] = pc[q] /\ out'[q] = out[q]
  <2>1. CASE \E h \in Hosts, t \in Texts : Receive(r, h, t)
    BY <1>0, <2>1 DEF Receive, TypeOK
  <2>2. CASE BuildEvidence(r)
    <3>1. \E p : packet' = [packet EXCEPT ![r] = p]
      BY <2>2, Zenon DEF BuildEvidence
    <3> QED
      BY <1>0, <2>2, <3>1, BuildFrame DEF TypeOK
  <2>3. CASE HandleRequest(r)
    BY <1>0, <2>3 DEF HandleRequest, TypeOK
  <2>4. CASE GateAnswer(r) \/ GateRefusal(r)
    <3>1. /\ pc' = [pc EXCEPT ![r] = "gated"]
          /\ text' = text /\ packet' = packet /\ raw' = raw /\ out' = out
          /\ measure' = measure \/ \E m : measure' = [measure EXCEPT ![r] = m]
          /\ \E v : verdict' = [verdict EXCEPT ![r] = v]
      BY <2>4 DEF GateAnswer, GateRefusal
    <3> QED
      BY <1>0, <3>1 DEF TypeOK
  <2>5. CASE RecordGate(r) \/ RecordWork(r) \/ Respond(r)
    BY <1>0, <2>5 DEF RecordGate, RecordWork, Respond, TypeOK
  <2> QED
    BY <2>1, <2>2, <2>3, <2>4, <2>5 DEF HandlerStep
<1> QED
  BY <1>1, JudgementKept DEF Outcome

\* What the step of a request's own handler does to it.
LEMMA StepOfItself ==
  ASSUME IInv, IInv', NEW r \in Requests,
         HandlerStep(r) \/ \E h \in Hosts, t \in Texts : Receive(r, h, t)
  PROVE  \/ Judgement(r)' = Judgement(r) /\ Outcome(r)' = Outcome(r)
         \/ /\ Judgement(r) = "open" /\ Judgement(r)' \in {"fit", "unfit"}
            /\ Outcome(r) = "none" /\ Outcome(r)' = "none"
         \/ /\ Judgement(r)' = Judgement(r) /\ Judgement(r) # "open"
            /\ Outcome(r) = "none"
            /\ Outcome(r)' = IF Judgement(r) = "fit" THEN "answer" ELSE "withheld"
         \/ /\ Judgement(r)' = Judgement(r)
            /\ Outcome(r) = "none" /\ Outcome(r)' = "failed"
<1>0. TypeOK /\ Stage(r) /\ TypeOK' /\ Stage(r)'
  BY DEF IInv
<1>1. CASE \/ \E h \in Hosts, t \in Texts : Receive(r, h, t)
           \/ BuildEvidence(r)
  <2>1. /\ pc[r] \in {"idle", "received"}
        /\ pc'[r] \in {"received", "refused", "dispatched"}
        /\ verdict' = verdict /\ out' = out
    BY <1>0, <1>1, BuildFrame DEF Receive, TypeOK
  <2>2. verdict[r] = None /\ verdict'[r] = None
    BY <1>0, <2>1 DEF Stage
  <2> QED
    BY <2>1, <2>2 DEF Judgement, Outcome
<1>2. CASE HandleRequest(r)
  <2>1. /\ pc[r] = "dispatched" /\ pc'[r] \in {"answered", "raised"}
        /\ verdict' = verdict /\ out' = out
    BY <1>0, <1>2 DEF HandleRequest, TypeOK
  <2>2. verdict[r] = None /\ verdict'[r] = None
    BY <1>0, <2>1 DEF Stage
  <2>3. Outcome(r) = "none" /\ out[r] = "none"
    BY <1>0, <2>1, RunningIsOpen DEF Running, Outcome
  <2> QED
    BY <2>1, <2>2, <2>3 DEF Judgement, Outcome
<1>3. CASE GateAnswer(r) \/ GateRefusal(r)
  <2>1. pc[r] \in {"answered", "refused"} /\ pc'[r] = "gated"
    BY <1>0, <1>3 DEF GateAnswer, GateRefusal, TypeOK
  <2>2. verdict[r] = None /\ verdict'[r] # None
    BY <1>0, <2>1, NoneAssumption DEF Stage, Gated
  <2>3. Outcome(r) = "none" /\ Outcome(r)' = "none"
    <3>1. pc[r] \in Running /\ pc'[r] \in Running
      BY <2>1 DEF Running
    <3>2. Outcome(r) = "none"
      BY <3>1, RunningIsOpen
    <3>3. out'[r] = "none"
      BY <1>0, <2>1 DEF Stage, TypeOK
    <3> QED
      BY <2>1, <3>2, <3>3 DEF Outcome
  <2> QED
    BY <2>2, <2>3 DEF Judgement
<1>4. CASE RecordGate(r) \/ RecordWork(r)
  <2>1. /\ pc[r] \in {"gated", "audited"} /\ pc'[r] \in {"audited", "recorded"}
        /\ UNCHANGED <<text, packet, raw, measure, verdict, out>>
    BY <1>0, <1>4 DEF RecordGate, RecordWork, TypeOK
  <2> QED
    BY <2>1, JudgementKept DEF Outcome
<1>5. CASE Respond(r)
  <2>1. /\ pc[r] = "recorded" /\ pc'[r] = "delivered"
        /\ UNCHANGED <<text, packet, raw, measure, verdict>>
        /\ out'[r] = IF verdict[r].blocked \/ raw[r] = None THEN "withheld" ELSE "answer"
    BY <1>0, <1>5 DEF Respond, TypeOK
  <2>2. Judgement(r)' = Judgement(r)
    BY <2>1, JudgementKept
  <2>3. verdict[r] # None
    BY <1>0, <2>1, NoneAssumption DEF Stage, Gated
  <2>4. Outcome(r) = "none"
    BY <2>1, RunningIsOpen DEF Running
  <2>5. Fit(r) <=> ~ verdict[r].blocked /\ raw[r] # None
    BY <2>1, UnblockedIsFit DEF Gated
  <2> HIDE DEF Fit
  <2> QED
    BY <2>1, <2>2, <2>3, <2>4, <2>5 DEF Judgement, Outcome
<1> QED
  BY <1>1, <1>2, <1>3, <1>4, <1>5 DEF HandlerStep

\* Every step of the pipeline is a step of GatedDelivery or none at all.
LEMMA DeliveryStep ==
  ASSUME IInv, IInv', [Next]_vars PROVE [Delivery!DNext]_(Delivery!dvars)
<1> DEFINE jj == [r \in Requests |-> Judgement(r)]
           oo == [r \in Requests |-> Outcome(r)]
<1>0. Delivery!dvars = <<jj, oo>>
  BY DEF Delivery!dvars, Judgement, Outcome
<1>1. CASE UNCHANGED vars \/ Reconfigure \/ \E h \in Hosts : Boot(h)
  <2>1. UNCHANGED <<pc, text, packet, raw, measure, verdict, out>>
    BY <1>1 DEF vars, Reconfigure, Boot, handlerVars
  <2>2. UNCHANGED Delivery!dvars
    BY <2>1 DEF Delivery!dvars, Fit, Proven, agent
  <2> QED
    BY <2>2
<1>2. ASSUME NEW h \in Hosts, Stop(h) PROVE [Delivery!DNext]_(Delivery!dvars)
  <2> DEFINE R == {r \in Requests : host[r] = h /\ pc[r] \in Running}
  <2>1. /\ UNCHANGED <<text, packet, raw, measure, verdict, out>>
        /\ pc' = [r \in Requests |-> IF r \in R THEN "lost" ELSE pc[r]]
    BY <1>2 DEF Stop
  <2>2. \A r \in Requests : Judgement(r)' = Judgement(r)
    BY <2>1, JudgementKept
  <2>3. \A r \in Requests : Outcome(r)' = IF r \in R THEN "failed" ELSE Outcome(r)
    BY <2>1 DEF Outcome
  <2>4. R \subseteq {r \in Requests : Outcome(r) = "none"}
    BY RunningIsOpen
  <2>5. jj' = jj
    BY <2>2
  <2> HIDE DEF R
  <2>6. oo' = [r \in Requests |-> IF r \in R THEN "failed" ELSE oo[r]]
    BY <2>3
  <2>7. R \in SUBSET {r \in Requests : oo[r] = "none"}
    BY <2>4
  <2>8. Delivery!FailAll
    BY <2>5, <2>6, <2>7 DEF Delivery!FailAll, Judgement, Outcome
  <2> QED
    BY <2>8 DEF Delivery!DNext
<1>3. ASSUME NEW r \in Requests,
             HandlerStep(r) \/ \E h \in Hosts, t \in Texts : Receive(r, h, t)
      PROVE  [Delivery!DNext]_(Delivery!dvars)
  <2>1. \A q \in Requests : q # r => /\ Judgement(q)' = Judgement(q)
                                     /\ Outcome(q)' = Outcome(q)
    BY <1>3, StepOfOne DEF Others
  <2>2. /\ jj \in [Requests -> {"open", "fit", "unfit"}]
        /\ jj[r] = Judgement(r) /\ oo[r] = Outcome(r)
    BY DEF Judgement
  <2>3. jj' = [jj EXCEPT ![r] = Judgement(r)'] /\ oo' = [oo EXCEPT ![r] = Outcome(r)']
    BY <2>1
  <2>4. CASE Judgement(r)' = Judgement(r) /\ Outcome(r)' = Outcome(r)
    <3>1. jj' = jj /\ oo' = oo
      BY <2>1, <2>4
    <3> QED
      BY <1>0, <3>1 DEF Delivery!dvars, Judgement, Outcome
  <2>5. CASE /\ Judgement(r) = "open" /\ Judgement(r)' \in {"fit", "unfit"}
             /\ Outcome(r) = "none" /\ Outcome(r)' = "none"
    <3>1. oo' = oo
      BY <2>1, <2>5
    <3>2. Delivery!Judge(r)
      BY <2>2, <2>3, <2>5, <3>1 DEF Delivery!Judge, Judgement, Outcome
    <3> QED
      BY <3>2 DEF Delivery!DNext
  <2>6. CASE /\ Judgement(r)' = Judgement(r) /\ Judgement(r) # "open"
             /\ Outcome(r) = "none"
             /\ Outcome(r)' = IF Judgement(r) = "fit" THEN "answer" ELSE "withheld"
    <3>1. jj' = jj
      BY <2>1, <2>6
    <3>2. Delivery!Release(r)
      BY <2>2, <2>3, <2>6, <3>1 DEF Delivery!Release, Judgement, Outcome
    <3> QED
      BY <3>2 DEF Delivery!DNext
  <2>7. CASE /\ Judgement(r)' = Judgement(r)
             /\ Outcome(r) = "none" /\ Outcome(r)' = "failed"
    <3>1. jj' = jj
      BY <2>1, <2>7
    <3>2. Delivery!Fail(r)
      BY <2>2, <2>3, <2>7, <3>1 DEF Delivery!Fail, Judgement, Outcome
    <3> QED
      BY <3>2 DEF Delivery!DNext
  <2> QED
    BY <1>3, <2>4, <2>5, <2>6, <2>7, StepOfItself
<1> QED
  BY <1>1, <1>2, <1>3 DEF Next

\* The pipeline implements GatedDelivery, for any requests, hosts, texts and packets.
THEOREM PipelineDelivers == Spec => ImplementsDelivery
<1>1. Init => Delivery!DInit
  BY DEF Init, Delivery!DInit
<1>2. IInv /\ IInv' /\ [Next]_vars => [Delivery!DNext]_(Delivery!dvars)
  BY DeliveryStep
<1> QED
  BY <1>1, <1>2, Invariance, PTL DEF Spec, ImplementsDelivery, Delivery!DSpec

----------------------------------------------------------------------------
\* What is left of EveryRequestEnds without fairness.

\* Steps a request's handler still has before it at most.
StepsLeft(r) ==
  [s \in {"idle"} \cup Running \cup Ended |->
     CASE s = "received"              -> 6
       [] s = "dispatched"            -> 5
       [] s \in {"refused", "answered"} -> 4
       [] s = "gated"                 -> 3
       [] s = "audited"               -> 2
       [] s = "recorded"              -> 1
       [] OTHER                       -> 0][pc[r]]

\* What a step does to the stage of a request: its own handler takes it on, a host
\* that stops loses it, and everything else leaves it where it is.
LEMMA StageMoves ==
  ASSUME IInv, Next, NEW r \in Requests
  PROVE  /\ HandlerStep(r) =>
              /\ pc[r] \in Running
              /\ \/ pc'[r] \in {"delivered", "raised"}
                 \/ pc[r] = "received" /\ pc'[r] \in {"refused", "dispatched"}
                 \/ pc[r] = "dispatched" /\ pc'[r] = "answered"
                 \/ pc[r] \in {"refused", "answered"} /\ pc'[r] = "gated"
                 \/ pc[r] = "gated" /\ pc'[r] = "audited"
                 \/ pc[r] = "audited" /\ pc'[r] = "recorded"
         /\ ~ HandlerStep(r) /\ pc[r] # "idle" =>
              /\ pc'[r] = pc[r] \/ (pc[r] \in Running /\ pc'[r] = "lost")
              /\ out'[r] = out[r] /\ verdict'[r] = verdict[r]
<1>0. TypeOK
  BY DEF IInv
<1>1. ASSUME HandlerStep(r)
      PROVE  /\ pc[r] \in Running
             /\ \/ pc'[r] \in {"delivered", "raised"}
                \/ pc[r] = "received" /\ pc'[r] \in {"refused", "dispatched"}
                \/ pc[r] = "dispatched" /\ pc'[r] = "answered"
                \/ pc[r] \in {"refused", "answered"} /\ pc'[r] = "gated"
                \/ pc[r] = "gated" /\ pc'[r] = "audited"
                \/ pc[r] = "audited" /\ pc'[r] = "recorded"
  <2>1. CASE BuildEvidence(r)
    BY <1>0, <2>1 DEF BuildEvidence, Running, TypeOK
  <2>2. CASE HandleRequest(r)
    BY <1>0, <2>2 DEF HandleRequest, Running, TypeOK
  <2>3. CASE GateAnswer(r) \/ GateRefusal(r)
    BY <1>0, <2>3 DEF GateAnswer, GateRefusal, Running, TypeOK
  <2>4. CASE RecordGate(r) \/ RecordWork(r) \/ Respond(r)
    BY <1>0, <2>4 DEF RecordGate, RecordWork, Respond, Running, TypeOK
  <2> QED
    BY <1>1, <2>1, <2>2, <2>3, <2>4 DEF HandlerStep
<1>2. ASSUME NEW q \in Requests, q # r,
             HandlerStep(q) \/ \E h \in Hosts, t \in Texts : Receive(q, h, t)
      PROVE  pc'[r] = pc[r] /\ out'[r] = out[r] /\ verdict'[r] = verdict[r]
  BY <1>0, <1>2 DEF HandlerStep, Receive, BuildEvidence, HandleRequest, GateAnswer,
       GateRefusal, RecordGate, RecordWork, Respond, TypeOK
<1>3. ASSUME NEW h \in Hosts, Boot(h) \/ Stop(h)
      PROVE  /\ pc'[r] = pc[r] \/ (pc[r] \in Running /\ pc'[r] = "lost")
             /\ out'[r] = out[r] /\ verdict'[r] = verdict[r]
  BY <1>3 DEF Boot, Stop, handlerVars
<1>4. ASSUME Reconfigure
      PROVE  pc'[r] = pc[r] /\ out'[r] = out[r] /\ verdict'[r] = verdict[r]
  BY <1>4 DEF Reconfigure, handlerVars
<1>5. ASSUME NEW h \in Hosts, NEW t \in Texts, Receive(r, h, t)
      PROVE  pc[r] = "idle"
  BY <1>5 DEF Receive
<1> QED
  BY <1>1, <1>2, <1>3, <1>4, <1>5 DEF Next

\* Every step of a request's handler brings it closer to its end and no step of
\* anybody takes it back: a request is over after six steps of its own, whatever its
\* records, other requests and its host do (handle).
THEOREM RequestsAdvance ==
  Spec => [][\A r \in Requests :
               /\ pc[r] # "idle" => StepsLeft(r)' <= StepsLeft(r)
               /\ HandlerStep(r) => StepsLeft(r)' < StepsLeft(r)]_vars
<1>1. ASSUME IInv, [Next]_vars
      PROVE  [\A r \in Requests :
               /\ pc[r] # "idle" => StepsLeft(r)' <= StepsLeft(r)
               /\ HandlerStep(r) => StepsLeft(r)' < StepsLeft(r)]_vars
  <2> SUFFICES ASSUME Next, NEW r \in Requests
               PROVE  /\ pc[r] # "idle" => StepsLeft(r)' <= StepsLeft(r)
                      /\ HandlerStep(r) => StepsLeft(r)' < StepsLeft(r)
    BY <1>1
  <2>1. pc[r] \in {"idle"} \cup Running \cup Ended
    BY <1>1 DEF IInv, TypeOK
  <2>2. CASE HandlerStep(r)
    BY <1>1, <2>1, <2>2, StageMoves DEF StepsLeft, Running, Ended
  <2>3. CASE ~ HandlerStep(r)
    BY <1>1, <2>1, <2>3, StageMoves DEF StepsLeft, Running, Ended
  <2> QED
    BY <2>2, <2>3
<1> QED
  BY Invariance, <1>1, PTL DEF Spec

\* What a request ended with stays: its outcome and the verdict it was judged by,
\* whatever other requests, hosts and records do afterwards.
THEOREM EndsAreFinal ==
  Spec => [][\A r \in Requests : pc[r] \in Ended =>
               pc'[r] = pc[r] /\ out'[r] = out[r] /\ verdict'[r] = verdict[r]]_vars
<1>1. ASSUME IInv, [Next]_vars
      PROVE  [\A r \in Requests : pc[r] \in Ended =>
               pc'[r] = pc[r] /\ out'[r] = out[r] /\ verdict'[r] = verdict[r]]_vars
  BY <1>1, StageMoves DEF Running, Ended
<1> QED
  BY Invariance, <1>1, PTL DEF Spec
=============================================================================
