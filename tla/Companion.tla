------------------------------ MODULE Companion ------------------------------
(* The request pipeline of agents/orchestrator.py: a host (a CLI process, an *)
(* MCP server, the AgentCore runtime) builds an Orchestrator, and each       *)
(* request is routed, proved against an evidence packet, dispatched to one   *)
(* specialist, gated, recorded in the audit trail, offered to the feedback   *)
(* loop and returned.  Every step of a request is an action, so requests     *)
(* interleave, writes fail and hosts stop between any two of them.           *)
EXTENDS GovernanceGate, Integers, Sequences, FiniteSets

CONSTANTS
  Requests,    \* calls of Orchestrator.handle
  Hosts,       \* processes that hold an Orchestrator
  Texts,       \* request texts
  Order,       \* the specialists, in the order build_specialists lists them
  Hits,        \* Hits[t][a]: how many routing keywords of a occur in text t
  LLM,         \* LLM[a]: a.llm_available
  Contents,    \* sets of marks a specialist's response may carry
  Scores,      \* confidences assess_confidence_detail may measure
  Keys,        \* knowledge keys it may return as sources
  Configs,     \* evidence configurations found on disk
  Packets,     \* packets a provider that was reached may hand back
  None         \* no value yet

Agents == {Order[i] : i \in DOMAIN Order}

ASSUME CompanionAssumption ==
  /\ Order \in Seq(Agents) /\ Order # <<>>
  /\ Hits \in [Texts -> [Agents -> Nat]]
  /\ LLM \in [Agents -> BOOLEAN]
  /\ Contents \subseteq SUBSET Marks
  /\ Scores \subseteq 0..100
  /\ Packets \subseteq
       [request : Texts, route : SUBSET Agents, status : Statuses]
  /\ NoPacket \notin [request : Texts, route : SUBSET Agents, status : Statuses]
  /\ None # NoPacket
  /\ None \notin Hosts /\ None \notin Texts /\ \A c \in Contents : c # None

VARIABLES
  config,      \* the evidence configuration on disk
  orch,        \* host -> its evidence provider, None while it is not running
  pc,          \* request -> the step its handler reached
  host,        \* request -> the host that serves it
  text,        \* request -> its text
  packet,      \* request -> the evidence packet built for it
  raw,         \* request -> marks of the specialist's response
  measure,     \* request -> what the agent measured of that response
  verdict,     \* request -> GateResult
  out,         \* request -> what the caller received
  trail,       \* the audit trail as it can be read: a sequence of [id, gate]
  torn,        \* the trail's file ends in the middle of a line
  unaudited,   \* requests whose audit record was not written or can't be read
  gaps         \* requests that were handed to the feedback loop's store

handlerVars == <<pc, host, text, packet, raw, measure, verdict, out>>
recordVars == <<trail, torn, unaudited, gaps>>
vars == <<config, orch, pc, host, text, packet, raw, measure, verdict, out,
          trail, torn, unaudited, gaps>>

----------------------------------------------------------------------------
\* Mutant: the provider's name instead of what became of it.
NamedProvider(c) == IF c.provider = "none" THEN "disabled" ELSE c.provider

\* _get_evidence_provider on a configuration [provider, envPath, corpus]:
\* envPath says whether the corpus named by the environment can be opened, and
\* corpus whether .evidence/BIBLE.md can; the second is read only if the first
\* is not set.
GetEvidenceProvider(c) ==
  LET opens == IF c.envPath = "unset" THEN c.corpus ELSE c.envPath = "good"
  IN  CASE c.provider = "none" -> "disabled"
        [] c.provider = "bible_markdown" /\ opens -> "active"
        [] OTHER -> "unavailable"

\* _load_config: a file that does not parse reads as the empty configuration.
LoadConfig(c) == IF c.parses THEN c ELSE [c EXCEPT !.provider = "none"]

Providers == {"disabled", "active", "unavailable"}

\* route: the first specialist no other one beats.
Route(t) ==
  LET top == {i \in DOMAIN Order :
                \A j \in DOMAIN Order : Hits[t][Order[j]] <= Hits[t][Order[i]]}
  IN  Order[CHOOSE i \in top : \A j \in top : i <= j]

agent(r) == Route(text[r])

Blocking(t, a) ==
  [request |-> t, route |-> {a}, status |-> "INSUFFICIENT_EVIDENCE"]

\* Mutant: a provider that cannot be reached is as good as none.
FailOpenPacket(provider, t, a) ==
  IF provider = "active" THEN Packets \cup {Blocking(t, a)} ELSE {NoPacket}

\* build_evidence_packet: None without a provider; a blocking packet for one that
\* is unavailable or raises; otherwise what the provider hands back, which the
\* EvidenceProvider protocol does not force to be about this request or route.
BuildEvidencePacket(provider, t, a) ==
  CASE provider = "disabled"    -> {NoPacket}
    [] provider = "unavailable" -> {Blocking(t, a)}
    [] provider = "active"      -> Packets \cup {Blocking(t, a)}

\* assess_confidence_detail: 50 when nothing grounds the response; nothing at
\* all when it raised.
Measures ==
  {[confidence |-> 50, sources |-> {}],
   [confidence |-> NotMeasured, sources |-> Unset]}
    \cup [confidence : Scores, sources : (SUBSET Keys) \ {{}}]

\* GateResult.
Results ==
  [agent : Agents, request : Texts, zone : {"exploration", "verified"},
   confidence : 0..100 \cup {NotMeasured}, sources : SUBSET Keys,
   findings : SUBSET (BlockCodes \cup InfoCodes), blocked : BOOLEAN]

ASSUME NoneAssumption ==
  None \notin Results /\ \A m \in Measures : m # None

Ended == {"delivered", "raised", "lost"}
Running == {"received", "refused", "dispatched", "answered", "gated",
            "audited", "recorded"}

Init ==
  /\ config \in Configs
  /\ orch = [h \in Hosts |-> None]
  /\ pc = [r \in Requests |-> "idle"]
  /\ host = [r \in Requests |-> None]
  /\ text = [r \in Requests |-> None]
  /\ packet = [r \in Requests |-> None]
  /\ raw = [r \in Requests |-> None]
  /\ measure = [r \in Requests |-> None]
  /\ verdict = [r \in Requests |-> None]
  /\ out = [r \in Requests |-> "none"]
  /\ trail = <<>> /\ torn = FALSE /\ unaudited = {} /\ gaps = {}

----------------------------------------------------------------------------
\* Someone edits config.yaml, the environment or the corpus.
Reconfigure ==
  /\ config' \in Configs \ {config}
  /\ UNCHANGED <<orch, handlerVars, recordVars>>

\* Orchestrator.__init__: the provider is chosen once, for the host's lifetime.
Boot(h) ==
  /\ orch[h] = None
  /\ orch' = [orch EXCEPT ![h] = GetEvidenceProvider(LoadConfig(config))]
  /\ UNCHANGED <<config, handlerVars, recordVars>>

\* A host stops, and with it every handler it was running.
Stop(h) ==
  /\ orch[h] # None
  /\ orch' = [orch EXCEPT ![h] = None]
  /\ pc' = [r \in Requests |->
              IF host[r] = h /\ pc[r] \in Running THEN "lost" ELSE pc[r]]
  /\ UNCHANGED <<config, host, text, packet, raw, measure, verdict, out,
                 recordVars>>

Receive(r, h, t) ==
  /\ pc[r] = "idle" /\ orch[h] # None
  /\ pc' = [pc EXCEPT ![r] = "received"]
  /\ host' = [host EXCEPT ![r] = h]
  /\ text' = [text EXCEPT ![r] = t]
  /\ UNCHANGED <<config, orch, packet, raw, measure, verdict, out, recordVars>>

\* The packet is built and checked before anything is dispatched.
BuildEvidence(r) ==
  /\ pc[r] = "received"
  /\ \E p \in BuildEvidencePacket(orch[host[r]], text[r], agent(r)) :
       /\ packet' = [packet EXCEPT ![r] = p]
       /\ pc' = [pc EXCEPT ![r] =
            IF p # NoPacket /\ PacketReason(p, text[r], agent(r)) # ""
            THEN "refused" ELSE "dispatched"]
  /\ UNCHANGED <<config, orch, host, text, raw, measure, verdict, out,
                 recordVars>>

\* agent.handle_request, which may answer anything or raise.  raw is the response
\* as the gate will see it, with the basis of the packet appended; what that does
\* to its score is in Grounding.tla, here the score may be any.
HandleRequest(r) ==
  /\ pc[r] = "dispatched"
  /\ \/ /\ \E c \in Contents : raw' = [raw EXCEPT ![r] = c]
        /\ pc' = [pc EXCEPT ![r] = "answered"]
     \/ pc' = [pc EXCEPT ![r] = "raised"] /\ UNCHANGED raw
  /\ UNCHANGED <<config, orch, host, text, packet, measure, verdict, out,
                 recordVars>>

AnswerCall(marks, a, t, evidence) ==
  [marks |-> marks, agent |-> a, request |-> t, confidence |-> NotMeasured,
   used_llm |-> Unset, sources |-> Unset, evidence |-> evidence]

\* The last statement of handle: gate_output on the specialist's response.
GateAnswer(r) ==
  /\ pc[r] = "answered"
  /\ \E m \in Measures :
       /\ measure' = [measure EXCEPT ![r] = m]
       /\ verdict' = [verdict EXCEPT ![r] =
            GateOutput(AnswerCall(raw[r], agent(r), text[r], packet[r]),
                       LLM[agent(r)], m)]
  /\ pc' = [pc EXCEPT ![r] = "gated"]
  /\ UNCHANGED <<config, orch, host, text, packet, raw, out, recordVars>>

\* The block text of handle carries no mark, and goes through the same gate.
RefusalCall(a, t) ==
  [marks |-> {}, agent |-> a, request |-> t, confidence |-> 100,
   used_llm |-> FALSE, sources |-> Unset, evidence |-> NoPacket]

GateRefusal(r) ==
  /\ pc[r] = "refused"
  /\ verdict' = [verdict EXCEPT ![r] =
       GateOutput(RefusalCall(agent(r), text[r]), LLM[agent(r)],
                  [confidence |-> NotMeasured, sources |-> Unset])]
  /\ pc' = [pc EXCEPT ![r] = "gated"]
  /\ UNCHANGED <<config, orch, host, text, packet, raw, measure, out,
                 recordVars>>

\* Mutant: only what was blocked is worth an event.
RecordBlocksOnly(r) ==
  /\ pc[r] = "gated"
  /\ pc' = [pc EXCEPT ![r] = "audited"]
  /\ trail' = IF verdict[r].blocked
              THEN Append(trail, [id |-> r, gate |-> verdict[r]]) ELSE trail
  /\ UNCHANGED <<config, orch, host, text, packet, raw, measure, verdict, out,
                 torn, unaudited, gaps>>

\* Mutant: an audit write that fails blocks the work item.
RecordGateBlocks(r) ==
  /\ pc[r] = "gated"
  /\ pc' = [pc EXCEPT ![r] = "audited"]
  /\ \/ trail' = Append(trail, [id |-> r, gate |-> verdict[r]])
        /\ UNCHANGED <<unaudited, verdict>>
     \/ /\ unaudited' = unaudited \cup {r}
        /\ verdict' = [verdict EXCEPT ![r].blocked = TRUE]
        /\ UNCHANGED trail
  /\ UNCHANGED <<config, orch, host, text, packet, raw, measure, out, torn, gaps>>

\* AuditTrail.record_gate appends the decision as a line.  A line that follows
\* half a line can't be told from it; a write that fails, perhaps half-way, is
\* swallowed.
RecordGate(r) ==
  /\ pc[r] = "gated"
  /\ pc' = [pc EXCEPT ![r] = "audited"]
  /\ \/ /\ ~ torn
        /\ trail' = Append(trail, [id |-> r, gate |-> verdict[r]])
        /\ UNCHANGED <<torn, unaudited>>
     \/ /\ torn /\ torn' = FALSE
        /\ unaudited' = unaudited \cup {r} /\ UNCHANGED trail
     \/ /\ torn' \in {torn, TRUE}
        /\ unaudited' = unaudited \cup {r} /\ UNCHANGED trail
  /\ UNCHANGED <<config, orch, host, text, packet, raw, measure, verdict, out,
                 gaps>>

\* FeedbackLoop.record_work: a gap is handed to _upsert.  What becomes of the
\* file it shares with other processes is FeedbackStore's matter; whether its
\* write fails makes no difference here.
RecordWork(r) ==
  /\ pc[r] = "audited"
  /\ pc' = [pc EXCEPT ![r] = "recorded"]
  /\ gaps' = IF IsGap(verdict[r]) THEN gaps \cup {r} ELSE gaps
  /\ UNCHANGED <<config, orch, host, text, packet, raw, measure, verdict, out,
                 trail, torn, unaudited>>

\* Mutant: a request whose audit record failed is never answered.
RespondIfAudited(r) ==
  /\ pc[r] = "recorded" /\ r \notin unaudited
  /\ pc' = [pc EXCEPT ![r] = "delivered"]
  /\ out' = [out EXCEPT ![r] =
       IF verdict[r].blocked \/ raw[r] = None THEN "withheld" ELSE "answer"]
  /\ UNCHANGED <<config, orch, host, text, packet, raw, measure, verdict,
                 recordVars>>

\* The caller receives the block message of the gate, the block text of the
\* orchestrator, or the specialist's answer.
Respond(r) ==
  /\ pc[r] = "recorded"
  /\ pc' = [pc EXCEPT ![r] = "delivered"]
  /\ out' = [out EXCEPT ![r] =
       IF verdict[r].blocked \/ raw[r] = None THEN "withheld" ELSE "answer"]
  /\ UNCHANGED <<config, orch, host, text, packet, raw, measure, verdict,
                 recordVars>>

HandlerStep(r) ==
  \/ BuildEvidence(r) \/ HandleRequest(r) \/ GateAnswer(r) \/ GateRefusal(r)
  \/ RecordGate(r) \/ RecordWork(r) \/ Respond(r)

Next ==
  \/ Reconfigure
  \/ \E h \in Hosts : Boot(h) \/ Stop(h)
  \/ \E r \in Requests :
       \/ \E h \in Hosts, t \in Texts : Receive(r, h, t)
       \/ HandlerStep(r)

Spec == Init /\ [][Next]_vars

\* A handler is ordinary straight-line code and keeps running; nobody promises
\* that requests arrive, hosts start or configurations change.
FairSpec == Spec /\ \A r \in Requests : WF_vars(HandlerStep(r))

----------------------------------------------------------------------------
\* Every variable stays in its range.
TypeOK ==
  /\ config \in Configs
  /\ orch \in [Hosts -> Providers \cup {None}]
  /\ pc \in [Requests -> {"idle"} \cup Running \cup Ended]
  /\ host \in [Requests -> Hosts \cup {None}]
  /\ text \in [Requests -> Texts \cup {None}]
  /\ packet \in [Requests -> [request : Texts, route : SUBSET Agents,
                             status : Statuses] \cup {NoPacket, None}]
  /\ raw \in [Requests -> Contents \cup {None}]
  /\ measure \in [Requests -> Measures \cup {None}]
  /\ verdict \in [Requests -> Results \cup {None}]
  /\ out \in [Requests -> {"none", "answer", "withheld"}]
  /\ trail \in Seq([id : Requests, gate : Results])
  /\ torn \in BOOLEAN
  /\ unaudited \subseteq Requests /\ gaps \subseteq Requests

\* The packet authorizes the specialist r was routed to, for r's own text.
Proven(r) == /\ packet[r] # NoPacket
             /\ packet[r].request = text[r]
             /\ agent(r) \in packet[r].route
             /\ packet[r].status = "READY"

BlockingMarks == {"done_claim", "sor_write", "secret", "fetch_directive"}

\* The response may leave: it crosses no boundary, an LLM's answer is grounded,
\* and the evidence, where any is asked for, proves the request.
Fit(r) == /\ raw[r] # None
          /\ raw[r] \cap BlockingMarks = {}
          /\ LLM[agent(r)] => /\ measure[r].confidence # NotMeasured
                              /\ measure[r].confidence >= Bar
          /\ packet[r] = NoPacket \/ Proven(r)

\* A host whose provider was configured, reachable or not, lets no specialist
\* run on a request until a packet proves it (handle's pre-dispatch check).
EvidenceBeforeDispatch ==
  \A r \in Requests :
    /\ pc[r] \in Running
    /\ pc[r] = "dispatched" \/ raw[r] # None
    /\ orch[host[r]] # "disabled"
    => Proven(r)

\* What a caller receives as an answer is fit, and what is withheld is not:
\* whichever branch of handle the request took, whatever failed around it.
AnswersAreFit ==
  \A r \in Requests : /\ out[r] = "answer" => Fit(r)
                      /\ out[r] = "withheld" => ~ Fit(r)

\* The trail and the deliveries account for each other: one event per gated
\* request, saying what the gate decided, and no blocked event for an answer; only
\* a write that failed, or one that follows it, leaves a delivered request, or a
\* gap staged for the reviewers, out of it, wherever its host stopped.
TrailAccounts ==
  /\ \A i, j \in DOMAIN trail : trail[i].id = trail[j].id => i = j
  /\ \A i \in DOMAIN trail : trail[i].gate.blocked => out[trail[i].id] # "answer"
  /\ \A r \in Requests :
       (pc[r] = "delivered" \/ r \in gaps) /\ r \notin unaudited =>
         \E i \in DOMAIN trail : trail[i] = [id |-> r, gate |-> verdict[r]]

\* Events are appended to the trail and never rewritten (audit.record).
TrailAppendOnly ==
  [][Len(trail') >= Len(trail) /\ SubSeq(trail', 1, Len(trail)) = trail]_vars

\* The pipeline implements GatedDelivery: whether a request is fit is settled by
\* its content, measure and packet when the gate has spoken, and neither a failed
\* record, nor another request, nor a stopping host turns one outcome into another.
Delivery == INSTANCE GatedDelivery WITH
  judgement <- [r \in Requests |-> IF verdict[r] = None THEN "open"
                                  ELSE IF Fit(r) THEN "fit" ELSE "unfit"],
  outcome   <- [r \in Requests |->
                  IF pc[r] \in {"raised", "lost"} THEN "failed" ELSE out[r]]

ImplementsDelivery == Delivery!DSpec

\* Every request a host accepts ends: delivered, raised or lost with its host.
\* A failing record never leaves a caller without its response.
EveryRequestEnds ==
  \A r \in Requests : pc[r] \in Running ~> pc[r] \in Ended
=============================================================================
