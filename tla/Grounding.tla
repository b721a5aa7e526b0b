------------------------------ MODULE Grounding ------------------------------
(* How an answer is scored: assess_confidence_detail of agents/base_agent.py *)
(* on the text that handle of agents/orchestrator.py passes to the gate, the *)
(* specialist's response with the basis of the evidence packet appended.     *)
(*                                                                           *)
(* A text is the set of meaningful terms in it: no stop words, four          *)
(* characters or more.                                                       *)
EXTENDS GovernanceGate, Integers, FiniteSets

CONSTANTS
  Terms,       \* meaningful terms
  Knowledge,   \* Knowledge[k]: the terms that occur in the text of key k
  Stems,       \* <<t, w>>: term t and word w share a stem
  LLM,         \* agent.llm_available
  Basis,       \* terms render_basis writes whatever the claims are
  Packets,     \* packets [request, route, status, claims]; claims: the terms of
               \* the ids of the packet's claims
  Agent,       \* the specialist
  None         \* no request, no answer, no verdict

----------------------------------------------------------------------------
\* x / y, rounded to the next integer.
Rounded(x, y) == (2 * x + y) \div (2 * y)

Higher(a, b) == IF a > b THEN a ELSE b

\* _request_relevance, as a fraction [num, den]: 1 if four fifths of the request's
\* terms are addressed, 0.4 if none is, and linear in between.
Relevance(query, response) ==
  LET q == Cardinality(query)
      a == Cardinality({t \in query : t \in response \/
                                      \E w \in response : <<t, w>> \in Stems})
  IN  IF query = {} \/ 5 * a >= 4 * q THEN [num |-> 1, den |-> 1]
      ELSE [num |-> 8 * q + 15 * a, den |-> 20 * q]

\* assess_confidence_detail.  The score is rounded to four decimals, and in whole
\* percent, which is how it compares with Bar.
AssessConfidence(response, query) ==
  LET terms == response \cup query
      n == Cardinality(terms)
      hits(k) == Cardinality(terms \cap Knowledge[k])
      matched == {k \in DOMAIN Knowledge :
                    hits(k) >= Higher(2, Rounded(4 * n, 10))}
      best == CHOOSE h \in {hits(k) : k \in matched} :
                \A k \in matched : hits(k) <= h
      base == IF LLM THEN 70 ELSE 60
      r == Relevance(query, response)
  IN  IF matched = {} THEN [confidence |-> 50, sources |-> {}]
      ELSE [confidence |-> Rounded((base * n + (100 - base) * best) * r.num * 100,
                                   n * r.den) \div 100,
            sources |-> matched]

\* render_basis.
RenderBasis(packet) ==
  IF packet = NoPacket THEN {} ELSE Basis \cup packet.claims

----------------------------------------------------------------------------
VARIABLES
  query,     \* the request
  packet,    \* the packet that proves it
  answer,    \* the specialist's response
  raw,       \* what is passed to the gate
  verdict    \* GateResult

vars == <<query, packet, answer, raw, verdict>>

Init ==
  /\ query \in SUBSET Terms \ {{}}
  /\ packet \in {p \in Packets : PacketReason(p, query, Agent) = ""} \cup {NoPacket}
  /\ answer = None /\ raw = None /\ verdict = None

HandleRequest ==
  /\ answer = None
  /\ answer' \in SUBSET Terms
  /\ raw' = answer' \cup RenderBasis(packet)
  /\ UNCHANGED <<query, packet, verdict>>

Gate(response, evidence) ==
  GateOutput([marks |-> {}, agent |-> Agent, request |-> query,
              confidence |-> NotMeasured, used_llm |-> Unset, sources |-> Unset,
              evidence |-> evidence],
             LLM, AssessConfidence(response, query))

GateAnswer ==
  /\ answer # None /\ verdict = None
  /\ verdict' = Gate(raw, packet)
  /\ UNCHANGED <<query, packet, answer, raw>>

Next == HandleRequest \/ GateAnswer

Spec == Init /\ [][Next]_vars

----------------------------------------------------------------------------
\* An evidence packet never lets through what the gate blocks without it
\* (gate_output: "Evidence can only TIGHTEN the gate, never lift an answer over
\* the bar").
EvidenceOnlyTightens ==
  verdict # None => (Gate(answer, NoPacket).blocked => verdict.blocked)
=============================================================================
