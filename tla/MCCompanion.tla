----------------------------- MODULE MCCompanion -----------------------------
(* Companion with the shipped specialists and small sets of everything else. *)
EXTENDS Companion

CONSTANTS r1, r2, h1, t1, t2

MCOrder == <<"platform", "security">>

\* t1 belongs to security; t2 matches no keyword and goes to the first one.
MCHits ==
  [t \in Texts |-> [a \in Agents |-> IF t = t1 /\ a = "security" THEN 2 ELSE 0]]

\* A fork gave the security specialist an LLM tier.
MCLLM == [a \in Agents |-> a = "security"]

Config(p, e, c, ok) == [provider |-> p, envPath |-> e, corpus |-> c, parses |-> ok]

FewConfigs ==
  {Config("none", "unset", FALSE, TRUE), Config("bible_markdown", "unset", TRUE, TRUE)}

\* No gateway; a generated corpus; a corpus not generated; a bad path with a good
\* default corpus behind it; a misspelt provider.
ParsedConfigs ==
  FewConfigs \cup
  {Config("bible_markdown", "unset", FALSE, TRUE),
   Config("bible_markdown", "bad", TRUE, TRUE), Config("other", "good", TRUE, TRUE)}

AllPackets == [request : Texts, route : SUBSET Agents, status : Statuses]

\* Up to two marks at once, the fetch marks never together.
PairedContents ==
  {m \in SUBSET Marks : Cardinality(m) <= 2 /\
                        ~ {"fetch_directive", "fetch_described"} \subseteq m}

\* What requests that run beside each other are made of: two configurations, one
\* text, the packet that proves it and the one that blocks it, a fit and an unfit
\* response, scores at the bar or none.
FewPackets ==
  {None, NoPacket, Blocking(t1, "security"),
   [request |-> t1, route |-> {"security"}, status |-> "READY"]}

FewContents == {None, {"egress"}, {"secret"}}

Few(r) == /\ text[r] \in {None, t1}
          /\ packet[r] \in FewPackets
          /\ raw[r] \in FewContents
          /\ measure[r] # None => measure[r].confidence # 94

\* One request with all the data there is, or two with a little of it, and half a
\* line of the trail between them.  Whatever state a request is in, its next step
\* has an outcome within the bound.
Bounded ==
  \/ pc[r2] = "idle" /\ ~ torn
  \/ config \in FewConfigs /\ \A r \in Requests : Few(r)
=============================================================================
