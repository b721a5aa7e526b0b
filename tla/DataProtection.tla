--------------------------- MODULE DataProtection ---------------------------
(* The guard of agents/data_protection.py that writes to knowledge and memory *)
(* stores are meant to pass: scan, the optional managed backend, and reject   *)
(* or redact.  A text is the set of things in it that somebody might look     *)
(* for, each with the part of the text it stands in.                         *)
EXTENDS FiniteSets

CONSTANTS Texts   \* what may be submitted: sets of Items

SecretDetectors == {"aws_key", "aws_temp_key", "aws_secret", "private_key", "jwt",
                    "slack", "github", "connection", "credential"}
PiiDetectors == {"email", "phone"}

\* One proprietary term stands for all that are configured.
Detectors == SecretDetectors \cup PiiDetectors \cup {"proprietary"}

\* "head": the first 5000 characters; "body": up to _MAX_SCAN_CHARS; "past": on.
\* A "name" is personal data no pattern describes; "config" is what must stay.
Items == [what : Detectors \cup {"name", "config"}, where : {"head", "body", "past"}]

Placeholder(detector) ==
  CASE detector \in {"aws_key", "aws_temp_key"} -> "[REDACTED-AWS-KEY]"
    [] detector \in {"slack", "github"}         -> "[REDACTED-TOKEN]"
    [] detector = "aws_secret"  -> "[REDACTED-AWS-SECRET]"
    [] detector = "private_key" -> "[REDACTED-PRIVATE-KEY]"
    [] detector = "jwt"         -> "[REDACTED-JWT]"
    [] detector = "connection"  -> "[REDACTED-CONN-SECRET]"
    [] detector = "credential"  -> "[REDACTED-CREDENTIAL]"
    [] detector = "email"       -> "[REDACTED-EMAIL]"
    [] detector = "phone"       -> "[REDACTED-PHONE]"
    [] detector = "proprietary" -> "[REDACTED-PROPRIETARY]"

VARIABLES
  pc,        \* "idle", "scan", "managed", "decide" or "done"
  mode,      \* GAC_DATA_PROTECTION_MODE; whatever is unknown is balanced
  backend,   \* GAC_PII_BACKEND; whatever is unknown is none
  text,      \* the guarded prefix
  findings,  \* [label, action, placeholder, spans]: spans is what it found
  result     \* [ok, cleaned, reasons]: reasons are the findings it names

vars == <<pc, mode, backend, text, findings, result>>

NoResult == [ok |-> TRUE, cleaned |-> {}, reasons |-> {}]

ActionFor(secret) ==
  IF mode = "redact" THEN "redact"
  ELSE IF mode = "strict" \/ secret THEN "reject" ELSE "redact"

Scan(t) ==
  {[label |-> d, action |-> ActionFor(d \in SecretDetectors),
    placeholder |-> Placeholder(d), spans |-> {i \in t : i.what = d}] :
     d \in {i.what : i \in t} \cap Detectors}

\* A managed finding on these spans.
Managed(label, spans) ==
  [label |-> label, action |-> ActionFor(FALSE),
   placeholder |-> "[REDACTED-PII]", spans |-> spans]

\* What a service finds of the personal data in the first 5000 characters.
Seen(t) == SUBSET {i \in t : i.where = "head" /\ i.what \in PiiDetectors \cup {"name"}}

\* Every pattern whose placeholder some finding wants put in is substituted, and
\* with it what it matched: of a private key that is the header line only, so
\* "private_key" stands for that line.
ApplyRedactions(t, found) ==
  {i \in t : ~ (/\ i.what \in Detectors
                /\ \E f \in found : /\ f.placeholder = Placeholder(i.what)
                                    /\ f.action = "redact")}

----------------------------------------------------------------------------
Init ==
  /\ pc = "idle" /\ text = {} /\ findings = {} /\ result = NoResult
  /\ mode \in {"balanced", "strict", "redact"}
  /\ backend \in {"none", "comprehend", "guardrails"}

\* scrub_or_reject on a text; an empty one needs no guarding.
Submit(t) ==
  /\ pc = "idle"
  /\ text' = {i \in t : i.where # "past"}
  /\ pc' = IF t = {} THEN "done" ELSE "scan"
  /\ UNCHANGED <<mode, backend, findings, result>>

ScanText ==
  /\ pc = "scan" /\ pc' = "managed"
  /\ findings' = Scan(text)
  /\ UNCHANGED <<mode, backend, text, result>>

\* The managed backend only adds findings; one that raises adds none.
AskManaged ==
  /\ pc = "managed" /\ pc' = "decide"
  /\ \/ UNCHANGED findings
     \/ /\ backend = "comprehend"
        /\ \E spans \in Seen(text) :
             findings' = findings \cup
               {Managed("Comprehend", {i}) : i \in spans}
     \/ /\ backend = "guardrails"
        /\ \E spans \in Seen(text) \ {{}} :
             findings' = findings \cup {Managed("Guardrails", spans)}
  /\ UNCHANGED <<mode, backend, text, result>>

Decide ==
  /\ pc = "decide" /\ pc' = "done"
  /\ LET rejecting == {f \in findings : f.action = "reject"}
     IN  result' = IF rejecting # {}
                   THEN [ok |-> FALSE, cleaned |-> {}, reasons |-> rejecting]
                   ELSE [ok |-> TRUE, cleaned |-> ApplyRedactions(text, findings),
                         reasons |-> findings]
  /\ UNCHANGED <<mode, backend, text, findings>>

Return ==
  /\ pc = "done" /\ pc' = "idle"
  /\ text' = {} /\ findings' = {} /\ result' = NoResult
  /\ UNCHANGED <<mode, backend>>

Next == (\E t \in Texts : Submit(t)) \/ ScanText \/ AskManaged \/ Decide \/ Return

Spec == Init /\ [][Next]_vars

----------------------------------------------------------------------------
\* What the guard says it redacted before storing is not in the text it hands on
\* to be stored (scrub_or_reject's reasons: "Redacted before storing: ...").
RedactedMeansGone ==
  result.ok => \A f \in result.reasons : f.spans \cap result.cleaned = {}
=============================================================================
