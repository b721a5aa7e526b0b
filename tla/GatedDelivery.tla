---------------------------- MODULE GatedDelivery ----------------------------
(* What the companion promises about one request, with no gate, no evidence *)
(* packet and no bookkeeping in sight: each request is judged once, fit or  *)
(* unfit; what is fit is answered, what is unfit is withheld, and a request *)
(* that ends in an error is never answered.  Companion.tla implements this. *)
CONSTANT Requests

VARIABLES
  judgement,   \* request -> "open", "fit" or "unfit"
  outcome      \* request -> "none", "answer", "withheld" or "failed"

dvars == <<judgement, outcome>>

Judgements == {"open", "fit", "unfit"}
Outcomes == {"none", "answer", "withheld", "failed"}

DInit == /\ judgement = [r \in Requests |-> "open"]
         /\ outcome = [r \in Requests |-> "none"]

\* The judgement is passed once and is final.
Judge(r) == /\ judgement[r] = "open" /\ outcome[r] = "none"
            /\ \E j \in {"fit", "unfit"} :
                 judgement' = [judgement EXCEPT ![r] = j]
            /\ UNCHANGED outcome

Release(r) == /\ judgement[r] # "open" /\ outcome[r] = "none"
              /\ outcome' = [outcome EXCEPT ![r] =
                   IF judgement[r] = "fit" THEN "answer" ELSE "withheld"]
              /\ UNCHANGED judgement

Fail(r) == /\ outcome[r] = "none"
           /\ outcome' = [outcome EXCEPT ![r] = "failed"]
           /\ UNCHANGED judgement

\* A host that stops takes all the requests it was serving with it.
FailAll == /\ \E R \in SUBSET {r \in Requests : outcome[r] = "none"} :
                outcome' = [r \in Requests |->
                              IF r \in R THEN "failed" ELSE outcome[r]]
           /\ UNCHANGED judgement

DNext == (\E r \in Requests : Judge(r) \/ Release(r) \/ Fail(r)) \/ FailAll

DSpec == DInit /\ [][DNext]_dvars
=============================================================================
