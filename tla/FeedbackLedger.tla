--------------------------- MODULE FeedbackLedger ---------------------------
(* What the feedback loop promises: one ledger of candidate learnings that   *)
(* every work item, promotion and dismissal changes in one indivisible step. *)
(* FeedbackStore.tla implements it with a file, a temporary file and a lock. *)
EXTENDS FeedbackRecords

VARIABLE ledger     \* the candidates

LInit == ledger = <<>>

LNext == \E id \in Ids :
  \/ ledger' = Upsert(ledger, id)
  \/ Open(ledger, id) # {} /\ \E target \in Allowed :
       ledger' = Promote(ledger, id, target)
  \/ Open(ledger, id) # {} /\ ledger' = Dismiss(ledger, id)

LSpec == LInit /\ [][LNext]_ledger
=============================================================================
