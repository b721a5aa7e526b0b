--------------------------- MODULE FeedbackRecords ---------------------------
(* The records of agents/feedback.py and what its operations make of a list  *)
(* of them, as pure operators.  A list is oldest first; a record is          *)
(* [id, status, target, seen].                                               *)
EXTENDS Naturals, Sequences

CONSTANT Ids    \* candidate ids: a hash of agent and normalized request

\* Where a promotion may land: Tier B only, and org is not a target.  Nowhere
\* is the target of a candidate that was not promoted.
Targets == {"tier_a", "tier_b"} \X {"org", "team", "project"}
Allowed == {"tier_b"} \X {"team", "project"}

Nowhere == <<"none", "none">>

Records == [id : Ids, status : {"candidate", "promoted", "dismissed"},
            target : Allowed \cup {Nowhere}, seen : Nat \ {0}]

\* Mutant: the first signal is not counted.
FreshUncounted(id) ==
  [id |-> id, status |-> "candidate", target |-> Nowhere, seen |-> 0]

Fresh(id) == [id |-> id, status |-> "candidate", target |-> Nowhere, seen |-> 1]

\* The places of the open candidates with this id.
Open(records, id) ==
  {i \in DOMAIN records : records[i].id = id /\ records[i].status = "candidate"}

\* Each operation changes the first open candidate with the id; only _upsert
\* also has something to do when there is none.
IsFirst(i, records, id) ==
  i \in Open(records, id) /\ \A j \in Open(records, id) : i <= j

\* Mutant: a repeated ask opens another candidate.
AppendAlways(records, id) == Append(records, Fresh(id))

\* Mutant: a repeated ask finds its candidate and leaves it as it was.
UpsertUncounted(records, id) ==
  IF Open(records, id) = {} THEN Append(records, Fresh(id)) ELSE records

Upsert(records, id) ==
  IF Open(records, id) = {} THEN Append(records, Fresh(id))
  ELSE [i \in DOMAIN records |->
          IF IsFirst(i, records, id)
          THEN [records[i] EXCEPT !.seen = @ + 1] ELSE records[i]]

Promote(records, id, target) ==
  [i \in DOMAIN records |->
     IF IsFirst(i, records, id)
     THEN [records[i] EXCEPT !.status = "promoted", !.target = target]
     ELSE records[i]]

\* Mutant: every open candidate is dismissed.
DismissAll(records, id) ==
  [i \in DOMAIN records |->
     IF records[i].status = "candidate"
     THEN [records[i] EXCEPT !.status = "dismissed"] ELSE records[i]]

Dismiss(records, id) ==
  [i \in DOMAIN records |->
     IF IsFirst(i, records, id)
     THEN [records[i] EXCEPT !.status = "dismissed"] ELSE records[i]]
=============================================================================
