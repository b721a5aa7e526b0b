---------------------------- MODULE PlanOfRecord ----------------------------
(* What staged mode promises about a plan, with no file, no copies and no    *)
(* commands in sight: it is drafted, approved once, and then performed one   *)
(* step after the other; a step is performed whole or not at all, and        *)
(* nothing but a new draft takes anything back.  StagedPlan.tla implements   *)
(* this while commands run one at a time to their end.                       *)
EXTENDS Naturals

CONSTANTS NSteps, None

VARIABLE plan     \* the plan in force, None before the first draft

\* q is a new draft, of the next generation, and replaces p, whatever p is.
Drafted(p, q) ==
  q = [gen |-> IF p = None THEN 1 ELSE p.gen + 1,
       status |-> "draft", done |-> {}, blocked |-> {}]

\* q is the draft p, approved.
Approved(p, q) ==
  /\ p # None /\ p.status = "draft"
  /\ q = [p EXCEPT !.status = "approved"]

\* q is p with its first open step done, whether the gate blocked its artifact or
\* not; the last one ends the plan.
Performed(p, q) ==
  /\ p # None /\ p.status \in {"approved", "executing"}
  /\ \E s \in 1..NSteps, stopped \in SUBSET (1..NSteps) :
       /\ p.done = 1..(s - 1) /\ stopped \subseteq {s}
       /\ q = [gen |-> p.gen,
               status |-> IF s = NSteps THEN "done" ELSE "executing",
               done |-> 1..s, blocked |-> p.blocked \cup stopped]

PInit == plan = None

PNext == \/ Drafted(plan, plan') \/ Approved(plan, plan')
         \/ Performed(plan, plan')

PSpec == PInit /\ [][PNext]_plan
=============================================================================
