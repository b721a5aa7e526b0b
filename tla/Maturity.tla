------------------------------ MODULE Maturity ------------------------------
(* The maturity ladder of agents/maturity.py over the records it reads: the  *)
(* audit trail and the backlog that the governance gate's verdicts feed, the *)
(* knowledge files and the ratification marker.  compute_maturity reads them *)
(* one after another while all of them go on changing.                       *)
(* One process feeds the backlog here, so an id has at most one open         *)
(* candidate (OneOpenPerId of FeedbackStore) and a set of ids will do.       *)
EXTENDS GovernanceGate, FiniteSets, Sequences

CONSTANTS
  Calls,            \* what the gate is called on
  Ids,              \* candidate ids
  Window,           \* how many of the last events tail returns
  GroundingBar, DeclineCeiling,     \* the two rates, in percent
  CoverageBroad, CoverageGrowing,   \* numbers of knowledge files
  MinAnswers,       \* min_answers_to_leave_seed
  MaxEvents, MaxPromoted, MaxFiles, \* bounds on what accumulates
  Nothing           \* nothing read, no report

\* A grounding bar of 0 would call an instance that never answered grounded.
ASSUME MaturityAssumption ==
  /\ IsFiniteSet(Ids) /\ Window \in Nat \ {0}
  /\ GroundingBar \in 1..100 /\ DeclineCeiling \in 0..100
  /\ CoverageBroad \in Nat /\ CoverageGrowing \in Nat /\ MinAnswers \in Nat
  /\ MaxEvents \in Nat /\ MaxPromoted \in Nat /\ MaxFiles \in Nat

Codes == BlockCodes \cup InfoCodes

\* What compute_maturity looks at in a gate_decision event.
Events == [blocked : BOOLEAN, sourced : BOOLEAN, findings : SUBSET Codes]

\* The ladder.
Height == [seeded |-> 0, cultivating |-> 1, grounded |-> 2,
           productionized |-> 3, sustaining |-> 4]

VARIABLES
  trail,     \* the audit trail
  open,      \* ids with an open candidate
  promoted,  \* how many candidates were promoted
  files,     \* non-empty *.yaml files below knowledge/, PRINCIPLES.yaml apart
  ratified,  \* the marker is there, parses and says so
  pc,        \* "idle", "open", "promoted", "coverage", "ratified" or "done"
  seen,      \* what the report has read so far
  report,    \* [stage, eligible], when done
  blind,     \* ghost: the open candidates could not be read
  start,     \* ghost: grounded answers and boundaries crossed when it began
  standing   \* ghost: ids whose candidate has been open ever since

stores == <<trail, open, promoted, files, ratified>>
reading == <<pc, seen, report, blind, start>>
vars == <<stores, reading, standing>>

----------------------------------------------------------------------------
\* The computation.
WindowOf(events) ==
  {i \in DOMAIN events : i > Len(events) - Window}

IsGroundedAnswer(e) == ~ e.blocked /\ e.sourced

\* Codes whose finding's text holds "Tenet 1", "Tenet 3" or "Tenet 6"; the first
\* is part of "Tenet 11" and "Tenet 12" too.
\* Mutant: secrets are left out.
NamedBoundaryNoSecrets ==
  {"T1_DEPLOY_CLAIM", "T1_DEPLOY_COMMAND", "T3_SOR_WRITE",
   "T11_FETCH_EXECUTE", "T11_FETCH_EXECUTE_DESC", "T11_EGRESS", "T12_RUNAWAY"}

NamedBoundary ==
  {"T1_DEPLOY_CLAIM", "T1_DEPLOY_COMMAND", "T3_SOR_WRITE", "T6_SECRET_LEAK",
   "T11_FETCH_EXECUTE", "T11_FETCH_EXECUTE_DESC", "T11_EGRESS", "T12_RUNAWAY"}

IsMisuse(e) ==
  e.blocked /\ (e.findings \cap NamedBoundary # {} \/ e.findings = {})

GroundedIn(events) == {i \in WindowOf(events) : IsGroundedAnswer(events[i])}
MisuseIn(events) == {i \in WindowOf(events) : IsMisuse(events[i])}

Band(keys) == IF keys >= CoverageBroad THEN "broad"
              ELSE IF keys >= CoverageGrowing THEN "growing" ELSE "sparse"

\* Both rates, as shares of the answers and gaps there are, against their bars.
\* Mutant: the decline ceiling is forgotten.
RatesMeetOneBar(grounded, gaps) ==
  /\ grounded + gaps > 0
  /\ 100 * grounded >= GroundingBar * (grounded + gaps)

RatesMeetBars(grounded, gaps) ==
  /\ grounded + gaps > 0
  /\ 100 * grounded >= GroundingBar * (grounded + gaps)
  /\ 100 * gaps <= DeclineCeiling * (grounded + gaps)

MeetsGroundBar(grounded, clean, gaps, keys) ==
  RatesMeetBars(grounded, gaps) /\ Band(keys) = "broad" /\ clean

\* Mutant: only open gaps count as learning.
StageByGaps(grounded, clean, gaps, reviewed, keys, marked) ==
  IF grounded < MinAnswers /\ Band(keys) = "sparse" THEN "seeded"
  ELSE IF MeetsGroundBar(grounded, clean, gaps, keys)
  THEN IF marked THEN "sustaining" ELSE "grounded"
  ELSE IF marked \/ gaps > 0 THEN "cultivating" ELSE "seeded"

\* Mutant: ratification makes the stage productionized.
StageSelfPromoting(grounded, clean, gaps, reviewed, keys, marked) ==
  IF grounded < MinAnswers /\ Band(keys) = "sparse" THEN "seeded"
  ELSE IF MeetsGroundBar(grounded, clean, gaps, keys)
  THEN IF marked THEN "productionized" ELSE "grounded"
  ELSE IF marked \/ gaps > 0 \/ reviewed > 0 THEN "cultivating" ELSE "seeded"

Stage(grounded, clean, gaps, reviewed, keys, marked) ==
  IF grounded < MinAnswers /\ Band(keys) = "sparse" THEN "seeded"
  ELSE IF MeetsGroundBar(grounded, clean, gaps, keys)
  THEN IF marked THEN "sustaining" ELSE "grounded"
  ELSE IF marked \/ gaps > 0 \/ reviewed > 0 THEN "cultivating" ELSE "seeded"

----------------------------------------------------------------------------
Init ==
  /\ trail = <<>> /\ open = {} /\ promoted = 0 /\ ratified = FALSE
  /\ files \in 0..MaxFiles
  /\ pc = "idle" /\ seen = Nothing /\ report = Nothing
  /\ blind = FALSE /\ start = Nothing /\ standing = {}

Event(result) == [blocked  |-> result.blocked,
                  sourced  |-> result.sources # {},
                  findings |-> result.findings]

\* The gate's verdict on a call, and its two records; either may fail to be
\* written.  The id is the digest of the call's agent and request.
Turn(call, id) ==
  /\ Len(trail) < MaxEvents
  /\ LET result == Enforce(call)
     IN  /\ trail' \in {trail, Append(trail, Event(result))}
         /\ open' \in {open, IF IsGap(result) THEN open \cup {id} ELSE open}
  /\ UNCHANGED <<promoted, files, ratified, reading, standing>>

Promote(id) ==
  /\ id \in open /\ promoted < MaxPromoted
  /\ open' = open \ {id} /\ standing' = standing \ {id}
  /\ promoted' = promoted + 1
  /\ UNCHANGED <<trail, files, ratified, reading>>

Dismiss(id) ==
  /\ id \in open
  /\ open' = open \ {id} /\ standing' = standing \ {id}
  /\ UNCHANGED <<trail, promoted, files, ratified, reading>>

AddFile ==
  /\ files < MaxFiles /\ files' = files + 1
  /\ UNCHANGED <<trail, open, promoted, ratified, reading, standing>>

RemoveFile ==
  /\ files > 0 /\ files' = files - 1
  /\ UNCHANGED <<trail, open, promoted, ratified, reading, standing>>

\* A human writes the marker; anyone may remove or damage it.
Ratify ==
  /\ ~ ratified /\ ratified' = TRUE
  /\ UNCHANGED <<trail, open, promoted, files, reading, standing>>

Withdraw ==
  /\ ratified /\ ratified' = FALSE
  /\ UNCHANGED <<trail, open, promoted, files, reading, standing>>

----------------------------------------------------------------------------
\* compute_maturity on the live stores.  What cannot be read counts as empty.

\* The gate blocked it for a boundary of its own (Tenets 1, 3 and 6).
CrossedBoundary(e) ==
  e.blocked /\ e.findings \cap {"T1_DEPLOY_CLAIM", "T3_SOR_WRITE", "T6_SECRET_LEAK"} # {}

ReadTrail ==
  /\ pc = "idle" /\ pc' = "open"
  /\ seen' \in {[grounded |-> Cardinality(GroundedIn(trail)),
                 clean    |-> MisuseIn(trail) = {},
                 gaps |-> 0, reviewed |-> 0, keys |-> 0],
                [grounded |-> 0, clean |-> TRUE,
                 gaps |-> 0, reviewed |-> 0, keys |-> 0]}
  /\ start' = [grounded |-> Cardinality(GroundedIn(trail)),
               crossed |-> \E i \in WindowOf(trail) : CrossedBoundary(trail[i])]
  /\ standing' = open
  /\ UNCHANGED <<stores, report, blind>>

ReadOpen ==
  /\ pc = "open" /\ pc' = "promoted"
  /\ \/ seen' = [seen EXCEPT !.gaps = Cardinality(open)] /\ blind' = FALSE
     \/ UNCHANGED seen /\ blind' = TRUE
  /\ UNCHANGED <<stores, report, start, standing>>

ReadPromoted ==
  /\ pc = "promoted" /\ pc' = "coverage"
  /\ \/ seen' = [seen EXCEPT !.reviewed = promoted]
     \/ UNCHANGED seen
  /\ UNCHANGED <<stores, report, blind, start, standing>>

\* _count_coverage_keys skips a file it cannot stat, and gives up with none.
CountCoverage ==
  /\ pc = "coverage" /\ pc' = "ratified"
  /\ \E n \in 0..files : seen' = [seen EXCEPT !.keys = n]
  /\ UNCHANGED <<stores, report, blind, start, standing>>

\* _is_ratified reads the marker last, and the rest is arithmetic.
Conclude ==
  /\ pc = "ratified" /\ pc' = "done"
  /\ \E marked \in {ratified, FALSE} :
       report' =
         [stage    |-> Stage(seen.grounded, seen.clean, seen.gaps,
                             seen.reviewed, seen.keys, marked),
          eligible |-> /\ ~ (seen.grounded < MinAnswers /\ Band(seen.keys) = "sparse")
                       /\ MeetsGroundBar(seen.grounded, seen.clean, seen.gaps, seen.keys)
                       /\ ~ marked]
  /\ seen' = Nothing
  /\ UNCHANGED <<stores, blind, start, standing>>

\* The caller takes the report.
HandOver ==
  /\ pc = "done" /\ pc' = "idle"
  /\ report' = Nothing /\ blind' = FALSE /\ start' = Nothing /\ standing' = {}
  /\ UNCHANGED <<stores, seen>>

Next ==
  \/ \E call \in Calls, id \in Ids : Turn(call, id)
  \/ \E id \in Ids : Promote(id) \/ Dismiss(id)
  \/ AddFile \/ RemoveFile \/ Ratify \/ Withdraw
  \/ ReadTrail \/ ReadOpen \/ ReadPromoted \/ CountCoverage \/ Conclude \/ HandOver

Spec == Init /\ [][Next]_vars

----------------------------------------------------------------------------
Readings == [grounded : Nat, clean : BOOLEAN, gaps : Nat, reviewed : Nat, keys : Nat]

\* Type correctness; in particular no report ever says productionized, the stage
\* a human alone decides on (maturity.py:39).
TypeOK ==
  /\ trail \in Seq(Events) /\ Len(trail) <= MaxEvents
  /\ open \subseteq Ids /\ promoted \in 0..MaxPromoted
  /\ files \in 0..MaxFiles /\ ratified \in BOOLEAN
  /\ pc \in {"idle", "open", "promoted", "coverage", "ratified", "done"}
  /\ IF pc \in {"idle", "done"} THEN seen = Nothing ELSE seen \in Readings
  /\ IF pc = "done"
     THEN report \in [stage : DOMAIN Height \ {"productionized"}, eligible : BOOLEAN]
     ELSE report = Nothing
  /\ IF pc = "idle" THEN start = Nothing
     ELSE start \in [grounded : Nat, crossed : BOOLEAN]
  /\ blind \in BOOLEAN /\ standing \subseteq open

\* The report calls the instance expert enough.
SaysReady ==
  pc = "done" /\ (report.eligible \/ report.stage \in {"grounded", "sustaining"})

\* An instance one of whose last Window answers was blocked for a boundary of the
\* gate is not called expert enough, whatever could not be read and whatever
\* changed meanwhile (maturity.py:182, MATURATION-PATH.md: "Zero governance
\* regressions").
MisuseBarsReadiness == SaysReady => ~ start.crossed

\* The answers and the gaps a report calls expert enough clear both bars, counting
\* at least the gaps that were open all the while; unless the backlog could not be
\* read at all, which counts as no gap.
ReadyIsEarned ==
  SaysReady /\ ~ blind =>
    LET answers == start.grounded  gaps == Cardinality(standing)
    IN  /\ answers > 0
        /\ 100 * answers >= GroundingBar * (answers + gaps)
        /\ 100 * gaps <= DeclineCeiling * (answers + gaps)

\* The stage a report would come to if nothing changed and nothing failed.
StageNow == Stage(Cardinality(GroundedIn(trail)), MisuseIn(trail) = {},
                  Cardinality(open), promoted, files, ratified)

\* The calls answered without anything left to learn.
WellAnswered ==
  {call \in Calls : ~ Enforce(call).blocked /\ ~ IsGap(Enforce(call))}

\* A good answer, a human's promotion or ratification, one more knowledge file.
Growth ==
  /\ stores' # stores
  /\ \/ \E call \in WellAnswered, id \in Ids : Turn(call, id)
     \/ \E id \in Ids : Promote(id)
     \/ AddFile \/ Ratify

\* Growth never takes an instance down the ladder, although an answer may push
\* another out of the window, a promotion may leave no gap to learn from, and
\* bars and bands interact (MATURATION-PATH.md: "never regresses silently;
\* demotes on decay").
GrowthNeverDemotes ==
  [][Growth => Height[StageNow'] >= Height[StageNow]]_vars
=============================================================================
