----------------------------- MODULE StagedPlan -----------------------------
(* agents/staged.py: one plan (one intent, hence one id and one JSON file)   *)
(* and the `plan` commands that create, approve and execute it.  Every       *)
(* command is a process of its own: it loads the file, works on its copy,    *)
(* calls the orchestrator, and writes the file back in two steps, truncate   *)
(* and write.  Commands overlap, writes fail silently, processes are killed. *)
EXTENDS Naturals, FiniteSets

CONSTANTS
  Commands,   \* processes that may run a plan command
  NSteps,     \* steps of a plan
  MaxGens,    \* bound on how often the plan is (re)created
  MaxRuns,    \* bound on the orchestrator calls of one step
  Faults,     \* whether writes may fail and processes be killed
  Missing,    \* the plan file does not exist
  Empty,      \* it was opened for writing and holds nothing yet
  Torn,       \* it holds text that does not parse
  None

ASSUME StagedAssumption ==
  /\ NSteps \in Nat \ {0} /\ MaxGens \in Nat /\ MaxRuns \in Nat \ {0}
  /\ Faults \in BOOLEAN

Steps == 1..NSteps
Gens == 1..MaxGens     \* created_at: which creation of the plan this is

\* A plan is [gen, status, done, blocked].
Plans == [gen : Gens, status : {"draft", "approved", "executing", "done"},
          done : SUBSET Steps, blocked : SUBSET Steps]

ASSUME SentinelAssumption ==
  Missing \notin Plans /\ Empty \notin Plans /\ Torn \notin Plans /\ None \notin Plans

VARIABLES
  file,       \* the plan file: a plan, Missing, Empty or Torn
  pc,         \* command -> "idle", "handle", "truncate" or "write"
  mem,        \* command -> its copy of the plan
  gens,       \* plans created so far
  approvals,  \* generations a human's approve command accepted
  runs,       \* <<gen, step>> -> orchestrator calls made for it
  quiet       \* no two commands overlapped so far, and no save was lost

vars == <<file, pc, mem, gens, approvals, runs, quiet>>

\* load: None unless the file holds a whole plan.
Loadable == file \notin {Missing, Empty, Torn}

NotDone(plan) == Steps \ plan.done

\* Mutant: any step that is not done may run.
AnyNext(s, plan) == s \in NotDone(plan)

IsNext(s, plan) == s \in NotDone(plan) /\ \A u \in NotDone(plan) : s <= u

\* Mutant: a step the gate blocked stays open.
MarkedIfPassed(plan, s, blocked) ==
  LET done == IF blocked THEN plan.done ELSE plan.done \cup {s}
  IN  [plan EXCEPT !.done = done,
                   !.status = IF done = Steps THEN "done" ELSE @]

\* A plan whose step s was produced, and blocked by the gate or not.
Marked(plan, s, blocked) ==
  LET done == plan.done \cup {s}
  IN  [plan EXCEPT
        !.done = done,
        !.blocked = IF blocked THEN @ \cup {s} ELSE @ \ {s},
        !.status = IF done = Steps THEN "done" ELSE @]

Init ==
  /\ file = Missing
  /\ pc = [c \in Commands |-> "idle"]
  /\ mem = [c \in Commands |-> None]
  /\ gens = 0 /\ approvals = {}
  /\ runs = [x \in Gens \X Steps |-> 0]
  /\ quiet = TRUE

Save(c, plan) == /\ mem' = [mem EXCEPT ![c] = plan]
                 /\ pc' = [pc EXCEPT ![c] = "truncate"]

\* Mutant: the copy is dropped and the command goes on.
DropCopy(c) == mem' = [mem EXCEPT ![c] = None] /\ UNCHANGED pc

Exit(c) == /\ mem' = [mem EXCEPT ![c] = None]
           /\ pc' = [pc EXCEPT ![c] = "idle"]

\* A command begins, beside others or alone.
Begin(c) == /\ pc[c] = "idle"
            /\ quiet' = (quiet /\ \A d \in Commands : pc[d] = "idle")

\* plan: a new draft, whatever the file holds.
Create(c) ==
  /\ Begin(c) /\ gens < MaxGens
  /\ gens' = gens + 1
  /\ Save(c, [gen |-> gens + 1, status |-> "draft", done |-> {}, blocked |-> {}])
  /\ UNCHANGED <<file, approvals, runs>>

\* Mutant: a plan is approved again after its steps ran.
ApproveAny(c) ==
  /\ Begin(c) /\ Loadable
  /\ approvals' = approvals \cup {file.gen}
  /\ Save(c, [file EXCEPT !.status = "approved"])
  /\ UNCHANGED <<file, gens, runs>>

\* approve: only a draft; the command reports success whether or not it saves.
Approve(c) ==
  /\ Begin(c) /\ Loadable /\ file.status = "draft"
  /\ approvals' = approvals \cup {file.gen}
  /\ Save(c, [file EXCEPT !.status = "approved"])
  /\ UNCHANGED <<file, gens, runs>>

\* Mutant: a draft is executed like any plan.
ExecuteDraft(c) ==
  /\ Begin(c) /\ Loadable
  /\ IF NotDone(file) = {}
     THEN Save(c, [file EXCEPT !.status = "done"])
     ELSE /\ mem' = [mem EXCEPT ![c] = [file EXCEPT !.status = "executing"]]
          /\ pc' = [pc EXCEPT ![c] = "handle"]
  /\ UNCHANGED <<file, gens, approvals, runs>>

\* execute_next up to the orchestrator call; refused on a draft or no plan.
ExecuteNext(c) ==
  /\ Begin(c) /\ Loadable /\ file.status # "draft"
  /\ IF NotDone(file) = {}
     THEN Save(c, [file EXCEPT !.status = "done"])
     ELSE /\ mem' = [mem EXCEPT ![c] = [file EXCEPT !.status = "executing"]]
          /\ pc' = [pc EXCEPT ![c] = "handle"]
  /\ UNCHANGED <<file, gens, approvals, runs>>

\* orch.handle on the next step of the copy, then the marks.
Handle(c) ==
  /\ pc[c] = "handle"
  /\ \E s \in Steps, blocked \in BOOLEAN :
       LET x == <<mem[c].gen, s>>
       IN  /\ IsNext(s, mem[c]) /\ runs[x] < MaxRuns
           /\ runs' = [runs EXCEPT ![x] = @ + 1]
           /\ Save(c, Marked(mem[c], s, blocked))
  /\ UNCHANGED <<file, gens, approvals, quiet>>

\* Mutant: the step is marked although its call raised.
MarkRaised(c) ==
  /\ pc[c] = "handle"
  /\ \E s \in Steps : /\ IsNext(s, mem[c])
                      /\ Save(c, Marked(mem[c], s, FALSE))
  /\ UNCHANGED <<file, gens, approvals, runs, quiet>>

\* orch.handle raises: the command ends and nothing is marked.
HandleRaises(c) ==
  /\ pc[c] = "handle"
  /\ Exit(c)
  /\ UNCHANGED <<file, gens, approvals, runs, quiet>>

\* write_text, first half: the file is opened and emptied.
Truncate(c) ==
  /\ pc[c] = "truncate"
  /\ file' = Empty
  /\ pc' = [pc EXCEPT ![c] = "write"]
  /\ UNCHANGED <<mem, gens, approvals, runs, quiet>>

\* write_text, second half.  If another command wrote since, the end of its longer
\* text may stay behind ours.
Write(c) ==
  /\ pc[c] = "write"
  /\ file' \in {mem[c]} \cup (IF file \in {Empty, mem[c]} THEN {} ELSE {Torn})
  /\ Exit(c)
  /\ UNCHANGED <<gens, approvals, runs, quiet>>

\* _save swallows every error: before it opened the file, or after.
SaveFails(c) ==
  /\ Faults /\ pc[c] \in {"truncate", "write"}
  /\ Exit(c)
  /\ quiet' = FALSE
  /\ UNCHANGED <<file, gens, approvals, runs>>

Kill(c) ==
  /\ Faults /\ pc[c] # "idle"
  /\ Exit(c)
  /\ quiet' = (quiet /\ pc[c] = "handle")
  /\ UNCHANGED <<file, gens, approvals, runs>>

Next == \E c \in Commands :
  \/ Create(c) \/ Approve(c) \/ ExecuteNext(c) \/ Handle(c)
  \/ HandleRaises(c) \/ Truncate(c) \/ Write(c) \/ SaveFails(c) \/ Kill(c)

Spec == Init /\ [][Next]_vars

----------------------------------------------------------------------------
\* Every variable stays in its range.
TypeOK ==
  /\ file \in Plans \cup {Missing, Empty, Torn}
  /\ pc \in [Commands -> {"idle", "handle", "truncate", "write"}]
  /\ mem \in [Commands -> Plans \cup {None}]
  /\ gens \in 0..MaxGens /\ approvals \subseteq Gens
  /\ runs \in [Gens \X Steps -> 0..MaxRuns]
  /\ quiet \in BOOLEAN

\* "HUMAN APPROVAL is a hard gate between planning and execution" (staged.py:13):
\* no step of a plan runs unless a human approved that very creation of it,
\* however the commands overlap, fail or are killed.
ApprovedBeforeExecuted ==
  \A x \in Gens \X Steps : runs[x] > 0 => x[1] \in approvals

\* Steps run in order: one runs only after all the earlier ones of its plan did.
OrderedExecution ==
  \A g \in Gens, s, u \in Steps : u < s /\ runs[<<g, s>>] > 0 => runs[<<g, u>>] > 0

\* A checked box is the truth: what the file marks done was run, and a plan that
\* says it is done has run every step.
DoneIsBacked ==
  Loadable => /\ \A s \in file.done : runs[<<file.gen, s>>] > 0
              /\ file.status = "done" => file.done = Steps
              /\ file.blocked \subseteq file.done

\* What a plan says is all that happened: it is the latest creation, past its draft
\* exactly if a human approved it, and each of its steps ran once or is open.
Told(plan) ==
  /\ plan.gen = gens
  /\ plan.status # "draft" <=> plan.gen \in approvals
  /\ \A s \in Steps : runs[<<plan.gen, s>>] = IF s \in plan.done THEN 1 ELSE 0

\* Commands that never overlapped and whose saves all came to their end left a file
\* that loads and tells all: no approval was lost and no step ran twice, wherever a
\* step raised, was blocked by the gate or was killed before its call.
FileTellsAll ==
  quiet /\ gens > 0 /\ (\A c \in Commands : pc[c] = "idle") =>
    Loadable /\ Told(file)

\* What the plan is, whichever command has it: the copy of a command that emptied
\* the file to write it, and else what the file loads as.
Current ==
  LET writing == {c \in Commands : pc[c] = "write"}
  IN  IF writing # {} THEN mem[CHOOSE c \in writing : TRUE]
      ELSE IF Loadable THEN file ELSE None

\* As long as commands do not overlap and no save is lost, the plan changes as the
\* plan of record does: it is drafted, approved and performed a whole step at a time,
\* in order, although the file is empty while it is written and the orchestrator may
\* raise, block or be killed (plan, approve, execute_next).
Record == INSTANCE PlanOfRecord WITH plan <- Current

ImplementsPlan ==
  Record!PInit /\ [][quiet' => [Record!PNext]_Current]_vars
=============================================================================
