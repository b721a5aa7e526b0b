-------------------------- MODULE StagedPlanProofs --------------------------
(* The safety of StagedPlan for any number of commands, steps, creations and *)
(* calls, with or without faults.  The file alone is not inductive: what is  *)
(* in it was put there from a command's copy, so the same must hold of every *)
(* copy in memory, and a copy about to be executed must be past its draft.   *)
(* And, for commands that run one at a time to their end, that the file tells *)
(* all that happened: what it does not say yet, the one copy at work does.   *)
EXTENDS StagedPlan, TLAPS

\* What holds of a plan wherever it is kept, given what was approved and run.
Sound(plan, approved, ran) ==
  /\ plan.status # "draft" => plan.gen \in approved
  /\ plan.status = "draft" => plan.done = {}
  /\ plan.status = "done" => plan.done = Steps
  /\ plan.blocked \subseteq plan.done
  /\ \A s \in plan.done : ran[<<plan.gen, s>>] > 0

FileSound == Loadable => Sound(file, approvals, runs)

\* A command at work holds a sound copy, and executes only an approved one.
CopySound(c) ==
  pc[c] # "idle" =>
    /\ mem[c] \in Plans /\ Sound(mem[c], approvals, runs)
    /\ pc[c] = "handle" => mem[c].status # "draft"

IInv == /\ TypeOK /\ FileSound
        /\ \A c \in Commands : CopySound(c)
        /\ ApprovedBeforeExecuted /\ OrderedExecution

----------------------------------------------------------------------------
\* A sentinel is no plan, so the file is loadable exactly when it holds one.
LEMMA LoadableIsPlan ==
  ASSUME TypeOK PROVE Loadable <=> file \in Plans
BY SentinelAssumption DEF TypeOK, Loadable

\* Approvals and calls are only ever added to, and soundness survives that.
LEMMA SoundGrows ==
  ASSUME NEW plan \in Plans, NEW A, NEW B, A \subseteq B,
         NEW q \in [Gens \X Steps -> Nat], NEW r \in [Gens \X Steps -> Nat],
         \A x \in Gens \X Steps : r[x] >= q[x],
         Sound(plan, A, q)
  PROVE  Sound(plan, B, r)
BY DEF Sound, Plans, Gens, Steps

\* Marking a step as produced keeps a plan a plan, and sound once the step ran.
LEMMA MarkedIsPlan ==
  ASSUME NEW plan \in Plans, NEW s \in Steps, NEW blocked \in BOOLEAN
  PROVE  Marked(plan, s, blocked) \in Plans
BY DEF Marked, Plans

\* A sound plan stays sound when the step that just ran is marked.
LEMMA MarkedIsSound ==
  ASSUME NEW plan \in Plans, NEW s \in Steps, NEW blocked \in BOOLEAN,
         NEW A, NEW r \in [Gens \X Steps -> Nat],
         Sound(plan, A, r), plan.status # "draft", r[<<plan.gen, s>>] > 0
  PROVE  Sound(Marked(plan, s, blocked), A, r)
BY DEF Marked, Plans, Sound

----------------------------------------------------------------------------
\* Type correctness: every variable stays in its range.
LEMMA TypeStep == ASSUME IInv, [Next]_vars PROVE TypeOK'
<1> USE DEF IInv
<1>1. CASE UNCHANGED vars
  BY <1>1 DEF vars, TypeOK
<1> SUFFICES ASSUME NEW c \in Commands,
                    \/ Create(c) \/ Approve(c) \/ ExecuteNext(c) \/ Handle(c)
                    \/ HandleRaises(c) \/ Truncate(c) \/ Write(c)
                    \/ SaveFails(c) \/ Kill(c)
             PROVE  TypeOK'
  BY <1>1 DEF Next
<1>2. CASE Create(c)
  <2> DEFINE new == [gen |-> gens + 1, status |-> "draft",
                     done |-> {}, blocked |-> {}]
  <2>1. gens + 1 \in Gens /\ gens' \in 0..MaxGens
    BY <1>2, StagedAssumption DEF Create, TypeOK, Gens
  <2>2. new \in Plans
    BY <2>1 DEF Plans
  <2> QED
    BY <1>2, <2>1, <2>2 DEF Create, Begin, Save, TypeOK
<1>3. CASE Approve(c)
  <2>1. file \in Plans
    BY <1>3, LoadableIsPlan DEF Approve
  <2>2. [file EXCEPT !.status = "approved"] \in Plans /\ file.gen \in Gens
    BY <2>1 DEF Plans
  <2> QED
    BY <1>3, <2>2 DEF Approve, Begin, Save, TypeOK
<1>4. CASE ExecuteNext(c)
  <2>1. file \in Plans
    BY <1>4, LoadableIsPlan DEF ExecuteNext
  <2>2. /\ [file EXCEPT !.status = "done"] \in Plans
        /\ [file EXCEPT !.status = "executing"] \in Plans
    BY <2>1 DEF Plans
  <2> QED
    BY <1>4, <2>2 DEF ExecuteNext, Begin, Save, TypeOK
<1>5. CASE Handle(c)
  <2>1. PICK s \in Steps, blocked \in BOOLEAN :
          /\ runs[<<mem[c].gen, s>>] < MaxRuns
          /\ runs' = [runs EXCEPT ![<<mem[c].gen, s>>] = @ + 1]
          /\ Save(c, Marked(mem[c], s, blocked))
    BY <1>5 DEF Handle
  <2>2. mem[c] \in Plans
    BY <1>5 DEF Handle, IInv, CopySound
  <2>3. Marked(mem[c], s, blocked) \in Plans
    BY <2>2, MarkedIsPlan
  <2>4. runs' \in [Gens \X Steps -> 0..MaxRuns]
    BY <2>1, <2>2, StagedAssumption DEF TypeOK, Plans
  <2> QED
    BY <1>5, <2>1, <2>3, <2>4 DEF Handle, Save, TypeOK
<1>6. CASE HandleRaises(c)
  BY <1>6 DEF HandleRaises, Exit, TypeOK
<1>7. CASE Truncate(c)
  BY <1>7 DEF Truncate, TypeOK
<1>8. CASE Write(c)
  <2>1. mem[c] \in Plans
    BY <1>8 DEF Write, CopySound
  <2> QED
    BY <1>8, <2>1 DEF Write, Exit, TypeOK
<1>9. CASE SaveFails(c)
  BY <1>9 DEF SaveFails, Exit, TypeOK
<1>10. CASE Kill(c)
  BY <1>10 DEF Kill, Exit, TypeOK
<1> QED
  BY <1>2, <1>3, <1>4, <1>5, <1>6, <1>7, <1>8, <1>9, <1>10

----------------------------------------------------------------------------
\* Nothing approved is withdrawn and nothing run is undone.
LEMMA OnlyGrows ==
  ASSUME IInv, [Next]_vars
  PROVE  approvals \subseteq approvals' /\ \A x \in Gens \X Steps : runs'[x] >= runs[x]
<1>1. CASE UNCHANGED vars
  BY <1>1 DEF vars, IInv, TypeOK
<1> SUFFICES ASSUME NEW c \in Commands,
                    \/ Create(c) \/ Approve(c) \/ ExecuteNext(c) \/ Handle(c)
                    \/ HandleRaises(c) \/ Truncate(c) \/ Write(c)
                    \/ SaveFails(c) \/ Kill(c)
             PROVE  approvals \subseteq approvals' /\
                    \A x \in Gens \X Steps : runs'[x] >= runs[x]
  BY <1>1 DEF Next
<1>2. approvals \subseteq approvals'
  BY DEF Create, Approve, ExecuteNext, Handle, HandleRaises, Truncate, Write,
         SaveFails, Kill
<1>3. CASE Handle(c)
  BY <1>2, <1>3 DEF Handle, IInv, TypeOK
<1>4. CASE ~ Handle(c)
  BY <1>2, <1>4 DEF Create, Approve, ExecuteNext, HandleRaises, Truncate, Write,
                    SaveFails, Kill, IInv, TypeOK
<1> QED
  BY <1>3, <1>4

\* A sound plan stays sound: the copies of the commands that do not move, and the
\* file while nobody writes it.
LEMMA StillSound ==
  ASSUME IInv, [Next]_vars, NEW plan \in Plans, Sound(plan, approvals, runs)
  PROVE  Sound(plan, approvals', runs')
<1>1. runs \in [Gens \X Steps -> Nat] /\ runs' \in [Gens \X Steps -> Nat]
  BY TypeStep, StagedAssumption DEF IInv, TypeOK
<1> QED
  BY <1>1, OnlyGrows, SoundGrows

\* What the file marks done was run: only Write puts a plan there, its own copy.
LEMMA FileStep == ASSUME IInv, [Next]_vars PROVE FileSound'
<1>1. CASE file' = file
  <2> SUFFICES ASSUME Loadable PROVE Sound(file, approvals', runs')
    BY <1>1 DEF FileSound, Loadable
  <2> QED
    BY LoadableIsPlan, StillSound DEF IInv, FileSound
<1>2. CASE file' # file
  <2>1. PICK c \in Commands : Truncate(c) \/ Write(c)
    BY <1>2 DEF vars, Next, Create, Approve, ExecuteNext, Handle, HandleRaises,
                SaveFails, Kill
  <2>2. CASE Truncate(c)
    BY <2>2 DEF Truncate, FileSound, Loadable
  <2>3. CASE Write(c)
    <3>1. mem[c] \in Plans /\ Sound(mem[c], approvals', runs')
      BY <2>3, StillSound DEF IInv, CopySound, Write
    <3>2. file' = mem[c] \/ file' = Torn
      BY <2>3 DEF Write
    <3> QED
      BY <3>1, <3>2 DEF FileSound, Loadable
  <2> QED
    BY <2>1, <2>2, <2>3
<1> QED
  BY <1>1, <1>2

----------------------------------------------------------------------------
\* The copies: the one the step is about, and all the others.
LEMMA CopyStep ==
  ASSUME IInv, [Next]_vars, NEW d \in Commands PROVE CopySound(d)'
<1>0. TypeOK /\ CopySound(d) /\ FileSound
  BY DEF IInv
<1>1. CASE mem'[d] = mem[d] /\ pc'[d] = pc[d]
  <2> SUFFICES ASSUME pc[d] # "idle" PROVE Sound(mem[d], approvals', runs')
    BY <1>0, <1>1 DEF CopySound
  <2> QED
    BY <1>0, StillSound DEF CopySound
<1> SUFFICES ASSUME NEW c \in Commands, c = d,
                    \/ Create(c) \/ Approve(c) \/ ExecuteNext(c) \/ Handle(c)
                    \/ HandleRaises(c) \/ Truncate(c) \/ Write(c)
                    \/ SaveFails(c) \/ Kill(c)
             PROVE  CopySound(c)'
  <2>1. CASE UNCHANGED vars
    BY <1>1, <2>1 DEF vars
  <2>2. ASSUME NEW c \in Commands, c # d,
               \/ Create(c) \/ Approve(c) \/ ExecuteNext(c) \/ Handle(c)
               \/ HandleRaises(c) \/ Truncate(c) \/ Write(c)
               \/ SaveFails(c) \/ Kill(c)
        PROVE  mem'[d] = mem[d] /\ pc'[d] = pc[d]
    BY <1>0, <2>2 DEF Create, Approve, ExecuteNext, Handle, HandleRaises, Save,
         Exit, Truncate, Write, SaveFails, Kill, TypeOK
  <2> QED
    BY <1>1, <2>1, <2>2 DEF Next
<1>2. ASSUME Exit(c) PROVE CopySound(c)'
  BY <1>0, <1>2 DEF Exit, CopySound, TypeOK
<1>3. CASE Create(c)
  <2>1. gens + 1 \in Gens
    BY <1>0, <1>3, StagedAssumption DEF Create, TypeOK, Gens
  <2> QED
    BY <1>0, <1>3, <2>1 DEF Create, Begin, Save, CopySound, TypeOK, Plans, Sound
<1>4. CASE Approve(c)
  <2>1. file \in Plans /\ Sound(file, approvals, runs) /\ file.status = "draft"
    BY <1>0, <1>4, LoadableIsPlan DEF Approve, FileSound
  <2> QED
    BY <1>0, <1>4, <2>1 DEF Approve, Begin, Save, CopySound, TypeOK, Plans, Sound
<1>5. CASE ExecuteNext(c)
  <2>1. file \in Plans /\ Sound(file, approvals, runs) /\ file.status # "draft"
    BY <1>0, <1>5, LoadableIsPlan DEF ExecuteNext, FileSound
  <2>2. approvals' = approvals /\ runs' = runs
    BY <1>5 DEF ExecuteNext
  <2>3. CASE NotDone(file) = {}
    <3> DEFINE plan == [file EXCEPT !.status = "done"]
    <3>1. plan \in Plans /\ Sound(plan, approvals, runs)
      BY <2>1, <2>3 DEF Plans, Sound, NotDone
    <3>2. mem'[c] = plan /\ pc'[c] = "truncate"
      BY <1>0, <1>5, <2>3 DEF ExecuteNext, Begin, Save, TypeOK
    <3> QED
      BY <2>2, <3>1, <3>2 DEF CopySound
  <2>4. CASE NotDone(file) # {}
    <3> DEFINE plan == [file EXCEPT !.status = "executing"]
    <3>1. plan \in Plans /\ Sound(plan, approvals, runs) /\ plan.status # "draft"
      BY <2>1 DEF Plans, Sound
    <3>2. mem'[c] = plan /\ pc'[c] = "handle"
      BY <1>0, <1>5, <2>4 DEF ExecuteNext, TypeOK
    <3> QED
      BY <2>2, <3>1, <3>2 DEF CopySound
  <2> QED
    BY <2>3, <2>4
<1>6. CASE Handle(c)
  <2>1. PICK s \in Steps, blocked \in BOOLEAN :
          /\ runs' = [runs EXCEPT ![<<mem[c].gen, s>>] = @ + 1]
          /\ Save(c, Marked(mem[c], s, blocked))
    BY <1>6 DEF Handle
  <2>2. /\ mem[c] \in Plans /\ mem[c].status # "draft"
        /\ Sound(mem[c], approvals', runs')
    BY <1>0, <1>6, StillSound DEF CopySound, Handle
  <2>3. runs' \in [Gens \X Steps -> Nat] /\ runs'[<<mem[c].gen, s>>] > 0
    <3>1. mem[c].gen \in Gens
      BY <2>2 DEF Plans
    <3> QED
      BY <1>0, <2>1, <3>1, StagedAssumption DEF TypeOK
  <2>4. /\ Marked(mem[c], s, blocked) \in Plans
        /\ Sound(Marked(mem[c], s, blocked), approvals', runs')
    BY <2>2, <2>3, MarkedIsPlan, MarkedIsSound
  <2> QED
    BY <1>0, <2>1, <2>4 DEF Save, CopySound, TypeOK
<1>7. CASE HandleRaises(c)
  BY <1>2, <1>7 DEF HandleRaises
<1>8. CASE Truncate(c)
  <2>1. pc[c] = "truncate" /\ pc' = [pc EXCEPT ![c] = "write"] /\ mem' = mem
    BY <1>8 DEF Truncate
  <2>2. mem[c] \in Plans /\ Sound(mem[c], approvals', runs')
    BY <1>0, <2>1, StillSound DEF CopySound
  <2>3. pc'[c] = "write"
    BY <1>0, <2>1 DEF TypeOK
  <2> QED
    BY <2>1, <2>2, <2>3 DEF CopySound
<1>9. CASE Write(c)
  BY <1>2, <1>9 DEF Write
<1>10. CASE SaveFails(c)
  BY <1>2, <1>10 DEF SaveFails
<1>11. CASE Kill(c)
  BY <1>2, <1>11 DEF Kill
<1> QED
  BY <1>3, <1>4, <1>5, <1>6, <1>7, <1>8, <1>9, <1>10, <1>11

----------------------------------------------------------------------------
\* Only Handle makes a call, and it makes one the plan's marks allow: the plan was
\* approved, and every earlier step of it ran.
LEMMA CallStep ==
  ASSUME IInv, [Next]_vars, NEW g \in Gens, NEW s \in Steps,
         runs'[<<g, s>>] # runs[<<g, s>>]
  PROVE  g \in approvals /\ \A u \in Steps : u < s => runs[<<g, u>>] > 0
<1>1. PICK c \in Commands : Handle(c)
  BY DEF vars, Next, Create, Approve, ExecuteNext, HandleRaises, Truncate, Write,
         SaveFails, Kill
<1>2. mem[c] \in Plans /\ Sound(mem[c], approvals, runs) /\ mem[c].status # "draft"
  BY <1>1 DEF IInv, CopySound, Handle
<1>3. PICK n \in Steps :
        IsNext(n, mem[c]) /\ runs' = [runs EXCEPT ![<<mem[c].gen, n>>] = @ + 1]
  BY <1>1 DEF Handle
<1>4. g = mem[c].gen /\ s = n
  BY <1>2, <1>3 DEF IInv, TypeOK, Plans
<1>5. \A u \in Steps : u < s => u \in mem[c].done
  BY <1>3, <1>4 DEF IsNext, NotDone, Steps
<1> QED
  BY <1>2, <1>4, <1>5 DEF Sound

\* Every step keeps the human's approval ahead of the calls.
LEMMA ApprovedStep == ASSUME IInv, [Next]_vars PROVE ApprovedBeforeExecuted'
BY CallStep, OnlyGrows DEF IInv, ApprovedBeforeExecuted

\* Every step keeps the calls in the order of the plan.
LEMMA OrderedStep == ASSUME IInv, [Next]_vars PROVE OrderedExecution'
<1> SUFFICES ASSUME NEW g \in Gens, NEW s \in Steps, NEW u \in Steps,
                    u < s, runs'[<<g, s>>] > 0
             PROVE  runs'[<<g, u>>] > 0
  BY DEF OrderedExecution
<1>1. runs[<<g, u>>] > 0
  BY CallStep DEF IInv, OrderedExecution
<1>2. runs'[<<g, u>>] >= runs[<<g, u>>]
  BY OnlyGrows
<1>3. runs[<<g, u>>] \in Nat /\ runs'[<<g, u>>] \in Nat
  BY TypeStep, StagedAssumption DEF IInv, TypeOK
<1> QED
  BY <1>1, <1>2, <1>3

\* The invariant holds before a plan is created.
LEMMA InitInv == ASSUME Init PROVE IInv
<1>1. TypeOK
  BY StagedAssumption DEF Init, TypeOK
<1>2. FileSound /\ \A c \in Commands : CopySound(c)
  BY DEF Init, FileSound, Loadable, CopySound
<1>3. ApprovedBeforeExecuted /\ OrderedExecution
  BY DEF Init, ApprovedBeforeExecuted, OrderedExecution
<1> QED
  BY <1>1, <1>2, <1>3 DEF IInv

\* The inductive invariant: whatever a file or a copy of it says is backed by what
\* was approved and what was run.
THEOREM Invariance == Spec => []IInv
<1>1. IInv /\ [Next]_vars => IInv'
  BY TypeStep, FileStep, CopyStep, ApprovedStep, OrderedStep DEF IInv
<1> QED
  BY InitInv, <1>1, PTL DEF Spec

----------------------------------------------------------------------------
\* Type correctness, for any number of commands, steps and creations.
THEOREM TypeCorrect == Spec => []TypeOK
BY Invariance, PTL DEF IInv

\* Human approval is a hard gate between planning and execution (staged.py:13).
THEOREM HardGate == Spec => []ApprovedBeforeExecuted
BY Invariance, PTL DEF IInv

\* The steps of a plan run in order (execute_next takes the first not done).
THEOREM InOrder == Spec => []OrderedExecution
BY Invariance, PTL DEF IInv

\* What the plan file marks done was run (execute_next marks after the call).
THEOREM MarksAreBacked == Spec => []DoneIsBacked
<1>1. IInv => DoneIsBacked
  BY DEF IInv, FileSound, Sound, DoneIsBacked
<1> QED
  BY <1>1, Invariance, PTL

----------------------------------------------------------------------------
\* While no commands overlap and no save is lost: one command at most is at work, the
\* plan it holds tells all, the file it is writing is empty, and the file tells all
\* wherever no save is under way.
Quietly ==
  quiet =>
    /\ approvals \subseteq 1..gens
    /\ \A c, d \in Commands : pc[c] # "idle" /\ pc[d] # "idle" => c = d
    /\ \A c \in Commands :
         /\ pc[c] # "idle" => Told(mem[c])
         /\ pc[c] = "write" => file = Empty
    /\ gens > 0 /\ (\A c \in Commands : pc[c] \in {"idle", "handle"}) =>
         Loadable /\ Told(file)
    /\ gens = 0 => file = Missing

\* A plan just created tells all: its creation is neither approved nor run.
LEMMA CreatedTells ==
  ASSUME IInv, quiet, Quietly, NEW c \in Commands, Create(c)
  PROVE  Told(mem[c])' /\ approvals' \subseteq 1..gens'
<1>1. /\ gens' = gens + 1 /\ approvals' = approvals /\ runs' = runs
      /\ mem'[c] = [gen |-> gens + 1, status |-> "draft", done |-> {}, blocked |-> {}]
  BY DEF Create, Save, IInv, TypeOK
<1>2. gens \in Nat /\ gens + 1 \in Gens
  BY StagedAssumption DEF Create, IInv, TypeOK, Gens
<1>3. approvals \subseteq 1..gens /\ gens + 1 \notin approvals
  BY <1>2 DEF Quietly
<1>4. \A s \in Steps : runs[<<gens + 1, s>>] = 0
  <2> SUFFICES ASSUME NEW s \in Steps PROVE runs[<<gens + 1, s>>] = 0
    OBVIOUS
  <2>1. <<gens + 1, s>> \in Gens \X Steps
    BY <1>2
  <2>2. ~ runs[<<gens + 1, s>>] > 0
    BY <1>3, <2>1 DEF IInv, ApprovedBeforeExecuted
  <2> QED
    BY <2>1, <2>2, StagedAssumption DEF IInv, TypeOK
<1> QED
  BY <1>1, <1>2, <1>3, <1>4 DEF Told

\* A plan that told all still does when the step it had open ran once and is marked.
LEMMA HandledTells ==
  ASSUME IInv, quiet, Quietly, NEW c \in Commands, Handle(c)
  PROVE  Told(mem[c])'
<1>1. PICK s \in Steps, blocked \in BOOLEAN :
        /\ IsNext(s, mem[c])
        /\ runs' = [runs EXCEPT ![<<mem[c].gen, s>>] = @ + 1]
        /\ Save(c, Marked(mem[c], s, blocked))
  BY DEF Handle
<1> DEFINE plan == mem[c]
           new == Marked(plan, s, blocked)
<1>2. plan \in Plans /\ Told(plan) /\ plan.status # "draft"
  BY DEF IInv, CopySound, Handle, Quietly
<1>3. new.gen = plan.gen /\ new.done = plan.done \cup {s} /\ new.status # "draft"
  BY <1>2 DEF Marked, Plans
<1>4. /\ mem'[c] = new /\ gens' = gens /\ approvals' = approvals
  BY <1>1 DEF Handle, Save, IInv, TypeOK
<1>5. s \notin plan.done /\ plan.gen \in Gens
  BY <1>1, <1>2 DEF IsNext, NotDone, Plans
<1>6. \A u \in Steps :
        runs'[<<plan.gen, u>>] =
          IF u = s THEN runs[<<plan.gen, s>>] + 1 ELSE runs[<<plan.gen, u>>]
  BY <1>1, <1>5 DEF IInv, TypeOK
<1>7. \A u \in Steps : runs[<<plan.gen, u>>] = IF u \in plan.done THEN 1 ELSE 0
  BY <1>2 DEF Told
<1> HIDE DEF plan, new
<1>8. \A u \in Steps : runs'[<<new.gen, u>>] = IF u \in new.done THEN 1 ELSE 0
  BY <1>3, <1>5, <1>6, <1>7
<1>9. new.gen = gens /\ new.gen \in approvals
  BY <1>2, <1>3 DEF Told
<1> QED
  BY <1>3, <1>4, <1>8, <1>9 DEF Told

\* A command that begins alone finds a file that tells all.
LEMMA BeginsTold ==
  ASSUME IInv, Quietly, NEW c \in Commands, Begin(c), quiet', Loadable
  PROVE  /\ quiet /\ \A d \in Commands : pc[d] = "idle"
         /\ file \in Plans /\ Told(file) /\ gens > 0
<1>1. quiet /\ \A d \in Commands : pc[d] = "idle"
  BY DEF Begin
<1>2. file \in Plans
  BY LoadableIsPlan DEF IInv
<1>3. gens > 0
  <2>1. gens # 0
    BY <1>1 DEF Quietly, Loadable
  <2> QED
    BY <2>1 DEF IInv, TypeOK
<1> QED
  BY <1>1, <1>2, <1>3 DEF Quietly

\* A copy that tells all was made of a plan that was created.
LEMMA ToldIsCreated ==
  ASSUME IInv, NEW c \in Commands, pc[c] # "idle", Told(mem[c])
  PROVE  gens > 0 /\ mem[c] \in Plans
<1>1. mem[c] \in Plans
  BY DEF IInv, CopySound
<1>2. mem[c].gen \in Nat \ {0}
  BY <1>1 DEF Plans, Gens
<1> QED
  BY <1>1, <1>2 DEF Told

\* Told speaks of the counters alone.
LEMMA ToldStays ==
  ASSUME UNCHANGED <<gens, approvals, runs>>
  PROVE  /\ \A c \in Commands : mem'[c] = mem[c] /\ Told(mem[c]) => Told(mem[c])'
         /\ file' = file /\ Told(file) => Told(file)'
         /\ \A c \in Commands : file' = mem[c] /\ Told(mem[c]) => Told(file)'
BY DEF Told

\* A command that begins alone is the only one at work afterwards.
LEMMA AloneNow ==
  ASSUME TypeOK, NEW c \in Commands, NEW stage \in {"truncate", "handle"},
         \A d \in Commands : pc[d] = "idle", pc' = [pc EXCEPT ![c] = stage]
  PROVE  \A d \in Commands : pc'[d] = IF d = c THEN stage ELSE "idle"
BY DEF TypeOK

\* The beginnings of a command.
LEMMA BeginQuietly ==
  ASSUME IInv, Quietly, quiet', NEW c \in Commands,
         Create(c) \/ Approve(c) \/ ExecuteNext(c)
  PROVE  Quietly'
<1>0. TypeOK /\ gens \in Nat
  BY DEF IInv, TypeOK
<1>1. quiet /\ (\A d \in Commands : pc[d] = "idle") /\ Begin(c)
  BY DEF Create, Approve, ExecuteNext, Begin
<1>2. CASE Create(c)
  <2>1. Told(mem[c])' /\ approvals' \subseteq 1..gens'
    BY <1>1, <1>2, CreatedTells
  <2>2. \A d \in Commands : pc'[d] = IF d = c THEN "truncate" ELSE "idle"
    BY <1>0, <1>1, <1>2, AloneNow DEF Create, Save
  <2>3. gens' # 0
    BY <1>0, <1>2 DEF Create
  <2> QED
    BY <2>1, <2>2, <2>3 DEF Quietly
<1>3. CASE Approve(c)
  <2>1. file \in Plans /\ Told(file) /\ gens > 0
    BY <1>1, <1>3, BeginsTold DEF Approve
  <2>2. /\ mem'[c] = [file EXCEPT !.status = "approved"] /\ file' = file
        /\ approvals' = approvals \cup {file.gen} /\ gens' = gens /\ runs' = runs
    BY <1>0, <1>3 DEF Approve, Save, TypeOK
  <2>3. Told(mem[c])'
    BY <2>1, <2>2 DEF Told, Plans
  <2>4. approvals' \subseteq 1..gens'
    <3>1. file.gen = gens /\ gens \in 1..gens /\ approvals \subseteq 1..gens
      BY <1>0, <1>1, <2>1 DEF Told, Quietly
    <3> QED
      BY <2>2, <3>1
  <2>5. \A d \in Commands : pc'[d] = IF d = c THEN "truncate" ELSE "idle"
    BY <1>0, <1>1, <1>3, AloneNow DEF Approve, Save
  <2> QED
    BY <1>0, <2>1, <2>2, <2>3, <2>4, <2>5 DEF Quietly
<1>4. CASE ExecuteNext(c)
  <2>1. file \in Plans /\ Told(file) /\ gens > 0 /\ file.status # "draft"
    BY <1>1, <1>4, BeginsTold DEF ExecuteNext
  <2>2. /\ \E status \in {"done", "executing"} :
             mem'[c] = [file EXCEPT !.status = status]
        /\ file' = file /\ approvals' = approvals /\ gens' = gens /\ runs' = runs
    BY <1>0, <1>4 DEF ExecuteNext, Save, TypeOK
  <2>3. Told(mem[c])'
    BY <2>1, <2>2 DEF Told, Plans
  <2>4. Told(file)' /\ Loadable'
    BY <1>4, <2>1, <2>2 DEF Told, ExecuteNext, Loadable
  <2>5. \E stage \in {"truncate", "handle"} :
          \A d \in Commands : pc'[d] = IF d = c THEN stage ELSE "idle"
    BY <1>0, <1>1, <1>4, AloneNow DEF ExecuteNext, Save
  <2>6. approvals' \subseteq 1..gens' /\ gens' # 0
    BY <1>0, <1>1, <2>1, <2>2 DEF Quietly
  <2> QED
    BY <2>3, <2>4, <2>5, <2>6 DEF Quietly
<1> QED
  BY <1>2, <1>3, <1>4

\* A command at work that stays at work: its plan tells all whatever it does next.
LEMMA WorkQuietly ==
  ASSUME IInv, Quietly, quiet', NEW c \in Commands, Handle(c) \/ Truncate(c)
  PROVE  Quietly'
<1>0. TypeOK /\ quiet /\ pc[c] # "idle"
  BY DEF IInv, Handle, Truncate
<1>1. /\ Told(mem[c]) /\ gens > 0 /\ approvals \subseteq 1..gens /\ gens \in Nat
      /\ gens' = gens /\ approvals' = approvals
      /\ \A d \in Commands : d # c => pc[d] = "idle"
  BY <1>0, ToldIsCreated DEF Quietly, Handle, Truncate, TypeOK
<1>2. CASE Handle(c)
  <2>1. Told(mem[c])'
    BY <1>0, <1>2, HandledTells
  <2>2. \A d \in Commands : pc'[d] = IF d = c THEN "truncate" ELSE "idle"
    BY <1>0, <1>1, <1>2 DEF Handle, Save, TypeOK
  <2> QED
    BY <1>1, <2>1, <2>2 DEF Quietly
<1>3. CASE Truncate(c)
  <2>1. Told(mem[c])'
    BY <1>1, <1>3, ToldStays DEF Truncate
  <2>2. \A d \in Commands : pc'[d] = IF d = c THEN "write" ELSE "idle"
    BY <1>0, <1>1, <1>3 DEF Truncate, TypeOK
  <2>3. file' = Empty
    BY <1>3 DEF Truncate
  <2> QED
    BY <1>1, <2>1, <2>2, <2>3 DEF Quietly
<1> QED
  BY <1>2, <1>3

\* A command that ends without losing a save leaves a file that tells all.
LEMMA EndQuietly ==
  ASSUME IInv, Quietly, quiet', NEW c \in Commands,
         HandleRaises(c) \/ Write(c) \/ SaveFails(c) \/ Kill(c)
  PROVE  Quietly'
<1>0. TypeOK /\ quiet /\ pc[c] \in {"handle", "write"} /\ Exit(c)
  BY DEF IInv, HandleRaises, Write, SaveFails, Kill
<1>1. /\ Told(mem[c]) /\ gens > 0 /\ approvals \subseteq 1..gens /\ gens \in Nat
      /\ UNCHANGED <<gens, approvals, runs>>
      /\ \A d \in Commands : d # c => pc[d] = "idle"
  <2>1. UNCHANGED <<gens, approvals, runs>>
    BY DEF HandleRaises, Write, SaveFails, Kill
  <2>2. /\ Told(mem[c]) /\ approvals \subseteq 1..gens
        /\ \A d \in Commands : d # c => pc[d] = "idle"
    BY <1>0 DEF Quietly
  <2>3. gens > 0 /\ gens \in Nat
    BY <1>0, <2>2, ToldIsCreated DEF TypeOK
  <2> QED
    BY <2>1, <2>2, <2>3
<1>2. \A d \in Commands : pc'[d] = "idle"
  BY <1>0, <1>1 DEF Exit, TypeOK
<1>3. Loadable' /\ Told(file)'
  <2>1. CASE pc[c] = "handle"
    <3>1. file' = file
      BY <2>1 DEF HandleRaises, Write, SaveFails, Kill
    <3>2. Loadable /\ Told(file)
      BY <1>0, <1>1, <2>1 DEF Quietly
    <3> QED
      BY <1>1, <3>1, <3>2, ToldStays DEF Loadable
  <2>2. CASE pc[c] = "write"
    <3>1. Write(c) /\ file = Empty
      BY <1>0, <2>2 DEF HandleRaises, SaveFails, Kill, Quietly
    <3>2. file' = mem[c] /\ mem[c] \in Plans
      BY <1>0, <1>1, <3>1, ToldIsCreated DEF Write
    <3> QED
      BY <1>1, <3>2, ToldStays, SentinelAssumption DEF Loadable
  <2> QED
    BY <1>0, <2>1, <2>2
<1> QED
  BY <1>1, <1>2, <1>3 DEF Quietly

\* Every step keeps it: what ends the quiet ends the promise.
LEMMA QuietlyStep == ASSUME IInv, Quietly, [Next]_vars PROVE Quietly'
<1>1. CASE UNCHANGED vars
  BY <1>1 DEF vars, Quietly, Told, Loadable
<1>2. CASE ~ quiet'
  BY <1>2 DEF Quietly
<1>3. CASE Next /\ quiet'
  <2>1. PICK c \in Commands :
          \/ Create(c) \/ Approve(c) \/ ExecuteNext(c) \/ Handle(c)
          \/ HandleRaises(c) \/ Truncate(c) \/ Write(c)
          \/ SaveFails(c) \/ Kill(c)
    BY <1>3 DEF Next
  <2> QED
    BY <1>3, <2>1, BeginQuietly, WorkQuietly, EndQuietly
<1> QED
  BY <1>1, <1>2, <1>3

\* Commands that never overlap and lose no save leave a file that tells all that
\* happened: no approval is lost and no step runs twice (execute_next, approve, _save).
THEOREM OneAtATimeTellsAll == Spec => []FileTellsAll
<1>1. Init => Quietly
  BY DEF Init, Quietly
<1>2. IInv /\ Quietly /\ [Next]_vars => Quietly'
  BY QuietlyStep
<1>3. Quietly => FileTellsAll
  BY DEF Quietly, FileTellsAll
<1> QED
  BY Invariance, <1>1, <1>2, <1>3, PTL DEF Spec

----------------------------------------------------------------------------
(* The plan of record.  While commands do not overlap, the file's plan is in  *)
(* force until the one command at work empties the file; what that command    *)
(* holds by then is one step of the plan of record ahead of the file, or the  *)
(* file's plan again.                                                         *)

\* What the file loads as.
OnDisk == IF Loadable THEN file ELSE None

\* q is p, or one step ahead of it.
Ahead(p, q) ==
  \/ q = p
  \/ Record!Drafted(p, q) \/ Record!Approved(p, q) \/ Record!Performed(p, q)

\* A plan without open steps says it is done.
Closed(p) == NotDone(p) = {} => p.status = "done"

Ongoing ==
  quiet =>
    /\ Loadable => Closed(file)
    /\ \A c \in Commands :
         /\ pc[c] = "truncate" => Ahead(OnDisk, mem[c])
         /\ pc[c] \in {"truncate", "write"} => Closed(mem[c])
         /\ pc[c] = "handle" =>
              /\ Loadable /\ file.status # "draft" /\ NotDone(file) # {}
              /\ mem[c] = [file EXCEPT !.status = "executing"]

\* The plan in force is the copy of the command that writes, or what is on disk.
InForce ==
  /\ \A c \in Commands :
       (\A d \in Commands : d # c => pc[d] # "write") /\ pc[c] = "write" =>
         Current = mem[c]
  /\ (\A c \in Commands : pc[c] # "write") => Current = OnDisk

LEMMA CurrentIs == InForce
<1>1. ASSUME NEW c \in Commands, \A d \in Commands : d # c => pc[d] # "write",
             pc[c] = "write"
      PROVE  Current = mem[c]
  <2>1. {d \in Commands : pc[d] = "write"} = {c}
    BY <1>1
  <2> QED
    BY <2>1 DEF Current
<1>2. ASSUME \A c \in Commands : pc[c] # "write" PROVE Current = OnDisk
  <2>1. {d \in Commands : pc[d] = "write"} = {}
    BY <1>2
  <2> QED
    BY <2>1 DEF Current, OnDisk
<1> QED
  BY <1>1, <1>2 DEF InForce

\* And so it is after any step.
LEMMA CurrentWillBe == InForce'
BY CurrentIs, PTL

\* A plan that tells all has done exactly the steps before its next one, because
\* steps run in order.
LEMMA DoneIsBehind ==
  ASSUME IInv, NEW p \in Plans, Told(p), NEW s \in Steps, IsNext(s, p)
  PROVE  p.done = 1..(s - 1)
<1>0. NSteps \in Nat \ {0} /\ p.done \subseteq Steps /\ p.gen \in Gens
  BY StagedAssumption DEF Plans
<1>1. ASSUME NEW u \in Steps, u < s PROVE u \in p.done
  BY <1>1 DEF IsNext, NotDone, Steps
<1>2. ASSUME NEW u \in p.done PROVE u < s
  <2>1. u \in Steps /\ u # s /\ s \notin p.done
    BY <1>0, <1>2 DEF IsNext, NotDone
  <2>2. runs[<<p.gen, u>>] > 0 /\ ~ (runs[<<p.gen, s>>] > 0)
    BY <1>2, <2>1 DEF Told
  <2>3. ~ (s < u)
    BY <1>0, <2>1, <2>2 DEF IInv, OrderedExecution
  <2> QED
    BY <2>1, <2>3 DEF Steps
<1>3. ASSUME NEW u PROVE u \in p.done <=> u \in 1..(s - 1)
  <2>1. u \in p.done => u \in 1..NSteps /\ u < s
    BY <1>0, <1>2 DEF Steps
  <2>2. u \in 1..NSteps /\ u < s => u \in p.done
    BY <1>1 DEF Steps
  <2>3. s \in 1..NSteps
    BY DEF Steps
  <2>4. u \in 1..NSteps /\ u < s <=> u \in 1..(s - 1)
    BY <1>0, <2>3
  <2> QED
    BY <2>1, <2>2, <2>4
<1> QED
  BY <1>3

\* The plan a call of the orchestrator leaves, field by field.
LEMMA MarkedFields ==
  ASSUME NEW p \in Plans, NEW s, NEW blocked
  PROVE  Marked([p EXCEPT !.status = "executing"], s, blocked)
           = [gen     |-> p.gen,
              status  |-> IF p.done \cup {s} = Steps THEN "done" ELSE "executing",
              done    |-> p.done \cup {s},
              blocked |-> IF blocked THEN p.blocked \cup {s} ELSE p.blocked \ {s}]
<1> DEFINE D  == p.done \cup {s}
           bl == IF blocked THEN p.blocked \cup {s} ELSE p.blocked \ {s}
           st == IF D = Steps THEN "done" ELSE "executing"
           e  == [p EXCEPT !.status = "executing"]
           f  == [gen |-> p.gen, status |-> "executing", done |-> D,
                  blocked |-> p.blocked]
           g  == [gen |-> p.gen, status |-> "executing", done |-> D, blocked |-> bl]
<1>1. e = [gen |-> p.gen, status |-> "executing", done |-> p.done,
           blocked |-> p.blocked]
  BY DEF Plans
<1>2. e.done = p.done /\ e.blocked = p.blocked
  BY <1>1
<1>3. [e EXCEPT !.done = D] = f /\ [f EXCEPT !.blocked = bl] = g
  <2> HIDE DEF e, D, bl
  <2> QED
    BY <1>1
<1>4. [g EXCEPT !.status = IF D = Steps THEN "done" ELSE @]
        = [gen |-> p.gen, status |-> st, done |-> D, blocked |-> bl]
  <2> HIDE DEF D, bl
  <2> QED
    OBVIOUS
<1>5. Marked(e, s, blocked)
        = [[[e EXCEPT !.done = D] EXCEPT !.blocked = bl]
             EXCEPT !.status = IF D = Steps THEN "done" ELSE @]
  <2> HIDE DEF e
  <2> QED
    BY <1>2 DEF Marked
<1>6. Marked(e, s, blocked)
        = [gen |-> p.gen, status |-> st, done |-> D, blocked |-> bl]
  <2> HIDE DEF e, D, bl, f, g, st
  <2> QED
    BY <1>3, <1>4, <1>5
<1> QED
  BY <1>6

\* What a call of the orchestrator leaves in a command's hands is the file's plan
\* with its first open step performed.
LEMMA MarkedIsPerformed ==
  ASSUME IInv, NEW p \in Plans, Told(p), Sound(p, approvals, runs),
         p.status # "draft", NEW s \in Steps, IsNext(s, p),
         NEW blocked \in BOOLEAN
  PROVE  LET q == Marked([p EXCEPT !.status = "executing"], s, blocked)
         IN  Record!Performed(p, q) /\ Closed(q)
<1> DEFINE q == Marked([p EXCEPT !.status = "executing"], s, blocked)
           stopped == IF blocked THEN {s} ELSE {}
<1>0. NSteps \in Nat \ {0} /\ s \in 1..NSteps /\ s \notin p.done
  BY StagedAssumption DEF Steps, IsNext, NotDone
<1>1. p.done = 1..(s - 1)
  BY DoneIsBehind
<1>2. p.done \cup {s} = 1..s
  BY <1>0, <1>1
<1>3. p.done \cup {s} = Steps <=> s = NSteps
  <2>1. 1..s = 1..NSteps <=> s = NSteps
    <3>1. NSteps \in 1..NSteps /\ (NSteps \in 1..s => s = NSteps)
      BY <1>0
    <3> QED
      BY <3>1
  <2> QED
    BY <1>2, <2>1 DEF Steps
<1>4. p.status \in {"approved", "executing"} /\ p # None
  <2>1. p.status # "done"
    BY <1>0 DEF Sound, Steps
  <2> QED
    BY <2>1, SentinelAssumption DEF Plans
<1>5. p.blocked \ {s} = p.blocked
  BY <1>0 DEF Sound
<1>6. q = [gen |-> p.gen, status |-> IF s = NSteps THEN "done" ELSE "executing",
           done |-> 1..s, blocked |-> p.blocked \cup stopped]
  BY <1>2, <1>3, <1>5, MarkedFields
<1>7. Closed(q)
  BY <1>0, <1>6 DEF Closed, NotDone, Steps
<1>8. stopped \in SUBSET (1..NSteps) /\ stopped \subseteq {s}
  BY <1>0
<1>9. Record!Performed(p, q)
  BY <1>0, <1>1, <1>4, <1>6, <1>8 DEF Record!Performed
<1> QED
  BY <1>7, <1>9

\* What a command that begins holds follows from the file, which it leaves alone.
LEMMA BeginOngoing ==
  ASSUME IInv, Quietly, Ongoing, quiet', NEW c \in Commands,
         Create(c) \/ Approve(c) \/ ExecuteNext(c)
  PROVE  Ongoing' /\ Current' = Current
<1>0. /\ TypeOK /\ quiet /\ (\A d \in Commands : pc[d] = "idle") /\ Begin(c)
      /\ file' = file /\ OnDisk' = OnDisk /\ Loadable' = Loadable
  BY DEF IInv, Create, Approve, ExecuteNext, Begin, OnDisk, Loadable
<1>1. Loadable => /\ file \in Plans /\ Told(file) /\ gens > 0 /\ Closed(file)
                  /\ Sound(file, approvals, runs) /\ OnDisk = file /\ file # None
  <2> HAVE Loadable
  <2>1. file \in Plans /\ Told(file) /\ gens > 0
    BY <1>0, BeginsTold
  <2>2. Closed(file) /\ Sound(file, approvals, runs) /\ OnDisk = file
    BY <1>0 DEF Ongoing, IInv, FileSound, OnDisk
  <2> QED
    BY <2>1, <2>2, SentinelAssumption
<1>2. ASSUME NEW stage \in {"truncate", "handle"}, pc' = [pc EXCEPT ![c] = stage],
             stage = "truncate" => Ahead(OnDisk, mem'[c]) /\ Closed(mem'[c]),
             stage = "handle" =>
               /\ Loadable /\ file.status # "draft" /\ NotDone(file) # {}
               /\ mem'[c] = [file EXCEPT !.status = "executing"]
      PROVE  Ongoing' /\ Current' = Current
  <2>1. \A d \in Commands : pc'[d] = IF d = c THEN stage ELSE "idle"
    BY <1>0, <1>2, AloneNow
  <2>2. Current = OnDisk
    BY <1>0, CurrentIs DEF InForce
  <2>3. (\A d \in Commands : pc'[d] # "write") => Current' = OnDisk'
    BY CurrentWillBe DEF InForce
  <2>4. Current' = Current
    BY <1>0, <2>1, <2>2, <2>3
  <2>5. Loadable' => Closed(file')
    BY <1>0, <1>1
  <2>6. \A d \in Commands :
          /\ pc'[d] = "truncate" => Ahead(OnDisk', mem'[d])
          /\ pc'[d] \in {"truncate", "write"} => Closed(mem'[d])
          /\ pc'[d] = "handle" =>
               /\ Loadable' /\ file'.status # "draft" /\ NotDone(file') # {}
               /\ mem'[d] = [file' EXCEPT !.status = "executing"]
    BY <1>0, <1>2, <2>1
  <2> QED
    BY <2>4, <2>5, <2>6 DEF Ongoing, Closed, NotDone, Ahead
<1>3. CASE Create(c)
  <2>1. /\ pc' = [pc EXCEPT ![c] = "truncate"] /\ gens \in Nat
        /\ mem'[c] = [gen |-> gens + 1, status |-> "draft", done |-> {},
                      blocked |-> {}]
    BY <1>0, <1>3 DEF Create, Save, TypeOK
  <2>2. (IF OnDisk = None THEN 1 ELSE OnDisk.gen + 1) = gens + 1
    <3>1. CASE Loadable
      BY <1>1, <3>1 DEF Told
    <3>2. CASE ~ Loadable
      <4>1. gens = 0
        BY <1>0, <2>1, <3>2 DEF Quietly
      <4> QED
        BY <3>2, <4>1 DEF OnDisk
    <3> QED
      BY <3>1, <3>2
  <2>3. Record!Drafted(OnDisk, mem'[c])
    BY <2>1, <2>2 DEF Record!Drafted
  <2>4. Closed(mem'[c])
    BY <2>1, StagedAssumption DEF Closed, NotDone, Steps
  <2> QED
    BY <1>2, <2>1, <2>3, <2>4 DEF Ahead
<1>4. CASE Approve(c)
  <2>1. /\ pc' = [pc EXCEPT ![c] = "truncate"] /\ Loadable /\ file.status = "draft"
        /\ mem'[c] = [file EXCEPT !.status = "approved"]
    BY <1>0, <1>4 DEF Approve, Save, TypeOK
  <2>2. Record!Approved(OnDisk, mem'[c])
    BY <1>1, <2>1 DEF Record!Approved
  <2>3. Closed(mem'[c])
    <3>1. mem'[c].done = {}
      BY <1>1, <2>1 DEF Sound, Plans
    <3> QED
      BY <3>1, StagedAssumption DEF Closed, NotDone, Steps
  <2> QED
    BY <1>2, <2>1, <2>2, <2>3 DEF Ahead
<1>5. CASE ExecuteNext(c)
  <2>1. Loadable /\ file.status # "draft"
    BY <1>5 DEF ExecuteNext
  <2>2. CASE NotDone(file) = {}
    <3>1. /\ pc' = [pc EXCEPT ![c] = "truncate"]
          /\ mem'[c] = [file EXCEPT !.status = "done"]
      BY <1>0, <1>5, <2>2 DEF ExecuteNext, Save, TypeOK
    <3>2. mem'[c] = file
      BY <1>1, <2>1, <2>2, <3>1 DEF Closed, Plans
    <3> QED
      BY <1>1, <1>2, <2>1, <3>1, <3>2 DEF Ahead
  <2>3. CASE NotDone(file) # {}
    <3>1. /\ pc' = [pc EXCEPT ![c] = "handle"]
          /\ mem'[c] = [file EXCEPT !.status = "executing"]
      BY <1>0, <1>5, <2>3 DEF ExecuteNext, TypeOK
    <3> QED
      BY <1>2, <2>1, <2>3, <3>1
  <2> QED
    BY <2>2, <2>3
<1> QED
  BY <1>3, <1>4, <1>5

\* A call performs one step of the plan on disk, in the hands of its command.
LEMMA HandleOngoing ==
  ASSUME IInv, Quietly, Ongoing, quiet', NEW c \in Commands, Handle(c)
  PROVE  Ongoing' /\ Current' = Current
<1>0. /\ TypeOK /\ quiet /\ pc[c] = "handle" /\ file' = file
      /\ pc' = [pc EXCEPT ![c] = "truncate"]
      /\ OnDisk' = OnDisk /\ Loadable' = Loadable
  BY DEF IInv, Handle, Save, OnDisk, Loadable
<1>1. /\ Told(mem[c]) /\ gens > 0 /\ \A d \in Commands : d # c => pc[d] = "idle"
  BY <1>0, ToldIsCreated DEF Quietly
<1>2. /\ Loadable /\ file.status # "draft" /\ NotDone(file) # {} /\ Closed(file)
      /\ mem[c] = [file EXCEPT !.status = "executing"]
  BY <1>0 DEF Ongoing
<1>3. /\ file \in Plans /\ Told(file) /\ Sound(file, approvals, runs)
      /\ OnDisk = file
  <2>1. file \in Plans /\ Sound(file, approvals, runs) /\ OnDisk = file
    BY <1>0, <1>2, LoadableIsPlan DEF IInv, FileSound, OnDisk
  <2>2. \A d \in Commands : pc[d] \in {"idle", "handle"}
    BY <1>0, <1>1
  <2> QED
    BY <1>0, <1>1, <2>1, <2>2 DEF Quietly
<1>4. PICK s \in Steps, blocked \in BOOLEAN :
        IsNext(s, mem[c]) /\ mem'[c] = Marked(mem[c], s, blocked)
  BY <1>0 DEF Handle, Save, TypeOK
<1>5. IsNext(s, file)
  <2>1. mem[c].done = file.done
    BY <1>2, <1>3 DEF Plans
  <2> QED
    BY <1>4, <2>1 DEF IsNext, NotDone
<1>6. Record!Performed(OnDisk, mem'[c]) /\ Closed(mem'[c])
  BY <1>2, <1>3, <1>4, <1>5, MarkedIsPerformed
<1>7. \A d \in Commands : pc'[d] = IF d = c THEN "truncate" ELSE "idle"
  BY <1>0, <1>1 DEF TypeOK
<1>8. Current = OnDisk /\ Current' = OnDisk'
  BY <1>0, <1>1, <1>7, CurrentIs, CurrentWillBe DEF InForce
<1>9. \A d \in Commands :
        /\ pc'[d] = "truncate" => Ahead(OnDisk', mem'[d])
        /\ pc'[d] \in {"truncate", "write"} => Closed(mem'[d])
        /\ pc'[d] # "handle"
  BY <1>0, <1>6, <1>7 DEF Ahead
<1> QED
  BY <1>0, <1>2, <1>8, <1>9 DEF Ongoing, Closed, NotDone, Ahead

\* Emptying the file is the moment at which the plan in force changes.
LEMMA TruncateOngoing ==
  ASSUME IInv, Quietly, Ongoing, quiet', NEW c \in Commands, Truncate(c)
  PROVE  Ongoing' /\ Ahead(Current, Current')
<1>0. /\ TypeOK /\ quiet /\ pc[c] = "truncate" /\ mem' = mem
      /\ pc' = [pc EXCEPT ![c] = "write"] /\ ~ Loadable'
  BY DEF IInv, Truncate, Loadable
<1>1. /\ \A d \in Commands : d # c => pc[d] = "idle"
      /\ Ahead(OnDisk, mem[c]) /\ Closed(mem[c])
  BY <1>0 DEF Quietly, Ongoing
<1>2. \A d \in Commands : pc'[d] = IF d = c THEN "write" ELSE "idle"
  BY <1>0, <1>1 DEF TypeOK
<1>3. Current = OnDisk /\ Current' = mem[c]
  BY <1>0, <1>1, <1>2, CurrentIs, CurrentWillBe DEF InForce
<1> QED
  BY <1>0, <1>1, <1>2, <1>3 DEF Ongoing, Closed, NotDone

\* A command that ends without losing a save leaves the plan in force in the file.
LEMMA EndOngoing ==
  ASSUME IInv, Quietly, Ongoing, quiet', NEW c \in Commands,
         HandleRaises(c) \/ Write(c) \/ SaveFails(c) \/ Kill(c)
  PROVE  Ongoing' /\ Current' = Current
<1>0. TypeOK /\ quiet /\ pc[c] \in {"handle", "write"} /\ Exit(c)
  BY DEF IInv, HandleRaises, Write, SaveFails, Kill
<1>1. \A d \in Commands : d # c => pc[d] = "idle"
  BY <1>0 DEF Quietly
<1>2. \A d \in Commands : pc'[d] = "idle"
  BY <1>0, <1>1 DEF Exit, TypeOK
<1>3. Current' = OnDisk'
  BY <1>2, CurrentWillBe DEF InForce
<1>4. CASE pc[c] = "handle"
  <2>1. file' = file /\ OnDisk' = OnDisk /\ Loadable' = Loadable
    BY <1>4 DEF HandleRaises, Write, SaveFails, Kill, OnDisk, Loadable
  <2>2. Current = OnDisk
    BY <1>1, <1>4, CurrentIs DEF InForce
  <2> QED
    BY <1>0, <1>2, <1>3, <2>1, <2>2 DEF Ongoing, Closed, NotDone
<1>5. CASE pc[c] = "write"
  <2>1. Write(c) /\ file = Empty
    BY <1>0, <1>5 DEF HandleRaises, SaveFails, Kill, Quietly
  <2>2. file' = mem[c] /\ mem[c] \in Plans /\ Closed(mem[c])
    BY <1>0, <1>5, <2>1 DEF Write, IInv, CopySound, Ongoing
  <2>3. Loadable' /\ OnDisk' = mem[c]
    BY <2>2, SentinelAssumption DEF Loadable, OnDisk
  <2>4. Current = mem[c]
    BY <1>1, <1>5, CurrentIs DEF InForce
  <2> QED
    BY <1>2, <1>3, <2>2, <2>3, <2>4 DEF Ongoing, Closed, NotDone
<1> QED
  BY <1>0, <1>4, <1>5

\* Every quiet step is a step of the plan of record or leaves it as it is.
LEMMA OngoingStep ==
  ASSUME IInv, Quietly, Ongoing, quiet', [Next]_vars
  PROVE  Ongoing' /\ Ahead(Current, Current')
<1>1. CASE UNCHANGED vars
  <2>1. /\ Current' = Current /\ OnDisk' = OnDisk /\ Loadable' = Loadable
        /\ UNCHANGED <<file, pc, mem, quiet>>
    <3>1. UNCHANGED <<file, pc, mem, quiet>>
      BY <1>1 DEF vars
    <3>2. OnDisk' = OnDisk /\ Loadable' = Loadable
      BY <3>1 DEF OnDisk, Loadable
    <3>3. ASSUME NEW c \in Commands, pc[c] = "write" PROVE Current' = Current
      <4>1. \A d \in Commands : d # c => pc[d] # "write"
        BY <3>1, <3>3 DEF Quietly
      <4> QED
        BY <3>1, <3>3, <4>1, CurrentIs, CurrentWillBe DEF InForce
    <3>4. Current' = Current
      BY <3>1, <3>2, <3>3, CurrentIs, CurrentWillBe DEF InForce
    <3> QED
      BY <3>1, <3>2, <3>4
  <2>2. \A d \in Commands : Ahead(OnDisk, mem[d]) => Ahead(OnDisk', mem'[d])
    BY <2>1
  <2>3. Ahead(Current, Current')
    BY <2>1 DEF Ahead
  <2> QED
    BY <2>1, <2>2, <2>3 DEF Ongoing, Closed, NotDone
<1>2. CASE Next
  <2>1. PICK c \in Commands :
          \/ Create(c) \/ Approve(c) \/ ExecuteNext(c) \/ Handle(c)
          \/ HandleRaises(c) \/ Truncate(c) \/ Write(c)
          \/ SaveFails(c) \/ Kill(c)
    BY <1>2 DEF Next
  <2>2. Ongoing' /\ (Current' = Current \/ Ahead(Current, Current'))
    BY <2>1, BeginOngoing, HandleOngoing, TruncateOngoing, EndOngoing
  <2> QED
    BY <2>2 DEF Ahead
<1> QED
  BY <1>1, <1>2

\* While commands do not overlap and no save is lost, what the file and the copies
\* come to is one plan that is drafted, approved once and performed step by step, each
\* step whole or not at all, although the file is empty while it is written and
\* commands raise, are blocked or are killed before their call.
THEOREM OneAtATimeImplements == Spec => ImplementsPlan
<1>1. Init => Ongoing /\ Quietly /\ Record!PInit
  <2> SUFFICES ASSUME Init PROVE Ongoing /\ Quietly /\ Record!PInit
    OBVIOUS
  <2>1. ~ Loadable /\ \A c \in Commands : pc[c] = "idle"
    BY DEF Init, Loadable
  <2>2. Current = None
    BY <2>1, CurrentIs DEF InForce, OnDisk
  <2> QED
    BY <2>1, <2>2 DEF Init, Quietly, Ongoing, Record!PInit
<1>2. IInv /\ Quietly /\ Ongoing /\ [Next]_vars =>
        /\ Quietly' /\ Ongoing'
        /\ quiet' => [Record!PNext]_Current
  <2>1. ASSUME IInv, Quietly, Ongoing, [Next]_vars, ~ quiet' PROVE Ongoing'
    BY <2>1 DEF Ongoing
  <2> QED
    BY <2>1, QuietlyStep, OngoingStep DEF Ahead, Record!PNext
<1> QED
  BY Invariance, <1>1, <1>2, PTL DEF Spec, ImplementsPlan

\* Staged mode is the plan of record, for people who run one command after the other
\* on a disk that takes what is written to it.
THEOREM QuietlyThePlanOfRecord == Spec /\ []quiet => Record!PSpec
<1>1. [quiet' => [Record!PNext]_Current]_vars /\ quiet' => [Record!PNext]_Current
  <2>1. ASSUME UNCHANGED vars PROVE UNCHANGED Current
    BY <2>1 DEF vars, Current, Loadable
  <2> QED
    BY <2>1
<1> QED
  BY OneAtATimeImplements, <1>1, PTL DEF ImplementsPlan, Record!PSpec
=============================================================================
