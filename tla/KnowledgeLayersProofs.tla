----------------------- MODULE KnowledgeLayersProofs -----------------------
(* The safety of KnowledgeLayers for any keys, files, overlays and any number *)
(* of layer entries in any order.  That the highest layer wins is a loop       *)
(* invariant: each key's winner so far, and the rank the code remembers of it. *)
EXTENDS KnowledgeLayers, TLAPS

\* What the loop knows of a key after pos entries.
Won(k) ==
  \/ Contenders(k) = {} /\ kb[k] = baseline[k] /\ rank[k] = Seed(baseline[k])
  \/ \E i \in Contenders(k) :
       /\ kb[k] = Tagged(entries[i]) /\ rank[k] = Rank[LayerOf(entries[i])]
       /\ \A j \in Contenders(k) : Outranks(i, j)

\* What the knowledge is made of at each stage of loading.
Stage ==
  /\ pc \in {"idle", "read"} => kb = image
  /\ pc = "seed" => kb = baseline
  /\ pc \in {"idle", "read", "seed"} => pos = 0
  /\ pc = "layer" => \A k \in Keys : Won(k)

IInv == TypeOK /\ Stage /\ TierALocked /\ FailsOpen /\ HighestLayerWins

----------------------------------------------------------------------------
\* A valid entry has a rank from 0 to 2, and tagging its data makes a value.
LEMMA ValidEntry ==
  ASSUME NEW e \in EntryForms, Valid(e)
  PROVE  /\ Rank[LayerOf(e)] \in 0..2
         /\ Tagged(e) \in Values /\ Tagged(e) # Absent
         /\ e.key \in TierB
<1>1. LayerOf(e) \in Layers /\ e.key \in TierB /\ e.data \in Data
  BY DEF Valid, IsLayerable, EntryForms
<1>2. Rank[LayerOf(e)] \in 0..2
  BY <1>1 DEF Rank, Layers
<1>3. Tagged(e) \in Values
  BY <1>1 DEF Tagged, Values, Tags
<1> QED
  BY <1>1, <1>2, <1>3, InputsAssumption

\* The rank a baseline value starts with lets in exactly the entries that no
\* layer of it outranks.
LEMMA SeedIsFloor ==
  ASSUME NEW v \in Values \cup {Absent}
  PROVE  /\ Seed(v) \in -1..2 /\ Floor(v) \in 0..2
         /\ \A n \in 0..2 : n >= Seed(v) <=> n >= Floor(v)
<1>1. CASE v = Absent
  BY <1>1 DEF Seed, Floor
<1>2. CASE v # Absent /\ v.tag \in Layers
  <2>1. v.tag \in {"org", "team", "project"}
    BY <1>2 DEF Layers
  <2> QED
    BY <1>2, <2>1 DEF Seed, Floor, Rank, Layers
<1>3. CASE v # Absent /\ v.tag \notin Layers
  <2>1. Floor(v) = 0
    BY <1>3 DEF Floor, Layers
  <2>2. Seed(v) \in {-1, 0}
    BY <1>3 DEF Seed
  <2> QED
    BY <2>1, <2>2
<1> QED
  BY <1>1, <1>2, <1>3

\* The entries handed to the specialist are entries.
LEMMA EntryOf ==
  ASSUME TypeOK, NEW i \in 1..Len(entries)
  PROVE  entries[i] \in EntryForms
BY InputsAssumption DEF TypeOK

\* A contender has been looked at, and is a valid entry.
LEMMA ContenderIsValid ==
  ASSUME TypeOK, NEW k \in Keys, NEW i \in Contenders(k)
  PROVE  /\ i \in 1..pos /\ i \in 1..Len(entries) /\ i \in Int
         /\ entries[i] \in EntryForms /\ Valid(entries[i])
         /\ entries[i].key = k
         /\ Rank[LayerOf(entries[i])] \in 0..2
         /\ Rank[LayerOf(entries[i])] >= Floor(baseline[k])
<1>1. /\ i \in 1..pos /\ Valid(entries[i]) /\ entries[i].key = k
      /\ Rank[LayerOf(entries[i])] >= Floor(baseline[k])
  BY DEF Contenders
<1>2. i \in 1..Len(entries)
  BY <1>1 DEF TypeOK
<1> QED
  BY <1>1, <1>2, EntryOf, ValidEntry

\* Nothing has been looked at before the loop.
LEMMA NoContenders ==
  ASSUME TypeOK, pos = 0, NEW k \in Keys
  PROVE  Contenders(k) = {}
BY DEF Contenders

----------------------------------------------------------------------------
\* Type correctness: every variable stays in its range.
LEMMA TypeStep == ASSUME IInv, [Next]_vars PROVE TypeOK'
<1> USE DEF IInv
<1>1. CASE UNCHANGED vars
  BY <1>1 DEF vars, TypeOK
<1>2. CASE Construct
  <2>1. PICK n \in 0..MaxEntries : entries' \in [1..n -> Entries]
    BY <1>2 DEF Construct
  <2>2. entries' \in Seq(Entries) /\ Len(entries') \in Nat
    BY <2>1, LayersAssumption
  <2> QED
    BY <1>2, <2>2 DEF Construct, TypeOK, Nothing, Unranked, KBs
<1>3. CASE \E k \in Keys : ReadFile(k)
  BY <1>3, InputsAssumption DEF ReadFile, TypeOK, KBs
<1>4. CASE ApplyOverlay
  <2>1. \A overlay \in Overlays : Merge(overlay) \in KBs
    BY InputsAssumption DEF TypeOK, Merge, KBs
  <2> QED
    BY <1>4, <2>1 DEF ApplyOverlay, TypeOK
<1>5. CASE SeedRanks
  <2>1. \A k \in Keys : Seed(kb[k]) \in -1..2
    BY SeedIsFloor DEF TypeOK, KBs
  <2> QED
    BY <1>5, <2>1 DEF SeedRanks, TypeOK
<1>6. CASE ApplyEntry
  <2> DEFINE e == entries[pos + 1]
  <2>1. pos + 1 \in 1..Len(entries) /\ pos' \in 0..Len(entries)
    BY <1>6 DEF ApplyEntry, TypeOK
  <2>2. e \in EntryForms
    BY <2>1, EntryOf
  <2> HIDE DEF e
  <2>3. CASE Wins(e)
    <3>1. Rank[LayerOf(e)] \in -1..2 /\ Tagged(e) \in Values
      BY <2>2, <2>3, ValidEntry DEF Wins
    <3> QED
      BY <1>6, <2>1, <2>3, <3>1 DEF ApplyEntry, TypeOK, KBs, e
  <2>4. CASE ~ Wins(e)
    BY <1>6, <2>1, <2>4 DEF ApplyEntry, TypeOK, e
  <2> QED
    BY <2>3, <2>4
<1>7. CASE Finish
  BY <1>7 DEF Finish, TypeOK
<1> QED
  BY <1>1, <1>2, <1>3, <1>4, <1>5, <1>6, <1>7 DEF Next

\* Every step leaves Tier A to the files.
LEMMA LockedStep == ASSUME IInv, [Next]_vars PROVE TierALocked'
<1> USE DEF IInv
<1> SUFFICES ASSUME NEW k \in Keys \ TierB PROVE kb'[k] = image'[k]
  BY DEF TierALocked
<1>1. CASE UNCHANGED <<kb, image>>
  BY <1>1 DEF TierALocked
<1>2. CASE Construct
  BY <1>2 DEF Construct
<1>3. CASE \E f \in Keys : ReadFile(f)
  BY <1>3 DEF ReadFile, TypeOK, KBs, Stage
<1>4. CASE ApplyOverlay
  BY <1>4 DEF ApplyOverlay, Merge, TierALocked
<1>5. CASE ApplyEntry
  <2> DEFINE e == entries[pos + 1]
  <2>1. e \in EntryForms
    BY <1>5, EntryOf DEF ApplyEntry, TypeOK
  <2>2. Wins(e) => e.key # k
    BY <2>1, ValidEntry DEF Wins
  <2> QED
    BY <1>5, <2>2 DEF ApplyEntry, TypeOK, KBs, TierALocked
<1> QED
  BY <1>1, <1>2, <1>3, <1>4, <1>5 DEF Next, SeedRanks, Finish, vars

\* No step loses a key the files gave.
LEMMA OpenStep == ASSUME IInv, [Next]_vars PROVE FailsOpen'
<1> USE DEF IInv
<1> SUFFICES ASSUME NEW k \in Keys, image'[k] # Absent PROVE kb'[k] # Absent
  BY DEF FailsOpen
<1>1. CASE UNCHANGED <<kb, image>>
  BY <1>1 DEF FailsOpen
<1>2. CASE Construct
  BY <1>2 DEF Construct
<1>3. CASE \E f \in Keys : ReadFile(f)
  BY <1>3 DEF ReadFile, TypeOK, KBs, Stage
<1>4. CASE ApplyOverlay
  BY <1>4 DEF ApplyOverlay, Merge, FailsOpen
<1>5. CASE ApplyEntry
  <2> DEFINE e == entries[pos + 1]
  <2>1. e \in EntryForms
    BY <1>5, EntryOf DEF ApplyEntry, TypeOK
  <2>2. Wins(e) => Tagged(e) # Absent
    BY <2>1, ValidEntry DEF Wins
  <2>3. kb[k] # Absent
    BY <1>5 DEF ApplyEntry, FailsOpen
  <2>4. kb'[k] = kb[k] \/ (Wins(e) /\ kb'[k] = Tagged(e))
    BY <1>5 DEF ApplyEntry, TypeOK, KBs
  <2> QED
    BY <2>2, <2>3, <2>4
<1> QED
  BY <1>1, <1>2, <1>3, <1>4, <1>5 DEF Next, SeedRanks, Finish, vars

----------------------------------------------------------------------------
\* Which entries contend for a key once one more has been looked at.
LEMMA MoreContenders ==
  ASSUME TypeOK, ApplyEntry, NEW k \in Keys
  PROVE  LET e == entries[pos + 1]
         IN  Contenders(k)' =
               Contenders(k) \cup
                 (IF Valid(e) /\ e.key = k /\ Rank[LayerOf(e)] >= Floor(baseline[k])
                  THEN {pos + 1} ELSE {})
<1>1. pos' = pos + 1 /\ entries' = entries /\ baseline' = baseline /\ pos \in Nat
  BY DEF ApplyEntry, TypeOK
<1>2. 1..pos' = 1..pos \cup {pos + 1}
  BY <1>1
<1> QED
  BY <1>1, <1>2 DEF Contenders

\* One turn of the loop keeps the winner of every key the highest so far.
LEMMA TurnKeepsWinners ==
  ASSUME IInv, ApplyEntry, NEW k \in Keys
  PROVE  Won(k)'
<1> DEFINE e == entries[pos + 1]
           r == Rank[LayerOf(e)]
<1>a. /\ pos' = pos + 1 /\ entries' = entries /\ baseline' = baseline
      /\ pos \in Nat /\ pos + 1 \in 1..Len(entries) /\ pc = "layer"
  BY DEF IInv, ApplyEntry, TypeOK
<1>b. e \in EntryForms
  BY <1>a, EntryOf DEF IInv
<1>c. Valid(e) => r \in 0..2
  BY <1>b, ValidEntry
<1>d. Won(k) /\ baseline[k] \in Values \cup {Absent}
  BY <1>a DEF IInv, Stage, TypeOK, KBs
<1>e. Contenders(k)' = Contenders(k) \cup
        (IF Valid(e) /\ e.key = k /\ r >= Floor(baseline[k]) THEN {pos + 1} ELSE {})
  BY MoreContenders DEF IInv
<1>f. CASE Wins(e) /\ e.key = k
  <2>1. kb'[k] = Tagged(e) /\ rank'[k] = r
    BY <1>f DEF ApplyEntry, IInv, TypeOK, KBs
  <2>2. Valid(e) /\ r >= rank[k] /\ r \in 0..2
    BY <1>c, <1>f DEF Wins
  <2>3. r >= Floor(baseline[k])
    <3>1. CASE rank[k] = Seed(baseline[k])
      BY <2>2, <3>1, <1>d, SeedIsFloor
    <3>2. CASE \E i \in Contenders(k) : rank[k] = Rank[LayerOf(entries[i])]
      <4>1. PICK i \in Contenders(k) : rank[k] = Rank[LayerOf(entries[i])]
        BY <3>2
      <4>2. rank[k] \in 0..2 /\ rank[k] >= Floor(baseline[k])
        BY <4>1, ContenderIsValid DEF IInv
      <4>3. Floor(baseline[k]) \in 0..2
        BY <1>d, SeedIsFloor
      <4> QED
        BY ONLY <2>2, <4>2, <4>3
    <3> QED
      BY <1>d, <3>1, <3>2 DEF Won
  <2>4. pos + 1 \in Contenders(k)'
    BY <1>e, <1>f, <2>2, <2>3
  <2>5. ASSUME NEW j \in Contenders(k)'
        PROVE  Outranks(pos + 1, j)
    <3>1. CASE j = pos + 1
      BY <2>2, <3>1, <1>a DEF Outranks
    <3>2. CASE j \in Contenders(k)
      <4>1. PICK i \in Contenders(k) :
              rank[k] = Rank[LayerOf(entries[i])] /\ Outranks(i, j)
        BY <1>d, <3>2 DEF Won
      <4>2. /\ Rank[LayerOf(entries[i])] \in 0..2 /\ j \in 1..pos
            /\ Rank[LayerOf(entries[j])] \in 0..2
        BY <3>2, ContenderIsValid DEF IInv
      <4>3. r >= Rank[LayerOf(entries[i])]
        BY <2>2, <4>1
      <4>4. Rank[LayerOf(entries[i])] >= Rank[LayerOf(entries[j])]
        BY <4>1, <4>2 DEF Outranks
      <4>5. r >= Rank[LayerOf(entries[j])]
        BY ONLY <2>2, <4>2, <4>3, <4>4
      <4>6. pos + 1 >= j
        BY ONLY <4>2, <1>a
      <4> QED
        BY <2>2, <4>2, <4>5, <4>6 DEF Outranks
    <3> QED
      BY <1>e, <3>1, <3>2
  <2>6. PICK n \in 1..Len(entries) : n = pos + 1
    BY <1>a
  <2>7. \A j \in Contenders(k)' : Outranks(n, j)'
    BY <2>5, <2>6, <1>a DEF Outranks
  <2>8. n \in Contenders(k)' /\ entries'[n] = e
    BY <1>a, <2>4, <2>6
  <2> QED
    BY <2>1, <2>7, <2>8 DEF Won
<1>g. CASE ~ (Wins(e) /\ e.key = k)
  <2>1. kb'[k] = kb[k] /\ rank'[k] = rank[k]
    BY <1>g DEF ApplyEntry, IInv, TypeOK, KBs
  <2>2. CASE Contenders(k) = {} /\ kb[k] = baseline[k]
                /\ rank[k] = Seed(baseline[k])
    <3>1. Contenders(k)' = {}
      BY <1>c, <1>d, <1>e, <1>g, <2>2, SeedIsFloor DEF Wins
    <3> QED
      BY <2>1, <2>2, <3>1, <1>a DEF Won
  <2>3. CASE \E i \in Contenders(k) :
               /\ kb[k] = Tagged(entries[i])
               /\ rank[k] = Rank[LayerOf(entries[i])]
               /\ \A j \in Contenders(k) : Outranks(i, j)
    <3>1. PICK i \in Contenders(k) :
               /\ kb[k] = Tagged(entries[i])
               /\ rank[k] = Rank[LayerOf(entries[i])]
               /\ \A j \in Contenders(k) : Outranks(i, j)
      BY <2>3
    <3>2. Rank[LayerOf(entries[i])] \in 0..2
      BY ContenderIsValid DEF IInv
    <3>3. ASSUME NEW j \in Contenders(k)' PROVE Outranks(i, j)
      <4>1. CASE j \in Contenders(k)
        BY <3>1, <4>1
      <4>2. CASE j = pos + 1 /\ Valid(e) /\ e.key = k
        <5>1. ~ (r >= rank[k]) /\ r \in 0..2
          BY <1>c, <1>g, <4>2 DEF Wins
        <5>2. Rank[LayerOf(entries[i])] > r
          BY <3>1, <3>2, <5>1
        <5> QED
          BY <4>2, <5>2 DEF Outranks
      <4> QED
        BY <1>e, <4>1, <4>2
    <3>4. \A j \in Contenders(k)' : Outranks(i, j)'
      BY <3>3, <1>a DEF Outranks
    <3>5. i \in Contenders(k)'
      BY <1>e
    <3> QED
      BY <2>1, <3>1, <3>4, <3>5, <1>a DEF Won
  <2> QED
    BY <1>d, <2>2, <2>3 DEF Won
<1> QED
  BY <1>f, <1>g

\* Every step keeps the account of the stage it leads to.
LEMMA StageStep == ASSUME IInv, [Next]_vars PROVE Stage'
<1>1. CASE UNCHANGED vars
  BY <1>1 DEF vars, IInv, Stage, Won, Contenders, Outranks
<1>2. CASE Construct
  BY <1>2 DEF Construct, Stage
<1>3. CASE \E k \in Keys : ReadFile(k)
  BY <1>3 DEF ReadFile, IInv, Stage
<1>4. CASE ApplyOverlay
  BY <1>4 DEF ApplyOverlay, IInv, Stage
<1>5. CASE SeedRanks
  <2>1. ASSUME pc' = "layer", NEW k \in Keys PROVE Won(k)'
    <3>1. pos' = 0 /\ TypeOK'
      BY <1>5, TypeStep DEF SeedRanks, IInv, Stage
    <3>2. Contenders(k)' = {}
      BY <3>1 DEF Contenders
    <3>3. kb' = kb /\ baseline' = baseline /\ kb = baseline
          /\ rank' = [q \in Keys |-> Seed(kb[q])]
      BY <1>5, <2>1 DEF SeedRanks, IInv, Stage
    <3> QED
      BY <3>2, <3>3 DEF Won
  <2> QED
    BY <1>5, <2>1 DEF SeedRanks, Stage
<1>6. CASE ApplyEntry
  BY <1>6, TurnKeepsWinners DEF ApplyEntry, Stage
<1>7. CASE Finish
  BY <1>7 DEF Finish, Stage
<1> QED
  BY <1>1, <1>2, <1>3, <1>4, <1>5, <1>6, <1>7 DEF Next

\* A winner in the code's sense is one in the property's.
LEMMA WonIsHighest ==
  ASSUME NEW k \in Keys, Won(k)
  PROVE  \/ Contenders(k) = {} /\ kb[k] = baseline[k]
         \/ \E i \in Contenders(k) :
              /\ kb[k] = Tagged(entries[i])
              /\ \A j \in Contenders(k) : Outranks(i, j)
BY DEF Won

\* Every step keeps the highest layer the winner.
LEMMA HighestStep == ASSUME IInv, [Next]_vars PROVE HighestLayerWins'
<1>1. CASE pc' = "layer"
  <2>1. \A k \in Keys : Won(k)'
    BY <1>1, StageStep DEF Stage
  <2>2. \A k \in Keys :
         (\/ Contenders(k) = {} /\ kb[k] = baseline[k]
          \/ \E i \in Contenders(k) :
               /\ kb[k] = Tagged(entries[i])
               /\ \A j \in Contenders(k) : Outranks(i, j))'
    BY <2>1 DEF Won
  <2> QED
    BY <1>1, <2>2 DEF HighestLayerWins
<1>2. CASE pc' = "done"
  <2>1. CASE UNCHANGED vars
    BY <2>1 DEF vars, IInv, HighestLayerWins, Contenders, Outranks
  <2>2. CASE Finish
    BY <2>2 DEF Finish, IInv, HighestLayerWins, Contenders, Outranks
  <2>3. CASE SeedRanks
    <3>1. /\ entries = <<>> \/ Raises
          /\ pos' = 0 /\ kb' = kb /\ baseline' = baseline /\ kb = baseline
          /\ entries' = entries /\ pc = "seed"
      BY <1>2, <2>3 DEF SeedRanks, IInv, Stage
    <3>2. \A k \in Keys : Contenders(k)' = {}
      BY <3>1 DEF Contenders
    <3>3. entries = <<>> => pos' = Len(entries')
      BY <3>1
    <3>4. Raises => \E k \in Keys :
                      baseline'[k] # Absent /\ baseline'[k].tag = "unhashable"
      BY <3>1 DEF Raises
    <3> QED
      BY <1>2, <3>1, <3>2, <3>3, <3>4 DEF HighestLayerWins
  <2> QED
    BY <1>2, <2>1, <2>2, <2>3
       DEF Next, Construct, ReadFile, ApplyOverlay, ApplyEntry
<1> QED
  BY <1>1, <1>2 DEF HighestLayerWins

\* The invariant holds before anything is constructed.
LEMMA InitInv == ASSUME Init PROVE IInv
BY LayersAssumption
   DEF Init, IInv, TypeOK, KBs, Nothing, Unranked, Stage, TierALocked, FailsOpen,
       HighestLayerWins

\* The inductive invariant: the properties and what loading knows at each stage.
THEOREM Invariance == Spec => []IInv
<1>1. IInv /\ [Next]_vars => IInv'
  BY TypeStep, StageStep, LockedStep, OpenStep, HighestStep DEF IInv
<1> QED
  BY InitInv, <1>1, PTL DEF Spec

----------------------------------------------------------------------------
\* Type correctness, for any keys, files, overlays and number of entries.
THEOREM TypeCorrect == Spec => []TypeOK
BY Invariance, PTL DEF IInv

\* Neither an overlay nor a layer entry moves Tier A (kb_overlay.py:30).
THEOREM LockedFloor == Spec => []TierALocked
BY Invariance, PTL DEF IInv

\* Loading degrades to what the files say, never below (load_knowledge).
THEOREM DegradesToImage == Spec => []FailsOpen
BY Invariance, PTL DEF IInv

\* The highest layer wins in whatever order the entries come (resolve_layers).
THEOREM Precedence == Spec => []HighestLayerWins
BY Invariance, PTL DEF IInv

----------------------------------------------------------------------------
\* The order of the entries matters only where one layer contradicts itself.

\* The entries of a set S for k that the baseline's value v does not outrank, and
\* those of them no other outranks.
Claimants(S, v, k) ==
  {e \in S : Valid(e) /\ e.key = k /\ Rank[LayerOf(e)] >= Floor(v)}

Top(S, v, k) ==
  {e \in Claimants(S, v, k) :
     \A f \in Claimants(S, v, k) : Rank[LayerOf(f)] <= Rank[LayerOf(e)]}

Outcome(S, v, k) ==
  IF Top(S, v, k) = {} THEN v ELSE Tagged(CHOOSE e \in Top(S, v, k) : TRUE)

EntrySet == {entries[i] : i \in 1..Len(entries)}

\* Where the highest layer that claims a key does not contradict itself, its value
\* depends on the baseline and on which entries there are, not on their order.
OrderFree ==
  pc = "done" /\ pos = Len(entries) =>
    \A k \in Keys :
      (\A e, f \in Top(EntrySet, baseline[k], k) : e.data = f.data) =>
        kb[k] = Outcome(EntrySet, baseline[k], k)

\* The knowledge does not depend on the order in which the layer entries are listed,
\* unless two entries of one layer disagree about a key (resolve_layers).
THEOREM OrderIsIrrelevant == Spec => []OrderFree
<1>1. ASSUME IInv PROVE OrderFree
  <2> SUFFICES ASSUME pc = "done", pos = Len(entries), NEW k \in Keys,
                      \A e, f \in Top(EntrySet, baseline[k], k) : e.data = f.data
               PROVE  kb[k] = Outcome(EntrySet, baseline[k], k)
    BY DEF OrderFree
  <2> DEFINE v == baseline[k]
  <2>1. \A e \in EntrySet : Valid(e) => LayerOf(e) \in Layers
    BY DEF Valid
  <2>2. \A e \in Claimants(EntrySet, v, k) :
          \E j \in Contenders(k) : e = entries[j]
    BY DEF Claimants, EntrySet, Contenders
  <2>3. \A j \in Contenders(k) : entries[j] \in Claimants(EntrySet, v, k)
    BY DEF Claimants, EntrySet, Contenders
  <2>4. CASE Contenders(k) = {}
    <3>1. Top(EntrySet, v, k) = {}
      BY <2>2, <2>4 DEF Top
    <3>2. kb[k] = v
      BY <1>1, <2>4 DEF IInv, HighestLayerWins
    <3> QED
      BY <3>1, <3>2 DEF Outcome
  <2>5. CASE Contenders(k) # {}
    <3>1. PICK i \in Contenders(k) :
            kb[k] = Tagged(entries[i]) /\ \A j \in Contenders(k) : Outranks(i, j)
      BY <1>1, <2>5 DEF IInv, HighestLayerWins
    <3>2. entries[i] \in Top(EntrySet, v, k)
      <4>1. \A j \in Contenders(k) :
              Rank[LayerOf(entries[j])] <= Rank[LayerOf(entries[i])]
        <5>1. \A j \in Contenders(k) : LayerOf(entries[j]) \in Layers
          BY DEF Contenders, Valid
        <5>2. \A j \in Contenders(k) : Rank[LayerOf(entries[j])] \in 0..2
          BY <5>1 DEF Rank, Layers
        <5> QED
          BY <3>1, <5>2 DEF Outranks
      <4> QED
        BY <2>2, <2>3, <4>1 DEF Top
    <3> DEFINE e == CHOOSE e \in Top(EntrySet, v, k) : TRUE
    <3>3. e \in Top(EntrySet, v, k)
      BY <3>2
    <3>4. LayerOf(e) = LayerOf(entries[i])
      <4>1. /\ LayerOf(e) \in Layers /\ LayerOf(entries[i]) \in Layers
            /\ Rank[LayerOf(e)] <= Rank[LayerOf(entries[i])]
            /\ Rank[LayerOf(entries[i])] <= Rank[LayerOf(e)]
        BY <3>2, <3>3 DEF Top, Claimants, Valid
      <4> HIDE DEF e
      <4> QED
        BY <4>1 DEF Rank, Layers
    <3>5. e.data = entries[i].data
      BY <3>2, <3>3
    <3>6. Tagged(e) = Tagged(entries[i])
      BY <3>4, <3>5 DEF Tagged
    <3> QED
      BY <3>1, <3>2, <3>6 DEF Outcome
  <2> QED
    BY <2>4, <2>5
<1> QED
  BY Invariance, <1>1, PTL
=============================================================================
