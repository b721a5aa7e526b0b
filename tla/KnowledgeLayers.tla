--------------------------- MODULE KnowledgeLayers ---------------------------
(* How a specialist comes by its knowledge: load_knowledge of                *)
(* agents/base_agent.py reads the files of its slice, merges the Tier-B      *)
(* overlay of agents/kb_overlay.py over them, and the layer entries of       *)
(* agents/memory_layers.py over both, one after another.  Files, overlay     *)
(* and entries are whatever people have put there by the time they are read. *)
EXTENDS Integers, Sequences

CONSTANTS
  Keys,         \* knowledge keys: paths below knowledge/, without .yaml
  TierB,        \* those that start with tier_b/; the others are locked
  Slice,        \* those whose files lie in the specialist's knowledge_dirs
  Data,         \* what a knowledge value says
  FileValues,   \* what reading a file may give, Absent included
  Overlays,     \* the objects people may store as the overlay
  Entries,      \* layer entries a fork may hand to the specialist
  MaxEntries,   \* bound on how many it hands at once
  Absent        \* no value: the file is missing, or skipped as unreadable

ASSUME LayersAssumption ==
  TierB \subseteq Keys /\ Slice \subseteq Keys /\ MaxEntries \in Nat

Layers == {"org", "team", "project"}

\* What the _layer of a value may be: missing, a layer, a string that names
\* none, or something a dict cannot be asked for.  A "scalar" value is no dict.
Tags == Layers \cup {"untagged", "unknown", "unhashable", "scalar"}

Values == [data : Data, tag : Tags]

\* An entry as resolve_layers finds it.  Its layer may be missing ("default"),
\* its data no dict, its key no knowledge key ("malformed" stands for both).
EntryForms == [key : Keys, layer : Layers \cup {"default", "unknown"},
               data : Data, malformed : BOOLEAN]

KBs == [Keys -> Values \cup {Absent}]

ASSUME InputsAssumption ==
  /\ Entries \subseteq EntryForms
  /\ FileValues \subseteq Values \cup {Absent}
  /\ Overlays \subseteq KBs
  /\ Absent \notin Values

VARIABLES
  pc,         \* "idle", "read", "seed", "layer" or "done"
  unread,     \* files of the slice still to be read
  entries,    \* the list _layer_entries returns
  pos,        \* how many of them resolve_layers has been through
  kb,         \* the knowledge, as far as it is made up
  rank,       \* winning_rank: key -> rank of the layer that won it, or -1
  image,      \* the knowledge after the files, before the overlay
  baseline    \* the knowledge after the overlay, before the layers

vars == <<pc, unread, entries, pos, kb, rank, image, baseline>>

Rank == [org |-> 0, team |-> 1, project |-> 2]

\* The layer an entry asks for.
LayerOf(e) == IF e.layer = "default" THEN "team" ELSE e.layer

IsLayerable(k) == k \in TierB

\* Mutant: any key may be layered over.
AnyValid(e) == ~ e.malformed /\ LayerOf(e) \in Layers

\* resolve_layers gets as far as comparing ranks; every other entry is skipped.
Valid(e) == ~ e.malformed /\ LayerOf(e) \in Layers /\ IsLayerable(e.key)

\* The rank a value of the baseline starts with.
Seed(v) == IF v = Absent \/ v.tag = "scalar" THEN -1
           ELSE IF v.tag \in Layers THEN Rank[v.tag] ELSE 0

\* Mutant: the value keeps the layer its entry declares, if any.
TaggedAsDeclared(e) == [data |-> e.data, tag |-> e.layer]

Tagged(e) == [data |-> e.data, tag |-> LayerOf(e)]

Nothing == [k \in Keys |-> Absent]
Unranked == [k \in Keys |-> -1]

Init ==
  /\ pc = "idle" /\ unread = {} /\ entries = <<>> /\ pos = 0
  /\ kb = Nothing /\ image = Nothing /\ baseline = Nothing
  /\ rank = Unranked

----------------------------------------------------------------------------
\* A specialist is constructed, the first one or a new one in a new process.
Construct ==
  /\ pc \in {"idle", "done"}
  /\ \E n \in 0..MaxEntries : \E es \in [1..n -> Entries] : entries' = es
  /\ pc' = "read" /\ unread' = Slice /\ pos' = 0
  /\ kb' = Nothing /\ image' = Nothing /\ baseline' = Nothing
  /\ rank' = Unranked

\* One file, in whatever order rglob lists them; Absent when it is missing,
\* unreadable or no YAML.
ReadFile(k) ==
  /\ pc = "read" /\ k \in unread
  /\ unread' = unread \ {k}
  /\ \E v \in FileValues :
       kb' = [kb EXCEPT ![k] = v] /\ image' = [image EXCEPT ![k] = v]
  /\ UNCHANGED <<pc, entries, pos, rank, baseline>>

\* Mutant: the overlay stands in for the Tier-B files instead of going over them.
MergeInstead(overlay) == [k \in Keys |-> IF k \in TierB THEN overlay[k] ELSE kb[k]]

Merge(overlay) ==
  [k \in Keys |-> IF k \in TierB /\ overlay[k] # Absent
                  THEN overlay[k] ELSE kb[k]]

\* apply_overlay: off, unreachable, broken or no JSON object, and the image
\* stands; otherwise the object's Tier-B keys go over it.
ApplyOverlay ==
  /\ pc = "read" /\ unread = {}
  /\ \/ UNCHANGED kb
     \/ \E overlay \in Overlays : kb' = Merge(overlay)
  /\ pc' = "seed" /\ baseline' = kb'
  /\ UNCHANGED <<unread, entries, pos, rank, image>>

\* A tag a dict cannot be asked for raises before the first entry is looked at.
Raises == \E k \in Keys : kb[k] # Absent /\ kb[k].tag = "unhashable"

\* resolve_layers up to its loop.
SeedRanks ==
  /\ pc = "seed"
  /\ IF entries = <<>> \/ Raises
     THEN pc' = "done" /\ UNCHANGED rank
     ELSE pc' = "layer" /\ rank' = [k \in Keys |-> Seed(kb[k])]
  /\ UNCHANGED <<unread, entries, pos, kb, image, baseline>>

\* Mutant: the first of two entries of one layer stays.
Beats(e) == Valid(e) /\ Rank[LayerOf(e)] > rank[e.key]

Wins(e) == Valid(e) /\ Rank[LayerOf(e)] >= rank[e.key]

\* One turn of the loop.
ApplyEntry ==
  /\ pc = "layer" /\ pos < Len(entries)
  /\ LET e == entries[pos + 1]
     IN  IF Wins(e)
         THEN /\ kb' = [kb EXCEPT ![e.key] = Tagged(e)]
              /\ rank' = [rank EXCEPT ![e.key] = Rank[LayerOf(e)]]
         ELSE UNCHANGED <<kb, rank>>
  /\ pos' = pos + 1
  /\ UNCHANGED <<pc, unread, entries, image, baseline>>

Finish ==
  /\ pc = "layer" /\ pos = Len(entries)
  /\ pc' = "done"
  /\ UNCHANGED <<unread, entries, pos, kb, rank, image, baseline>>

Next == \/ Construct \/ \E k \in Keys : ReadFile(k)
        \/ ApplyOverlay \/ SeedRanks \/ ApplyEntry \/ Finish

\* Loading is straight-line code; nobody need construct another specialist.
Spec == Init /\ [][Next]_vars

----------------------------------------------------------------------------
\* Type correctness.
TypeOK ==
  /\ pc \in {"idle", "read", "seed", "layer", "done"}
  /\ unread \subseteq Slice
  /\ entries \in Seq(Entries) /\ pos \in 0..Len(entries)
  /\ kb \in KBs /\ image \in KBs /\ baseline \in KBs
  /\ rank \in [Keys -> -1..2]

\* Neither the overlay nor a layer entry, well-formed or not, ever adds,
\* changes or removes a locked key: what the specialist knows of Tier A is
\* what its files say (kb_overlay.py: "the locked Tier-A knowledge can never
\* be overridden"; memory_layers.py: "a layer assignment NEVER escalates trust").
TierALocked == \A k \in Keys \ TierB : kb[k] = image[k]

\* Whatever is missing, broken or raises, the specialist keeps a value for every
\* key its files gave it (kb_overlay.py: "degrades to the baked-in KB, never to
\* an empty KB").
FailsOpen == \A k \in Keys : image[k] # Absent => kb[k] # Absent

\* The rank an entry must have to replace the baseline's value.
Floor(v) ==
  IF v # Absent /\ v.tag \in {"team", "project"} THEN Rank[v.tag] ELSE 0

\* The entries for k among the first pos that no layer of the baseline outranks.
Contenders(k) ==
  {i \in 1..pos : /\ Valid(entries[i]) /\ entries[i].key = k
                  /\ Rank[LayerOf(entries[i])] >= Floor(baseline[k])}

Outranks(i, j) ==
  LET Of(n) == Rank[LayerOf(entries[n])]
  IN  Of(i) > Of(j) \/ (Of(i) = Of(j) /\ i >= j)

\* In whatever order the entries come, with whatever malformed ones among them,
\* a key has the value of the highest layer that claims it, of the last such
\* entry when a layer claims it twice, and of the baseline when none does or the
\* baseline's own tag ranks higher (memory_layers.py: "the entry from the
\* HIGHEST memory layer wins"); and no entry is left out unless layering as a
\* whole had to be given up.
HighestLayerWins ==
  pc \in {"layer", "done"} =>
    /\ \A k \in Keys :
         \/ Contenders(k) = {} /\ kb[k] = baseline[k]
         \/ \E i \in Contenders(k) :
              /\ kb[k] = Tagged(entries[i])
              /\ \A j \in Contenders(k) : Outranks(i, j)
    /\ \/ pc = "layer"
       \/ pos = Len(entries)
       \/ \E k \in Keys : baseline[k] # Absent /\ baseline[k].tag = "unhashable"
=============================================================================
