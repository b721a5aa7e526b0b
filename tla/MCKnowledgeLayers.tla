------------------------- MODULE MCKnowledgeLayers -------------------------
(* KnowledgeLayers with a locked key and two Tier-B keys, one of which has no *)
(* file in the slice; files, overlays and entries of every kind the code      *)
(* tells apart.                                                              *)
EXTENDS KnowledgeLayers

Value(data, tag) == [data |-> data, tag |-> tag]

MCFileValues == {Absent, Value("old", "untagged"), Value("old", "team"),
                 Value("old", "scalar"), Value("old", "unhashable")}

\* Nothing, a locked key next to a tagged one, a key of another slice, a value
\* that is no dict, and a tag that is no layer.
MCOverlays ==
  {[k \in Keys |-> IF k \in DOMAIN o THEN o[k] ELSE Absent] :
     o \in {[a |-> Value("new", "project"), b |-> Value("new", "project")],
            [c |-> Value("new", "team")],
            [b |-> Value("new", "scalar")],
            [b |-> Value("new", "unknown")]}}

Entry(key, layer, data, malformed) ==
  [key |-> key, layer |-> layer, data |-> data, malformed |-> malformed]

MCEntries ==
  {Entry("b", "org", "new", FALSE), Entry("b", "team", "new", FALSE),
   Entry("b", "default", "old", FALSE), Entry("b", "project", "new", FALSE),
   Entry("c", "team", "old", FALSE), Entry("a", "project", "new", FALSE),
   Entry("b", "unknown", "new", FALSE), Entry("b", "project", "old", TRUE)}
=============================================================================
