SPECIFICATION Spec
CONSTANTS
  Absent = Absent
  Keys = {"a", "b", "c"}
  TierB = {"b", "c"}
  Slice = {"a", "b"}
  Data = {"old", "new"}
  FileValues <- MCFileValues
  Overlays <- MCOverlays
  Entries <- MCEntries
  MaxEntries = 3
INVARIANTS
  TypeOK
  TierALocked
  FailsOpen
  HighestLayerWins
