SPECIFICATION DiagramSpec
CONSTANTS
  Absent = Absent
  NoLabel = NoLabel
  Nothing = Nothing
  Rows = 3
  MaxToken = 6
  MaxRounds = 3
  None = None
  Contents = {"a", "b", "c"}
  Viewports <- MCViewports
  Finds <- MCFinds
  MaxRuns = 3
  MaxEdits = 2
  MaxFaults = 2
  MaxCrashes = 1
INVARIANTS
  DeltaSound
  ReviewSound
  GeometryExact
  CompilerExact
  CompilationSound
  EvidenceAgrees
  CompleteIsWhole
PROPERTIES
  ReviewSettles
  CheckEnds
CHECK_DEADLOCK FALSE
