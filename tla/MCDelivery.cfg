\* Any two commands at once: two failing calls, two saves, one kill.
CONSTANTS
  p1 = p1
  p2 = p2
  good = good
  unordered = unordered
  bad = bad
  None = None
  Old = Old
  Process = {p1, p2}
  Source = {good, unordered}
  Authored = {good}
  Canonical = {good, unordered}
  MaxEdits = 2
  MaxFaults = 2
  MaxCrashes = 1
SYMMETRY ProcessSymmetry
SPECIFICATION Spec
INVARIANTS
  PublishedAgrees
PROPERTIES
  CommitsAreSafe
CHECK_DEADLOCK FALSE
