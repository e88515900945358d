\* Two processes, two newer releases, a cache that fits two digests.
CONSTANTS
  p1 = p1
  p2 = p2
  new = new
  newer = newer
  None = None
  Process <- MCProcesses
  Digest <- MCDigests
  Newer <- MCDigests
  Capacity = 2
  MaxTries = 2
  MaxGen = 3
  MaxClock = 1
  PowerFailed = TRUE
  MaxAborts = 1
SYMMETRY ProcessSymmetry
SPECIFICATION Spec
INVARIANTS
  CacheSound
  OneLiveOwner
PROPERTIES
  CommitsStand
  OnlyDoneClaimsRetire
CHECK_DEADLOCK FALSE
