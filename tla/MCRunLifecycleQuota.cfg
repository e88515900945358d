\* Two runs compete for a quota that fits one of them at a time; two workers, one
\* of which may die.
CONSTANTS
  r1 = r1
  r2 = r2
  w1 = w1
  w2 = w2
  Nobody = Nobody
  Run <- MCRuns
  Worker <- MCWorkers
  TaskCount = 2
  Budget = 2
  Usage = 1
  Limit = 3
  MaxCrashes = 1
  MaxStalls = 0
  MaxBeats = 0
SYMMETRY RunWorkerSymmetry
SPECIFICATION Spec
INVARIANTS
  QuotaSound
  OutcomesComplete
CHECK_DEADLOCK FALSE
