\* A ReAct task and an adapted one that needs it, two workers, both databases.
CONSTANTS
  t1 = t1
  t2 = t2
  w1 = w1
  w2 = w2
  Nobody = Nobody
  Task <- MCTasks
  Worker <- MCWorkers
  Needs <- MCChain
  Adapted <- MCAdapted
  Databases <- MCBoth
  MaxFanOut = 1
  MaxTurns = 2
  GainLimit = 1
  MaxRunClaims = 1
  MaxStalls = 1
  MaxCrashes = 1
SYMMETRY WorkerSymmetry
SPECIFICATION Spec
INVARIANTS
  TaskAgrees
PROPERTIES
  HistoryStands
CHECK_DEADLOCK FALSE
