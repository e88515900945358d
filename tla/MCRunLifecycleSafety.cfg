\* One run, two workers; one of them may die and one lease may run out under
\* a live worker.
CONSTANTS
  r1 = r1
  r2 = r2
  w1 = w1
  w2 = w2
  Nobody = Nobody
  Run <- MCOneRun
  Worker <- MCWorkers
  TaskCount = 2
  Budget = 2
  Usage = 1
  Limit = 4
  MaxCrashes = 1
  MaxStalls = 1
  MaxBeats = 1
SYMMETRY WorkerSymmetry
SPECIFICATION Spec
INVARIANTS
  TypeOK
  Fencing
  LogSound
  EndingsSound
PROPERTIES
  EndsOnceByHolder
  ImplementsContract
CHECK_DEADLOCK FALSE
