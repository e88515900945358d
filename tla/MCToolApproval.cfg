\* One run, two workers, one API process with a transaction open, one lease that
\* runs out under a live worker, one crash.
CONSTANTS
  r1 = r1
  w1 = w1
  w2 = w2
  a1 = a1
  Nobody = Nobody
  Run <- MCRuns
  Worker <- MCWorkers
  Api <- MCApis
  MaxStalls = 1
  MaxCrashes = 1
SPECIFICATION FairSpec
INVARIANTS
  CallsAreSafe
  FailsForCause
PROPERTIES
  DecisionsHold
  EndsOrWaits
CHECK_DEADLOCK FALSE
