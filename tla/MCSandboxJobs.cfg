\* One job, two threads of one worker process and one of another, two attempts;
\* one lease may run out under a live thread and one thread may die.
CONSTANTS
  j1 = j1
  t1 = t1
  t2 = t2
  t3 = t3
  p1 = p1
  p2 = p2
  Nobody = Nobody
  Job <- MCOneJob
  Thread <- MCThreads
  NameOf <- MCNames
  MaxAttempts = 2
  MaxStalls = 1
  MaxCrashes = 1
SPECIFICATION FairSpec
INVARIANTS
  JobAgrees
PROPERTIES
  JobStands
  JobsEnd
CHECK_DEADLOCK FALSE
