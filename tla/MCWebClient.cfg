CONSTANTS
  None = None
  Nothing = Nothing
  a = a
  b = b
  Convs <- MCConvs
  Runs = {1, 2}
  MaxTasks = 3
  MaxFaults = 1
  Items = {1, 2, 3, 4}
  Listed = {1, 2}
  Handlers = {"create", "update", "remove", "resolve", "toggle", "upload"}
  MaxOps = 3
  MaxPolls = 2
  MaxLost = 1
  MaxElsewhere = 1
SPECIFICATION MCSpec
INVARIANTS
  ShowsOneRun
  
  CacheAgrees
