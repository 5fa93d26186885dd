SPECIFICATION FairSpec
CONSTANTS
  p1 = p1
  p2 = p2
  w1 = w1
  w2 = w2
  template = template
  plain = plain
  NoTask = NoTask
  NoWorker = NoWorker
  Procs = {p1, p2}
  Workers = {w1, w2}
  WorkerName <- OwnNames
  Tasks = {plain}
  Templated = {}
  Priority <- SamePriority
  RetryCount <- NeverRetry
  MaxRuns = 1
  Lease = 1
  MaxDelay = 1
  RetryDelay = 1
  RenewEvery = 1
  MaxExec = 2
  Timely = TRUE
  Erasures = FALSE
  StoreErrors = FALSE
  MaxFaults = 0
INVARIANTS
  ExclusiveExecution
