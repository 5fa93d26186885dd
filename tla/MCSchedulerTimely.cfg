SPECIFICATION SchedulerSpec
CONSTANTS
  p1 = p1
  p2 = p2
  w1 = w1
  w2 = w2
  template = template
  plain = plain
  NoTask = NoTask
  NoWorker = NoWorker
  Procs = {p1, p2}
  Workers = {w1, w2}
  WorkerName <- SharedName
  Tasks = {template}
  Templated = {template}
  Priority <- SamePriority
  RetryCount <- RetryOnce
  MaxRuns = 3
  Lease = 2
  MaxDelay = 1
  RetryDelay = 1
  RenewEvery = 1
  MaxExec = 1
  Timely = TRUE
  Erasures = FALSE
  StoreErrors = FALSE
  MaxFaults = 1
INVARIANTS
  ExclusiveExecution
  OutcomesAreInOrder
