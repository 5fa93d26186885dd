SPECIFICATION Spec
CONSTANTS
  urgent = urgent
  ordinary = ordinary
  w1 = w1
  w2 = w2
  NoTask = NoTask
  NoWorker = NoWorker
  Tasks <- MCTasks
  Priority <- MCPriority
  Workers = {w1, w2}
  MaxRuns = 3
  Lease = 1
  MaxDelay = 1
INVARIANTS
  RowsAreSound
  OneActiveRunPerTask
PROPERTIES
  HistoryHolds
  ImplementsSlot
