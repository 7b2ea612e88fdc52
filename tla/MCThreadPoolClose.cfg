SPECIFICATION Spec
CONSTANTS
  t1 = t1  t2 = t2  t3 = t3  w1 = w1  w2 = w2  w3 = w3
  None = None
  Tasks = {t1, t2}  TokenTasks = {t1}
  Workers = {w1, w2}
  Closers = {"a", "b"}  MayClose = {"Shutdown", "ShutdownNow", "Destroy"}
  Core = 1  Max = 2  Capacity = 0
  Policies = {"DiscardOldest"}
  KeepAlive = FALSE  ObsMetrics = TRUE  AwaitExpires = TRUE
SYMMETRY MCSymmetry
INVARIANTS OnePlace ActiveExact TerminatedIsFinal
PROPERTIES RejectedNeverRuns
CHECK_DEADLOCK FALSE
