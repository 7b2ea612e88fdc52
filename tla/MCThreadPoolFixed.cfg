SPECIFICATION FairSpec
CONSTANTS
  t1 = t1  t2 = t2  t3 = t3  w1 = w1  w2 = w2  w3 = w3
  None = None
  Tasks = {t1, t2}  TokenTasks = {}
  Workers = {w1}
  Closers = {"a"}  MayClose = {"Shutdown", "ShutdownNow"}
  Core = 1  Max = 1  Capacity = 0
  Policies <- AllPolicies
  KeepAlive = FALSE  ObsMetrics = FALSE  AwaitExpires = TRUE
PROPERTIES TasksSettleWhileOpen ShutdownTerminates
CHECK_DEADLOCK FALSE
