SPECIFICATION FairSpec
CONSTANTS
  t1 = t1  t2 = t2  t3 = t3  w1 = w1  w2 = w2  w3 = w3
  None = None
  Tasks = {t1}  TokenTasks = {}
  Workers = {w1, w2}
  Closers = {"a"}  MayClose = {"Shutdown"}
  Core = 1  Max = 1  Capacity <- Unlimited
  Policies = {"Abort"}
  KeepAlive = FALSE  ObsMetrics = FALSE  AwaitExpires = FALSE
PROPERTIES TasksSettle
CHECK_DEADLOCK FALSE
