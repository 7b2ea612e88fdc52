SPECIFICATION Spec
CONSTANTS
  t1 = t1  t2 = t2  t3 = t3  w1 = w1  w2 = w2  w3 = w3
  None = None
  Tasks = {t1, t2}  TokenTasks = {}
  Workers = {w1, w2}
  Closers = {}  MayClose = {}
  Core = 1  Max = 1  Capacity <- Unlimited
  Policies = {"Abort"}
  KeepAlive = FALSE  ObsMetrics = TRUE  AwaitExpires = TRUE
INVARIANTS NoLockCycle
CHECK_DEADLOCK FALSE
