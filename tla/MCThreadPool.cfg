SPECIFICATION Spec
CONSTANTS
  t1 = t1  t2 = t2  t3 = t3  w1 = w1  w2 = w2  w3 = w3
  None = None
  Tasks = {t1, t2, t3}  TokenTasks = {}
  Workers = {w1, w2, w3}
  Closers = {}  MayClose = {}
  Core = 1  Max = 2  Capacity = 0
  Policies <- AllPolicies
  KeepAlive = TRUE  ObsMetrics = FALSE  AwaitExpires = TRUE
SYMMETRY MCSymmetry
INVARIANTS WellFormed OnePlace RunsAtMostOnce PoolBounded
CHECK_DEADLOCK FALSE
