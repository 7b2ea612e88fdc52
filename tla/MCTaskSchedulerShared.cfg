SPECIFICATION FairSpec
CONSTANTS
  f1 = f1  f2 = f2  r1 = r1  None = None
  Tasks = {f1, f2, r1}  Kind <- MCKind  TokenTasks = {f1}
  Delays <- MCDelays  Horizon = 1
INVARIANT OwnFuture
CHECK_DEADLOCK FALSE
