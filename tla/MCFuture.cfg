SPECIFICATION FairSpec
CONSTANTS
  a = a  b = b  c = c  d = d
  None = None
  Threads = {a, b, c}
  MayCall <- MCAnyCall
INVARIANTS CallbackAtMostOnce CallbackAfterDone OutcomeAgrees
PROPERTIES ImplementsPromise MapSettles
CHECK_DEADLOCK FALSE
