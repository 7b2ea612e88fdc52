SPECIFICATION FairSpec
CONSTANTS
  Waiters = {w1, w2}
  SignalMayBeEaten = TRUE
INVARIANTS NoSleepThroughSignal
