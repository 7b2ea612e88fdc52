SPECIFICATION FairSpec
CONSTANTS
  Waiters = {w1, w2, w3}
  SignalMayBeEaten = FALSE
INVARIANTS NoSleepThroughSignal
PROPERTIES ImplementsEvent
