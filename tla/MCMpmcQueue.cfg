SPECIFICATION FairSpec
CONSTANTS
  None = None
  Producers = {p1, p2}  Consumers = {c1, c2}
  Calls = 2  Capacity = 2
INVARIANT NoDataRace
PROPERTIES ImplementsQueue CallsReturn
CHECK_DEADLOCK FALSE
