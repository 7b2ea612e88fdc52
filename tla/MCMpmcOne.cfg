SPECIFICATION Spec
CONSTANTS
  None = None
  Producers = {p1, p2}  Consumers = {c1, c2}
  Calls = 2  Capacity = 1
INVARIANTS NoDataRace
CHECK_DEADLOCK FALSE
