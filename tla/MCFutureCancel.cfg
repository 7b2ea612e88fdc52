SPECIFICATION FairSpec
CONSTANTS
  a = a  b = b  c = c  d = d
  None = None
  Threads = {a, b}
  MayCall <- MCCancelRace
PROPERTIES ChainedSettles
CHECK_DEADLOCK FALSE
