SPECIFICATION FairSpec
CONSTANTS
  a = a  b = b  c = c  d = d
  None = None
  Threads = {a, b}
  MayCall <- MCContinueRace
PROPERTIES ChainedSettles
CHECK_DEADLOCK FALSE
