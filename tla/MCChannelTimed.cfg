SPECIFICATION Spec
CONSTANTS
  s1 = s1  s2 = s2  s3 = s3  r1 = r1  r2 = r2  r3 = r3  c1 = c1
  None = None
  Senders = {s1}  Receivers = {r1}  Closers = {}
  Setups <- MCRendezvous
  SendModes = {"forever", "timed"}
  RecvModes = {"forever", "timed"}
INVARIANTS TrueMeansDelivered FalseMeansKept FalseMeansLate
CHECK_DEADLOCK FALSE
