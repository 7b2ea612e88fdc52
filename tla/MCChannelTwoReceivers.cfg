SPECIFICATION FairSpec
CONSTANTS
  s1 = s1  s2 = s2  s3 = s3  r1 = r1  r2 = r2  r3 = r3  c1 = c1
  None = None
  Senders = {s1, s2}  Receivers = {r1, r2}  Closers = {}
  Setups <- MCTwo
  SendModes = {"forever"}
  RecvModes = {"forever"}
PROPERTIES NoLostWakeup
CHECK_DEADLOCK FALSE
