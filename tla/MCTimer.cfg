SPECIFICATION FairSpec
CONSTANTS
  once = once  rate = rate  delay = delay
  Timers = {once, rate, delay}
  Kind <- MCKind  Period <- MCPeriod
  Tokens = {once}
  Delays = {0, 1}  Limits = {1}  CatchUp = 1
  Plans <- MCPlans
INVARIANTS WellFormed MemorySafe OnceNotEarly NoOversleep
PROPERTIES PeriodsKept QuietAfterCancel Fires
CHECK_DEADLOCK FALSE
