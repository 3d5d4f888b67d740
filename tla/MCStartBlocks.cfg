SPECIFICATION FairSpec
CONSTANTS
  c1 = c1
  c2 = c2
  Clients = {c1, c2}
  Ops <- StartAndRunNow
  Execs <- TwoExecs
  Ticks = {t1}
  FirstRuns = {"arm"}
  Timeouts = {}
  None = None
PROPERTIES
  StartReturns
CHECK_DEADLOCK FALSE
