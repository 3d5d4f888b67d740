SPECIFICATION Spec
CONSTANTS
  c1 = c1
  c2 = c2
  Clients = {c1}
  Ops <- RestartOnly
  Execs <- TwoExecs
  Ticks = {t1}
  FirstRuns = {"arm"}
  Timeouts = {}
  None = None
INVARIANTS
  StartTakesEffect
CHECK_DEADLOCK FALSE
