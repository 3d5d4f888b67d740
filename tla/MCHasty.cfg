SPECIFICATION Spec
CONSTANTS
  c1 = c1
  c2 = c2
  Clients = {c1, c2}
  Ops <- HastyCallers
  Execs <- TwoExecs
  Ticks = {t1, t2}
  FirstRuns = {"fire"}
  Timeouts = {"exec", "sched", "stop"}
  None = None
SYMMETRY Symmetry
INVARIANTS
  ExecutorMatchesStarted
CHECK_DEADLOCK FALSE
