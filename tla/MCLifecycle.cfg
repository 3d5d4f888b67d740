SPECIFICATION FairSpec
CONSTANTS
  c1 = c1
  c2 = c2
  Clients = {c1, c2}
  Ops <- ControlAndStop
  Execs <- TwoExecs
  Ticks = {t1}
  FirstRuns = {"arm", "fire"}
  Timeouts = {"exec", "shutdown"}
  None = None
INVARIANTS
  TypeOK
  StoppedIsQuiet
  ExecutorMatchesStarted
  ReportsMatchStops
PROPERTIES
  CallsReturn
CHECK_DEADLOCK FALSE
