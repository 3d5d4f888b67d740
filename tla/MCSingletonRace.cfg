SPECIFICATION Spec
CONSTANTS
  d1 = d1
  d2 = d2
  d3 = d3
  r1 = r1
  r2 = r2
  Dispatchers = {d1, d2}
  Runners = {r1, r2}
  Modes = {"reschedule", "wait"}
  Completion = {TRUE, FALSE}
  QueueCap = 2
  Uses <- AlsoByHand
  NewModes = FALSE
  None = None
INVARIANTS
  SingletonExclusive
CHECK_DEADLOCK FALSE
