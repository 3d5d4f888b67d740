SPECIFICATION Spec
CONSTANTS
  d1 = d1
  d2 = d2
  d3 = d3
  r1 = r1
  r2 = r2
  Dispatchers = {d1, d2, d3}
  Runners = {r1, r2}
  Modes = {"reschedule", "wait"}
  Completion = {TRUE, FALSE}
  QueueCap = 2
  Uses <- OnlyByTimer
  NewModes = FALSE
  None = None
INVARIANT
  FirstRunsExclusive
PROPERTIES
  RunnerComesBack
CHECK_DEADLOCK FALSE
