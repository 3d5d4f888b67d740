SPECIFICATION Spec
CONSTANTS
  d1 = d1
  d2 = d2
  d3 = d3
  r1 = r1
  r2 = r2
  Dispatchers = {d1, d2}
  Runners = {r1, r2}
  Modes = {"reschedule", "wait"}
  Completion = {TRUE, FALSE}
  QueueCap = 1
  Uses <- UpdatedOrRestarted
  NewModes = FALSE
  None = None
INVARIANTS
  TypeOK
  TokenIsOneRun
  NeverStranded
  StoppedMeansQuiet
PROPERTIES
  SkipsOnlyWhenBusy
SYMMETRY Symmetry
CHECK_DEADLOCK FALSE
