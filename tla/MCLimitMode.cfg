CONSTANTS
  a = a  b = b  d1 = d1  d2 = d2  d3 = d3  r1 = r1  r2 = r2  r3 = r3
  Jobs = {a, b}
  Singletons = {a}
  FromCompletion = {b}
  Removable = {a}
  ByHand = {b}
  Limit = 2
  Modes = {"reschedule", "wait"}
  QueueCap = 1
  Dispatchers = {d1, d2}
  Runners = {r1, r2, r3}
  MaxStarts = 2
  Hasty = {"reschedule"}
  None = None
SPECIFICATION Spec
SYMMETRY Symmetry
CHECK_DEADLOCK FALSE
INVARIANTS
  TypeOK
  TokensCoverWork
  SingletonsRunOnce
  NeverStranded
  InLineOnce
  StoppedMeansQuiet
PROPERTIES
  ImplementsSlots
