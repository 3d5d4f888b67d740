CONSTANTS
  a = a  b = b  d1 = d1  d2 = d2  d3 = d3  r1 = r1  r2 = r2  r3 = r3
  Jobs = {a, b}
  Singletons = {}
  FromCompletion = {}
  Removable = {}
  ByHand = {}
  Limit = 1
  Modes = {"reschedule"}
  QueueCap = 2
  Dispatchers = {d1, d2}
  Runners = {r1, r2}
  MaxStarts = 2
  Hasty = {}
  None = None
SPECIFICATION Spec
CHECK_DEADLOCK FALSE
PROPERTY
  SkipsOnlyAtTheLimit
