SPECIFICATION Spec
CONSTANTS
  Ids = {a}
  Timers = {t1, t2}
  Runs = {r1, r2}
  None = None
  Outcomes = {"task"}
  Horizon = 7
  Defs <- LimitedDefs
  Def <- LimitedDef
  MaxNow = 3
  TimingCap = 2
  MaxAdds = 1
  MaxRunNows = 0
  MaxStops = 0
  MaxCalls = 3
  MaxRemovals = 2
SYMMETRY Symmetry
INVARIANT LimitedRuns
CHECK_DEADLOCK FALSE
